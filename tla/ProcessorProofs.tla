--------------------------- MODULE ProcessorProofs ---------------------------
(***************************************************************************)
(* The inductive invariant of the Processor in its two layers, for any     *)
(* number of goroutines, keys, telemetry items, failed writes and records  *)
(* per batch.  The first is the discipline of locks and markers: type      *)
(* correctness and at-most-once finalization rest on it.  The second       *)
(* accounts for every signal; it reasons about the maps through the set    *)
(* of items under each key, ActiveSigs({k}) and PendingSigs({k}).          *)
(***************************************************************************)
EXTENDS Processor, ObservationProofs, FiniteSetTheorems, SequenceTheorems

Entries == [Key -> Execution \cup {None}]
Times   == [Key -> Nat \cup {None}]

(* The constants as the proofs use them.                                      *)
LEMMA Constants ==
  /\ Telemetry \subseteq Item
  /\ MaxWait \in Nat /\ MaxTime \in Nat
  /\ None \notin Caller /\ None \notin Key /\ None \notin Execution /\ None \notin Telemetry
  /\ \A k \in Key : k \in Nat
BY ProcessorAssumption, ObservationAssumption, NoneIsNoExecution
   DEF ProcessorAssumption, ObservationAssumption, NoneIsNoExecution

(* buffer puts one item under its own key and leaves every other key alone.    *)
LEMMA AddType ==
  ASSUME NEW s \in Entries, NEW l \in Entries, NEW f \in Times, NEW i \in Item, now \in Nat
  PROVE  /\ Add(s, l, f, i).spans \in Entries
         /\ Add(s, l, f, i).logs \in Entries
         /\ Add(s, l, f, i).firstSeen \in Times
         /\ \A k \in Key \ {i.ex.key} : /\ Add(s, l, f, i).spans[k] = s[k]
                                        /\ Add(s, l, f, i).logs[k] = l[k]
                                        /\ Add(s, l, f, i).firstSeen[k] = f[k]
<1> DEFINE k == i.ex.key
           put(m) == [m EXCEPT ![k] = Join(@, i.ex)]
<1>1. i.ex \in Execution /\ k \in Key
  BY DEF Item, Execution, Record
<1>2. ASSUME NEW m \in Entries
      PROVE  put(m) \in Entries /\ \A j \in Key \ {k} : put(m)[j] = m[j]
  <2>1. m[k] \in Execution \cup {None}
    BY <1>1 DEF Entries
  <2>2. Join(m[k], i.ex) \in Execution \cup {None}
    BY <1>1, <2>1, JoinType
  <2> QED
    BY <1>1, <2>2 DEF Entries
<1>3. Stamp(f, k) \in Times /\ \A j \in Key \ {k} : Stamp(f, k)[j] = f[j]
  BY <1>1 DEF Times, Stamp, Either
<1>4. /\ Add(s, l, f, i).spans = IF i.signal = "traces" THEN put(s) ELSE s
      /\ Add(s, l, f, i).logs = IF i.signal = "logs" THEN put(l) ELSE l
      /\ Add(s, l, f, i).firstSeen = Stamp(f, k)
  BY DEF Add
<1> HIDE DEF put
<1> QED
  BY <1>2, <1>3, <1>4

(* mergePendingIntoActive folds one map into another, key by key.              *)
LEMMA FoldType ==
  ASSUME NEW m \in Entries, NEW p \in Entries, NEW K
  PROVE  [k \in Key |-> IF k \in K THEN Join(m[k], p[k]) ELSE m[k]] \in Entries
BY JoinType DEF Entries

(* Deleting keys from a map leaves a map (the deletes of emit).               *)
LEMMA ClearedType ==
  ASSUME NEW S, NEW m \in [Key -> S \cup {None}], NEW K
  PROVE  Cleared(m, K) \in [Key -> S \cup {None}]
BY DEF Cleared

(* count adds to counters that are naturals and keeps them so.                *)
LEMMA CountType ==
  ASSUME stats \in [StatName -> Nat], NEW names, Count(names)
  PROVE  stats' \in [StatName -> Nat]
BY DEF Count

(* assembleKey on a key with something buffered returns an assembled execution *)
(* filed under that key.                                                       *)
LEMMA AssembleKeyType ==
  ASSUME TypeOK, NEW k \in Key, spans[k] # None \/ logs[k] # None
  PROVE  AssembleKey(k) \in Assembled
<1> DEFINE p == ParentOf(k)
           parentSpan == IF p = None THEN None ELSE spans[p]
           parentLog  == IF p = None THEN None ELSE logs[p]
           ex == Join(Join(Join(spans[k], parentSpan), parentLog), logs[k])
<1>1. spans[k] \in Execution \cup {None} /\ logs[k] \in Execution \cup {None}
  BY DEF TypeOK
<1>2. p \in Key \cup {None}
  BY <1>1 DEF ParentOf, Execution, Record
<1>3. parentSpan \in Execution \cup {None} /\ parentLog \in Execution \cup {None}
  BY <1>2 DEF TypeOK
<1> HIDE DEF p
<1>4. ex \in Execution
  <2> HIDE DEF parentSpan, parentLog
  <2>1. /\ Join(spans[k], parentSpan) \in Execution \cup {None}
        /\ spans[k] # None => Join(spans[k], parentSpan) # None
    BY <1>1, <1>3, JoinType
  <2>2. /\ Join(Join(spans[k], parentSpan), parentLog) \in Execution \cup {None}
        /\ spans[k] # None => Join(Join(spans[k], parentSpan), parentLog) # None
    BY <2>1, <1>3, JoinType
  <2>3. ex \in Execution \cup {None} /\ ex # None
    BY <2>2, <1>1, JoinType
  <2> QED
    BY <2>3
<1>5. AssembleKey(k) =
        [ key    |-> k,
          parent |-> IF parentSpan = None /\ parentLog = None THEN None ELSE p,
          ex     |-> ex,
          both   |-> spans[k] # None /\ logs[k] # None,
          loggy  |-> spans[k] = None,
          parentsSuppressed |-> IF parentSpan = None THEN 0 ELSE 1 ]
  BY DEF AssembleKey, p
<1> HIDE DEF parentSpan, parentLog, ex
<1>6. (IF parentSpan = None /\ parentLog = None THEN None ELSE p) \in Key \cup {None}
  BY <1>2
<1>7. (spans[k] # None /\ logs[k] # None) \in BOOLEAN /\ (spans[k] = None) \in BOOLEAN
  OBVIOUS
<1>8. (IF parentSpan = None THEN 0 ELSE 1) \in {0, 1}
  OBVIOUS
<1> QED
  BY <1>4, <1>5, <1>6, <1>7, <1>8 DEF Assembled

------------------------------------------------------------------------------
(* Every step keeps every variable in its type.                                *)
LEMMA TypeInit == Init => TypeOK
BY Constants DEF Init, TypeOK, Nothing, StatName, Label

(* buffer: every outcome for a record keeps the types.                        *)
LEMMA TypeBuffer ==
  ASSUME TypeOK, NEW c \in Caller, Buffer(c)
  PROVE  TypeOK'
<1> DEFINE i == item[c]
           k == i.ex.key
<1>1. i \in Item /\ i.ex \in Execution /\ k \in Key
  <2>1. i \in Telemetry
    BY DEF TypeOK, Buffer
  <2> QED
    BY <2>1, Constants DEF Item, Execution, Record
<1>2. /\ spans' \in Entries /\ logs' \in Entries /\ firstSeen' \in Times
      /\ pendingSpans' \in Entries /\ pendingLogs' \in Entries /\ pendingFirstSeen' \in Times
      /\ pendingSignals' \in [Key -> Nat] /\ stats' \in [StatName -> Nat]
  <2> HIDE DEF i
  <2>0. now \in Nat /\ stats \in [StatName -> Nat] /\ pendingSignals \in [Key -> Nat]
        /\ spans \in Entries /\ logs \in Entries /\ firstSeen \in Times
        /\ pendingSpans \in Entries /\ pendingLogs \in Entries /\ pendingFirstSeen \in Times
    BY Constants DEF TypeOK, Entries, Times
  <2>1. CASE \E reason : Drop(c, reason)
    BY <2>0, <2>1, CountType DEF Drop, active, pending
  <2>2. CASE AddPending(i)
    <3> DEFINE a == Add(pendingSpans, pendingLogs, pendingFirstSeen, i)
    <3>1. a.spans \in Entries /\ a.logs \in Entries /\ a.firstSeen \in Times
      BY <1>1, <2>0, AddType
    <3>2. /\ pendingSpans' = a.spans /\ pendingLogs' = a.logs /\ pendingFirstSeen' = a.firstSeen
          /\ pendingSignals' = [pendingSignals EXCEPT ![i.ex.key] = @ + 1]
          /\ UNCHANGED <<spans, logs, firstSeen, stats>>
      BY <2>2 DEF AddPending, active
    <3>3. pendingSignals' \in [Key -> Nat]
      BY <1>1, <2>0, <3>2
    <3> QED
      BY <2>0, <3>1, <3>2, <3>3
  <2>3. CASE AddActive(i)
    BY <1>1, <2>0, <2>3, AddType DEF AddActive, pending
  <2> QED
    BY <2>1, <2>2, <2>3 DEF Buffer, i
<1>3. item' \in [Caller -> Telemetry \cup {None}]
  BY DEF Buffer, TypeOK
<1> QED
  BY <1>2, <1>3 DEF Buffer, TypeOK, Entries, Times

(* assemble up to the reservation: the batch is a set of assembled records.   *)
LEMMA TypeClaim ==
  ASSUME TypeOK, NEW c \in Caller, Claim(c)
  PROVE  TypeOK'
<1>1. batch' \subseteq Assembled
  BY AssembleKeyType DEF Claim, Ready
<1>2. inFlight' \subseteq Key
  BY <1>1 DEF Claim, TypeOK, Consumed, Assembled
<1>3. assembleMu' \in Caller \cup {None}
  BY DEF Claim, Lock
<1>4. pc' \in [Caller -> Label]
  BY DEF Claim, TypeOK, GoTo, Label
<1> QED
  BY <1>1, <1>2, <1>3, <1>4 DEF Claim, TypeOK, active, pending

(* emit after the write: the counters grow by naturals, the maps lose keys.   *)
LEMMA TypeAck ==
  ASSUME TypeOK, NEW c \in Caller, Ack(c)
  PROVE  TypeOK'
<1>1. PICK r \in batch :
        /\ batch' = batch \ {r}
        /\ spans' = Cleared(spans, Consumed(r))
        /\ logs' = Cleared(logs, Consumed(r))
        /\ firstSeen' = Cleared(firstSeen, Consumed(r))
        /\ DiscardPending(Consumed(r))
        /\ inFlight' = inFlight \ Consumed(r)
        /\ emitted' = emitted \cup Consumed(r)
        /\ stats' = [n \in StatName |->
             CASE n = "late"              -> stats[n] + Discarded(r)
               [] n = "parentsSuppressed" -> stats[n] + r.parentsSuppressed
               [] n \in Tallied(r)        -> stats[n] + 1
               [] OTHER                   -> stats[n]]
  BY DEF Ack
<1>2. r \in Assembled
  BY DEF TypeOK
<1>3. Consumed(r) \subseteq Key
  BY <1>2 DEF Consumed, Assembled
<1>4. Discarded(r) \in Nat /\ r.parentsSuppressed \in Nat
  BY <1>2 DEF TypeOK, Discarded, Assembled
<1>5. stats' \in [StatName -> Nat]
  <2>1. stats \in [StatName -> Nat]
    BY DEF TypeOK
  <2>2. ASSUME NEW n \in StatName
        PROVE  stats'[n] \in Nat
    <3> HIDE DEF StatName
    <3>1. stats[n] \in Nat
      BY <2>1
    <3>2. CASE n = "late"
      BY <1>1, <1>4, <3>1, <3>2
    <3>3. CASE n = "parentsSuppressed"
      BY <1>1, <1>4, <3>1, <3>3
    <3>4. CASE n \notin {"late", "parentsSuppressed"} /\ n \in Tallied(r)
      BY <1>1, <3>1, <3>4
    <3>5. CASE n \notin {"late", "parentsSuppressed"} /\ n \notin Tallied(r)
      BY <1>1, <3>1, <3>5
    <3> QED
      BY <3>2, <3>3, <3>4, <3>5
  <2> QED
    BY <1>1, <2>2
<1>6. /\ spans' \in [Key -> Execution \cup {None}] /\ logs' \in [Key -> Execution \cup {None}]
      /\ firstSeen' \in [Key -> Nat \cup {None}]
  BY <1>1, ClearedType DEF TypeOK
<1>7. /\ pendingSpans' \in [Key -> Execution \cup {None}]
      /\ pendingLogs' \in [Key -> Execution \cup {None}]
      /\ pendingFirstSeen' \in [Key -> Nat \cup {None}] /\ pendingSignals' \in [Key -> Nat]
  BY <1>1, ClearedType DEF TypeOK, DiscardPending, NoSignals
<1>8. pc' \in [Caller -> Label]
  BY DEF Ack, TypeOK, GoTo, Label
<1>9. batch' \subseteq Assembled /\ inFlight' \subseteq Key /\ emitted' \subseteq Key
  BY <1>1, <1>3 DEF TypeOK
<1> QED
  BY <1>5, <1>6, <1>7, <1>8, <1>9 DEF Ack, TypeOK

(* The return from assemble frees the lock and idles the caller.              *)
LEMMA TypeReturn ==
  ASSUME TypeOK, NEW c \in Caller, Return(c)
  PROVE  /\ pc' \in [Caller -> Label]
         /\ call' \in [Caller -> Signal \cup {"none", "flush"}]
         /\ cutoff' \in [Caller -> Int \cup {None}]
         /\ assembleMu' \in Caller \cup {None} /\ batch' \subseteq Assembled
BY DEF Return, TypeOK, GoTo, Label

(* restoreReserved: the folded generations are maps of executions again.      *)
LEMMA TypeRestore ==
  ASSUME TypeOK, NEW c \in Caller, Restore(c)
  PROVE  TypeOK'
<1> DEFINE K == {k \in Unwritten : HasPending(k)}
<1>1. MergePendingIntoActive(K) /\ Return(c) /\ inFlight' = inFlight \ Unwritten
  BY DEF Restore
<1>2. /\ spans' \in [Key -> Execution \cup {None}] /\ logs' \in [Key -> Execution \cup {None}]
  <2> HIDE DEF K
  <2>1. /\ spans' = [k \in Key |-> IF k \in K THEN Join(spans[k], pendingSpans[k]) ELSE spans[k]]
        /\ logs' = [k \in Key |-> IF k \in K THEN Join(logs[k], pendingLogs[k]) ELSE logs[k]]
    BY <1>1 DEF MergePendingIntoActive
  <2>2. /\ spans \in Entries /\ logs \in Entries
        /\ pendingSpans \in Entries /\ pendingLogs \in Entries
    BY DEF TypeOK, Entries
  <2>3. spans' \in Entries
    BY <2>1, <2>2, FoldType
  <2>4. logs' \in Entries
    BY <2>1, <2>2, FoldType
  <2> QED
    BY <2>3, <2>4 DEF Entries
<1>3. firstSeen' \in [Key -> Nat \cup {None}]
  BY <1>1, EitherType DEF MergePendingIntoActive, TypeOK
<1>4. /\ pendingSpans' \in [Key -> Execution \cup {None}]
      /\ pendingLogs' \in [Key -> Execution \cup {None}]
      /\ pendingFirstSeen' \in [Key -> Nat \cup {None}] /\ pendingSignals' \in [Key -> Nat]
  BY <1>1, ClearedType DEF TypeOK, MergePendingIntoActive, NoSignals
<1> QED
  BY <1>1, <1>2, <1>3, <1>4, TypeReturn DEF Restore, TypeOK

LEMMA TypeStep == TypeOK /\ [Next]_vars => TypeOK'
<1> SUFFICES ASSUME TypeOK, [Next]_vars PROVE TypeOK'
  OBVIOUS
<1> USE DEF active, pending
<1>1. CASE UNCHANGED vars
  BY <1>1 DEF TypeOK, vars
<1>2. CASE Tick
  BY <1>2, Constants DEF TypeOK, Tick
<1>3. ASSUME NEW c \in Caller, StartConsume(c) PROVE TypeOK'
  BY <1>3 DEF TypeOK, StartConsume, GoTo, Label
<1>4. ASSUME NEW c \in Caller, Receive(c) PROVE TypeOK'
  <2>1. stats' \in [StatName -> Nat]
    BY <1>4, CountType DEF Receive, TypeOK
  <2>2. taken' \subseteq Telemetry /\ item' \in [Caller -> Telemetry \cup {None}]
    BY <1>4 DEF Receive, TypeOK
  <2> QED
    BY <1>4, <2>1, <2>2 DEF TypeOK, Receive, GoTo, Label
<1>5. ASSUME NEW c \in Caller, EndRequest(c) PROVE TypeOK'
  <2>1. pc' \in [Caller -> Label]
    BY <1>5 DEF TypeOK, EndRequest, GoTo, Label
  <2>2. call' \in [Caller -> Signal \cup {"none", "flush"}]
    BY <1>5 DEF TypeOK, EndRequest
  <2>3. now - MaxWait \in Int
    BY Constants DEF TypeOK
  <2>4. cutoff' \in [Caller -> Int \cup {None}]
    BY <1>5, <2>3 DEF TypeOK, EndRequest
  <2> QED
    BY <1>5, <2>1, <2>2, <2>4 DEF TypeOK, EndRequest
<1>6. ASSUME NEW c \in Caller, StartFlush(c) PROVE TypeOK'
  BY <1>6 DEF TypeOK, StartFlush, GoTo, Label
<1>7. ASSUME NEW c \in Caller, Finish(c) PROVE TypeOK'
  BY <1>7, TypeReturn DEF TypeOK, Finish
<1>8. ASSUME NEW c \in Caller, Skip(c) PROVE TypeOK'
  BY <1>8 DEF TypeOK, Skip
<1>9. ASSUME NEW c \in Caller, TryEmit(c) PROVE TypeOK'
  BY <1>9 DEF TypeOK, TryEmit, GoTo, Label
<1>10. ASSUME NEW c \in Caller, WriteOK(c) PROVE TypeOK'
  <2>1. written' \in Seq(Execution)
    BY <1>10 DEF TypeOK, WriteOK, Assembled
  <2> QED
    BY <1>10, <2>1 DEF TypeOK, WriteOK, GoTo, Label
<1>11. ASSUME NEW c \in Caller, WriteFail(c) PROVE TypeOK'
  <2>1. stats' \in [StatName -> Nat]
    BY <1>11, CountType DEF WriteFail, TypeOK
  <2> QED
    BY <1>11, <2>1 DEF TypeOK, WriteFail, GoTo, Label
<1> QED
  BY <1>1, <1>2, <1>3, <1>4, <1>5, <1>6, <1>7, <1>8, <1>9, <1>10, <1>11,
     TypeBuffer, TypeClaim, TypeAck, TypeRestore
     DEF Next, Ingest, Assemble, Sink

(* Every variable keeps its type; in particular no stored or written record     *)
(* carries an operation id without being correlated, nor the reverse, and no    *)
(* counter is ever decremented below zero (processor.go, execution.go).         *)
THEOREM TypeCorrect == Spec => []TypeOK
<1>1. Init => TypeOK
  BY TypeInit
<1>2. TypeOK /\ [Next]_vars => TypeOK'
  BY TypeStep
<1> QED
  BY <1>1, <1>2, PTL DEF Spec

------------------------------------------------------------------------------
(* Finalized keys.  Together with the types this part is inductive by itself.  *)

(* The steps that touch neither the maps, nor the reservations, nor emitted.   *)
LEMMA ClosedUnchanged ==
  ASSUME FinalizedStaysClosed, UNCHANGED <<active, pending, inFlight, emitted>>
  PROVE  FinalizedStaysClosed'
BY DEF FinalizedStaysClosed, active, pending

(* buffer refuses a finalized key and touches no other.                        *)
LEMMA ClosedBuffer ==
  ASSUME TypeOK, FinalizedStaysClosed, NEW c \in Caller, Buffer(c)
  PROVE  FinalizedStaysClosed'
<1> DEFINE i == item[c]
           k == i.ex.key
<1>1. i \in Item /\ k \in Key
  <2>1. i \in Telemetry
    BY DEF TypeOK, Buffer
  <2> QED
    BY <2>1, Constants DEF Item, Execution, Record
<1>2. now \in Nat /\ pendingSignals \in [Key -> Nat] /\ emitted \subseteq Key
      /\ spans \in Entries /\ logs \in Entries /\ firstSeen \in Times
      /\ pendingSpans \in Entries /\ pendingLogs \in Entries /\ pendingFirstSeen \in Times
  BY Constants DEF TypeOK, Entries, Times
<1>3. UNCHANGED <<inFlight, emitted>>
  BY DEF Buffer
<1> HIDE DEF i
<1>4. CASE \E reason : Drop(c, reason)
  BY <1>3, <1>4, ClosedUnchanged DEF Drop
<1>5. CASE k \notin emitted /\ AddPending(i)
  <2> DEFINE a == Add(pendingSpans, pendingLogs, pendingFirstSeen, i)
  <2>1. \A j \in Key \ {k} : /\ a.spans[j] = pendingSpans[j] /\ a.logs[j] = pendingLogs[j]
                             /\ a.firstSeen[j] = pendingFirstSeen[j]
    BY <1>1, <1>2, AddType
  <2>2. /\ pendingSpans' = a.spans /\ pendingLogs' = a.logs /\ pendingFirstSeen' = a.firstSeen
        /\ pendingSignals' = [pendingSignals EXCEPT ![k] = @ + 1]
        /\ UNCHANGED <<spans, logs, firstSeen>>
    BY <1>5 DEF AddPending, active
  <2> HIDE DEF a, k
  <2>3. ASSUME NEW j \in emitted
        PROVE  /\ pendingSpans'[j] = pendingSpans[j] /\ pendingLogs'[j] = pendingLogs[j]
               /\ pendingFirstSeen'[j] = pendingFirstSeen[j]
               /\ pendingSignals'[j] = pendingSignals[j]
    BY <1>2, <1>5, <2>1, <2>2
  <2> QED
    BY <1>3, <2>2, <2>3 DEF FinalizedStaysClosed
<1>6. CASE k \notin emitted /\ AddActive(i)
  <2> DEFINE a == Add(spans, logs, firstSeen, i)
  <2>1. \A j \in Key \ {k} : /\ a.spans[j] = spans[j] /\ a.logs[j] = logs[j]
                             /\ a.firstSeen[j] = firstSeen[j]
    BY <1>1, <1>2, AddType
  <2>2. /\ spans' = a.spans /\ logs' = a.logs /\ firstSeen' = a.firstSeen
        /\ UNCHANGED <<pendingSpans, pendingLogs, pendingFirstSeen, pendingSignals>>
    BY <1>6 DEF AddActive, pending
  <2> HIDE DEF a, k
  <2>3. ASSUME NEW j \in emitted
        PROVE  spans'[j] = spans[j] /\ logs'[j] = logs[j] /\ firstSeen'[j] = firstSeen[j]
    BY <1>2, <1>6, <2>1, <2>2
  <2> QED
    BY <1>3, <2>2, <2>3 DEF FinalizedStaysClosed
<1> QED
  BY <1>4, <1>5, <1>6 DEF Buffer, Finalized, i

(* A key with something buffered is not final, nor is the parent whose span or *)
(* log assembleKey merges into it.                                             *)
LEMMA ClosedConsumed ==
  ASSUME TypeOK, FinalizedStaysClosed, NEW k \in Key, spans[k] # None \/ logs[k] # None
  PROVE  Consumed(AssembleKey(k)) \cap emitted = {}
<1> DEFINE p == ParentOf(k)
<1>1. k \notin emitted
  BY DEF FinalizedStaysClosed
<1>2. AssembleKey(k).key = k
  BY DEF AssembleKey
<1>3. CASE p = None
  BY <1>1, <1>2, <1>3 DEF AssembleKey, Consumed
<1>4. CASE p # None /\ spans[p] = None /\ logs[p] = None
  <2>1. AssembleKey(k).parent = None
    BY <1>4 DEF AssembleKey
  <2> QED
    BY <1>1, <1>2, <2>1 DEF Consumed
<1>5. CASE p # None /\ ~(spans[p] = None /\ logs[p] = None)
  <2>1. AssembleKey(k).parent = p
    BY <1>5 DEF AssembleKey
  <2>2. p \notin emitted
    BY <1>5 DEF FinalizedStaysClosed
  <2> QED
    BY <1>1, <1>2, <2>1, <2>2 DEF Consumed
<1> QED
  BY <1>3, <1>4, <1>5

(* assemble reserves only keys with something buffered, which are not final.   *)
LEMMA ClosedClaim ==
  ASSUME TypeOK, FinalizedStaysClosed, NEW c \in Caller, Claim(c)
  PROVE  FinalizedStaysClosed'
<1>1. ASSUME NEW k \in Key, spans[k] # None \/ logs[k] # None
      PROVE  Consumed(AssembleKey(k)) \cap emitted = {}
  BY <1>1, ClosedConsumed
<1>2. \A r \in batch' : Consumed(r) \cap emitted = {}
  BY <1>1 DEF Claim, Ready
<1>3. /\ inFlight' = inFlight \cup UNION {Consumed(r) : r \in batch'}
      /\ UNCHANGED <<active, pending, emitted>>
  BY DEF Claim
<1>4. \A k \in emitted : k \notin inFlight'
  BY <1>2, <1>3 DEF FinalizedStaysClosed
<1> QED
  BY <1>3, <1>4 DEF FinalizedStaysClosed, active, pending

(* emit clears every map under the keys it finalizes.                          *)
LEMMA ClosedAck ==
  ASSUME TypeOK, FinalizedStaysClosed, NEW c \in Caller, Ack(c)
  PROVE  FinalizedStaysClosed'
<1>1. PICK r \in batch :
        /\ spans' = Cleared(spans, Consumed(r)) /\ logs' = Cleared(logs, Consumed(r))
        /\ firstSeen' = Cleared(firstSeen, Consumed(r))
        /\ DiscardPending(Consumed(r))
        /\ inFlight' = inFlight \ Consumed(r)
        /\ emitted' = emitted \cup Consumed(r)
  BY DEF Ack
<1>2. emitted' \subseteq Key
  BY TypeAck DEF TypeOK
<1> QED
  BY <1>1, <1>2 DEF FinalizedStaysClosed, Cleared, DiscardPending, NoSignals

(* A rollback brings back pending signals only, and final keys have none.      *)
LEMMA ClosedRestore ==
  ASSUME TypeOK, FinalizedStaysClosed, NEW c \in Caller, Restore(c)
  PROVE  FinalizedStaysClosed'
<1> DEFINE K == {k \in Unwritten : HasPending(k)}
<1>1. MergePendingIntoActive(K) /\ inFlight' = inFlight \ Unwritten /\ emitted' = emitted
  BY DEF Restore
<1>2. \A k \in emitted : k \in Key /\ k \notin K
  BY DEF FinalizedStaysClosed, HasPending, TypeOK
<1> HIDE DEF K
<1>3. ASSUME NEW k \in emitted
      PROVE  /\ spans'[k] = spans[k] /\ logs'[k] = logs[k] /\ firstSeen'[k] = firstSeen[k]
             /\ pendingSpans'[k] = pendingSpans[k] /\ pendingLogs'[k] = pendingLogs[k]
             /\ pendingFirstSeen'[k] = pendingFirstSeen[k]
             /\ pendingSignals'[k] = pendingSignals[k]
  BY <1>1, <1>2 DEF MergePendingIntoActive, Cleared, NoSignals
<1> QED
  BY <1>1, <1>3 DEF FinalizedStaysClosed

(* No step buffers or reserves a finalized key: one case per action.          *)
LEMMA ClosedStep == TypeOK /\ FinalizedStaysClosed /\ [Next]_vars => FinalizedStaysClosed'
<1> SUFFICES ASSUME TypeOK, FinalizedStaysClosed, [Next]_vars PROVE FinalizedStaysClosed'
  OBVIOUS
<1>1. CASE UNCHANGED vars
  BY <1>1, ClosedUnchanged DEF vars
<1>2. CASE Tick
  BY <1>2, ClosedUnchanged DEF Tick
<1>3. ASSUME NEW c \in Caller, Ingest(c) \/ StartFlush(c) PROVE FinalizedStaysClosed'
  BY <1>3, ClosedUnchanged, ClosedBuffer
     DEF Ingest, StartConsume, Receive, EndRequest, StartFlush
<1>4. ASSUME NEW c \in Caller, Assemble(c) PROVE FinalizedStaysClosed'
  BY <1>4, ClosedUnchanged, ClosedClaim, ClosedAck, ClosedRestore
     DEF Assemble, Finish, Skip, TryEmit
<1>5. ASSUME NEW c \in Caller, Sink(c) PROVE FinalizedStaysClosed'
  BY <1>5, ClosedUnchanged DEF Sink, WriteOK, WriteFail
<1> QED
  BY <1>1, <1>2, <1>3, <1>4, <1>5 DEF Next

(* A key that was finalized by an acknowledged write is never buffered, pending *)
(* or reserved again (buffer and emit, processor.go:189-194 and 412-419).      *)
THEOREM FinalizedForGood == Spec => []FinalizedStaysClosed
<1>1. Init => FinalizedStaysClosed
  BY DEF Init, FinalizedStaysClosed
<1>2. TypeOK /\ FinalizedStaysClosed /\ [Next]_vars => FinalizedStaysClosed'
  BY ClosedStep
<1> QED
  BY <1>1, <1>2, TypeCorrect, PTL DEF Spec

------------------------------------------------------------------------------
(* The assembly lock.                                                         *)
LEMMA OnlyHolder ==
  ASSUME LockHeld, NEW c \in Caller, NEW d \in Caller, pc[c] \in Holding, pc[d] \in Holding
  PROVE  c = d
BY DEF LockHeld

(* assembleMu is held exactly from the claim to the return, by every step.    *)
LEMMA LockStep == TypeOK /\ LockHeld /\ [Next]_vars => LockHeld'
<1> SUFFICES ASSUME TypeOK, LockHeld, [Next]_vars PROVE LockHeld'
  OBVIOUS
<1> USE DEF LockHeld, Holding
<1>1. CASE UNCHANGED vars
  BY <1>1 DEF vars
<1>2. CASE Tick
  BY <1>2 DEF Tick
<1>3. ASSUME NEW c \in Caller, Ingest(c) \/ StartFlush(c) PROVE LockHeld'
  <2>1. UNCHANGED <<assembleMu, batch>> /\ pc[c] \notin Holding
    BY <1>3 DEF Ingest, StartConsume, Receive, Buffer, EndRequest, StartFlush
  <2>2. /\ pc' = pc \/ \E l \in {"idle", "loop", "assemble"} : pc' = [pc EXCEPT ![c] = l]
    BY <1>3 DEF Ingest, StartConsume, Receive, Buffer, EndRequest, StartFlush, GoTo
  <2> QED
    BY <2>1, <2>2 DEF TypeOK
<1>4. ASSUME NEW c \in Caller, Claim(c) PROVE LockHeld'
  BY <1>4, Constants DEF Claim, Lock, GoTo, TypeOK
<1>5. ASSUME NEW c \in Caller, Finish(c) \/ Restore(c) PROVE LockHeld'
  <2>1. assembleMu = c /\ Return(c)
    BY <1>5 DEF Finish, Restore
  <2> QED
    BY <2>1, Constants DEF Return, GoTo, TypeOK
<1>6. ASSUME NEW c \in Caller, Skip(c) PROVE LockHeld'
  BY <1>6, Constants DEF Skip, TypeOK
<1>7. ASSUME NEW c \in Caller, TryEmit(c) \/ WriteOK(c) \/ WriteFail(c) \/ Ack(c) PROVE LockHeld'
  <2>1. assembleMu = c /\ assembleMu' = c
    BY <1>7 DEF TryEmit, WriteOK, WriteFail, Ack
  <2>2. \E l \in Holding : pc' = [pc EXCEPT ![c] = l]
    BY <1>7 DEF TryEmit, WriteOK, WriteFail, Ack, GoTo
  <2> QED
    BY <2>1, <2>2, Constants DEF TypeOK
<1> QED
  BY <1>1, <1>2, <1>3, <1>4, <1>5, <1>6, <1>7 DEF Next, Assemble, Sink

(* Map entries and records under their keys.                                  *)
LEMMA AddFiled ==
  ASSUME NEW s \in Entries, NEW l \in Entries, NEW f \in Times, NEW i \in Item,
         Filed(s), Filed(l)
  PROVE  Filed(Add(s, l, f, i).spans) /\ Filed(Add(s, l, f, i).logs)
<1> DEFINE put(m) == [m EXCEPT ![i.ex.key] = Join(@, i.ex)]
<1>1. i.ex \in Execution /\ i.ex.key \in Key
  BY DEF Item, Execution, Record
<1>2. ASSUME NEW m \in Entries, Filed(m)
      PROVE  Filed(put(m))
  <2>1. m[i.ex.key] \in Execution \cup {None}
    BY <1>1 DEF Entries
  <2>2. Join(m[i.ex.key], i.ex).key = i.ex.key
    BY <1>1, <1>2, <2>1, JoinType DEF Filed
  <2> QED
    BY <1>1, <1>2, <2>2 DEF Filed, Entries
<1>3. /\ Add(s, l, f, i).spans = IF i.signal = "traces" THEN put(s) ELSE s
      /\ Add(s, l, f, i).logs = IF i.signal = "logs" THEN put(l) ELSE l
  BY DEF Add
<1> HIDE DEF put
<1> QED
  BY <1>2, <1>3

(* mergePendingIntoActive keeps entries filed, because merge keeps base's key. *)
LEMMA FoldFiled ==
  ASSUME NEW m \in Entries, NEW p \in Entries, Filed(m), Filed(p), NEW K
  PROVE  Filed([k \in Key |-> IF k \in K THEN Join(m[k], p[k]) ELSE m[k]])
<1> SUFFICES ASSUME NEW k \in Key, Join(m[k], p[k]) # None
             PROVE  Join(m[k], p[k]).key = k
  BY DEF Filed
<1>1. m[k] \in Execution \cup {None} /\ p[k] \in Execution \cup {None}
  BY DEF Entries
<1>2. CASE m[k] # None
  BY <1>1, <1>2, JoinType DEF Filed
<1>3. CASE m[k] = None
  <2>1. Join(m[k], p[k]) = p[k]
    BY <1>1, <1>3, JoinType
  <2> QED
    BY <2>1 DEF Filed
<1> QED
  BY <1>2, <1>3

(* Deleting keys keeps the rest filed.                                        *)
LEMMA ClearedFiled ==
  ASSUME NEW m, Filed(m), NEW K
  PROVE  Filed(Cleared(m, K))
BY DEF Filed, Cleared

(* assembleKey names the record it builds by its own key, not the parent's.   *)
LEMMA AssembleKeyFiled ==
  ASSUME TypeOK, FiledUnderItsKey, NEW k \in Key, spans[k] # None \/ logs[k] # None
  PROVE  AssembleKey(k).key = k /\ AssembleKey(k).ex.key = k
<1> DEFINE p == ParentOf(k)
           parentSpan == IF p = None THEN None ELSE spans[p]
           parentLog  == IF p = None THEN None ELSE logs[p]
<1>1. spans[k] \in Execution \cup {None} /\ logs[k] \in Execution \cup {None}
  BY DEF TypeOK
<1>2. p \in Key \cup {None}
  BY <1>1 DEF ParentOf, Execution, Record
<1>3. parentSpan \in Execution \cup {None} /\ parentLog \in Execution \cup {None}
  BY <1>2 DEF TypeOK
<1>4. spans[k] = None => parentSpan = None /\ parentLog = None
  BY DEF ParentOf
<1>5. /\ AssembleKey(k).key = k
      /\ AssembleKey(k).ex = Join(Join(Join(spans[k], parentSpan), parentLog), logs[k])
  BY DEF AssembleKey
<1> HIDE DEF parentSpan, parentLog
<1>6. CASE spans[k] = None
  <2>1. Join(Join(spans[k], parentSpan), parentLog) = None
    BY <1>4, <1>6 DEF Join
  <2>2. AssembleKey(k).ex = logs[k]
    BY <1>5, <2>1 DEF Join
  <2> QED
    BY <1>5, <1>6, <2>2 DEF FiledUnderItsKey, Filed
<1>7. CASE spans[k] # None
  <2>1. spans[k].key = k
    BY <1>7 DEF FiledUnderItsKey, Filed
  <2>2. /\ Join(spans[k], parentSpan) \in Execution \cup {None}
        /\ Join(spans[k], parentSpan) # None
        /\ Join(spans[k], parentSpan).key = k
    BY <1>1, <1>3, <1>7, <2>1, JoinType
  <2>3. /\ Join(Join(spans[k], parentSpan), parentLog) \in Execution \cup {None}
        /\ Join(Join(spans[k], parentSpan), parentLog) # None
        /\ Join(Join(spans[k], parentSpan), parentLog).key = k
    BY <1>3, <2>2, JoinType
  <2>4. Join(Join(Join(spans[k], parentSpan), parentLog), logs[k]).key = k
    BY <1>1, <2>3, JoinType
  <2> QED
    BY <1>5, <2>4
<1> QED
  BY <1>6, <1>7

(* Steps that leave the maps and the batch alone leave them filed.            *)
LEMMA FiledUnchanged ==
  ASSUME FiledUnderItsKey, UNCHANGED <<active, pending>>, batch' \subseteq batch
  PROVE  FiledUnderItsKey'
BY DEF FiledUnderItsKey, Filed, active, pending

(* buffer files an item under its own key, active or pending.                 *)
LEMMA FiledBuffer ==
  ASSUME TypeOK, FiledUnderItsKey, NEW c \in Caller, Buffer(c)
  PROVE  FiledUnderItsKey'
<1> DEFINE i == item[c]
<1>1. i \in Item
  <2>1. i \in Telemetry
    BY DEF TypeOK, Buffer
  <2> QED
    BY <2>1, Constants
<1>2. /\ spans \in Entries /\ logs \in Entries /\ firstSeen \in Times
      /\ pendingSpans \in Entries /\ pendingLogs \in Entries /\ pendingFirstSeen \in Times
  BY DEF TypeOK, Entries, Times
<1>3. batch' = batch
  BY DEF Buffer
<1> HIDE DEF i
<1>4. CASE \E reason : Drop(c, reason)
  BY <1>3, <1>4, FiledUnchanged DEF Drop
<1>5. CASE AddPending(i)
  <2>1. Filed(pendingSpans') /\ Filed(pendingLogs')
    BY <1>1, <1>2, <1>5, AddFiled DEF AddPending, FiledUnderItsKey
  <2> QED
    BY <1>3, <1>5, <2>1 DEF AddPending, FiledUnderItsKey, Filed, active
<1>6. CASE AddActive(i)
  <2>1. Filed(spans') /\ Filed(logs')
    BY <1>1, <1>2, <1>6, AddFiled DEF AddActive, FiledUnderItsKey
  <2> QED
    BY <1>3, <1>6, <2>1 DEF AddActive, FiledUnderItsKey, Filed, pending
<1> QED
  BY <1>4, <1>5, <1>6 DEF Buffer, i

(* assemble reserves one record per ready key.                                *)
LEMMA FiledClaim ==
  ASSUME TypeOK, FiledUnderItsKey, NEW c \in Caller, Claim(c)
  PROVE  FiledUnderItsKey'
<1>1. \A r \in batch' : \E k \in Key : /\ r = AssembleKey(k) /\ (spans[k] # None \/ logs[k] # None)
  BY DEF Claim, Ready
<1>2. \A r \in batch' : r.ex.key = r.key /\ r = AssembleKey(r.key)
  BY <1>1, AssembleKeyFiled
<1>3. \A r, s \in batch' : r.key = s.key => r = s
  BY <1>2
<1> QED
  BY <1>2, <1>3 DEF Claim, FiledUnderItsKey, Filed, active, pending

(* emit deletes entries and one record of the batch.                          *)
LEMMA FiledAck ==
  ASSUME TypeOK, FiledUnderItsKey, NEW c \in Caller, Ack(c)
  PROVE  FiledUnderItsKey'
<1>1. PICK r \in batch :
        /\ batch' = batch \ {r}
        /\ spans' = Cleared(spans, Consumed(r)) /\ logs' = Cleared(logs, Consumed(r))
        /\ DiscardPending(Consumed(r))
  BY DEF Ack
<1>2. Filed(spans') /\ Filed(logs') /\ Filed(pendingSpans') /\ Filed(pendingLogs')
  BY <1>1, ClearedFiled DEF DiscardPending, FiledUnderItsKey
<1> QED
  BY <1>1, <1>2 DEF FiledUnderItsKey, Filed

(* restoreReserved folds pending entries into active ones of the same key.    *)
LEMMA FiledRestore ==
  ASSUME TypeOK, FiledUnderItsKey, NEW c \in Caller, Restore(c)
  PROVE  FiledUnderItsKey'
<1> DEFINE K == {k \in Unwritten : HasPending(k)}
<1>1. MergePendingIntoActive(K) /\ batch' = {}
  BY DEF Restore, Return
<1> HIDE DEF K
<1>2. /\ spans \in Entries /\ logs \in Entries
      /\ pendingSpans \in Entries /\ pendingLogs \in Entries
  BY DEF TypeOK, Entries
<1>3. /\ spans' = [k \in Key |-> IF k \in K THEN Join(spans[k], pendingSpans[k]) ELSE spans[k]]
      /\ logs' = [k \in Key |-> IF k \in K THEN Join(logs[k], pendingLogs[k]) ELSE logs[k]]
  BY <1>1 DEF MergePendingIntoActive
<1>0. Filed(spans) /\ Filed(logs) /\ Filed(pendingSpans) /\ Filed(pendingLogs)
  BY DEF FiledUnderItsKey
<1>4. Filed(spans')
  <2>1. Filed([k \in Key |-> IF k \in K THEN Join(spans[k], pendingSpans[k]) ELSE spans[k]])
    BY ONLY <1>0, <1>2, FoldFiled
  <2> QED
    BY <2>1, <1>3
<1>5. Filed(logs')
  <2>1. Filed([k \in Key |-> IF k \in K THEN Join(logs[k], pendingLogs[k]) ELSE logs[k]])
    BY ONLY <1>0, <1>2, FoldFiled
  <2> QED
    BY <2>1, <1>3
<1>6. Filed(pendingSpans') /\ Filed(pendingLogs')
  BY <1>1, ClearedFiled DEF MergePendingIntoActive, FiledUnderItsKey
<1> QED
  BY <1>1, <1>4, <1>5, <1>6 DEF FiledUnderItsKey, Filed

(* Entries and records stay filed under their keys: one case per action.      *)
LEMMA FiledStep == TypeOK /\ FiledUnderItsKey /\ [Next]_vars => FiledUnderItsKey'
<1> SUFFICES ASSUME TypeOK, FiledUnderItsKey, [Next]_vars PROVE FiledUnderItsKey'
  OBVIOUS
<1>1. CASE UNCHANGED vars
  BY <1>1, FiledUnchanged DEF vars
<1>2. CASE Tick
  BY <1>2, FiledUnchanged DEF Tick
<1>3. ASSUME NEW c \in Caller, Ingest(c) \/ StartFlush(c) PROVE FiledUnderItsKey'
  BY <1>3, FiledUnchanged, FiledBuffer
     DEF Ingest, StartConsume, Receive, EndRequest, StartFlush
<1>4. ASSUME NEW c \in Caller, Assemble(c) PROVE FiledUnderItsKey'
  <2>1. CASE Finish(c) \/ Skip(c) \/ TryEmit(c)
    <3>1. UNCHANGED <<active, pending>> /\ batch' \subseteq batch
      BY <2>1 DEF Finish, Return, Skip, TryEmit
    <3> QED
      BY <3>1, FiledUnchanged
  <2> QED
    BY <1>4, <2>1, FiledClaim, FiledAck, FiledRestore DEF Assemble
<1>5. ASSUME NEW c \in Caller, Sink(c) PROVE FiledUnderItsKey'
  BY <1>5, FiledUnchanged DEF Sink, WriteOK, WriteFail
<1> QED
  BY <1>1, <1>2, <1>3, <1>4, <1>5 DEF Next

------------------------------------------------------------------------------
(* What is in the sink is finalized, and by distinct keys.                     *)
Written == WrittenIsFinalized /\ AtMostOncePerKey

(* One record per key makes the first record of a batch unique.               *)
LEMMA FirstIsUnique ==
  ASSUME TypeOK, FiledUnderItsKey, NEW r, NEW s, IsFirst(r), IsFirst(s)
  PROVE  r = s
<1>1. r \in batch /\ s \in batch /\ r.key \in Nat /\ s.key \in Nat
  BY Constants DEF IsFirst, TypeOK, Assembled
<1>2. r.key <= s.key /\ s.key <= r.key
  BY <1>1 DEF IsFirst
<1>3. r.key = s.key
  BY <1>1, <1>2
<1> QED
  BY <1>1, <1>3 DEF FiledUnderItsKey

(* Steps of callers that are neither at a write nor at an acknowledgement,     *)
(* before and after, and that leave the batch alone.                           *)
LEMMA WrittenUnchanged ==
  ASSUME Written, UNCHANGED <<batch, emitted, written>>,
         \A d \in Caller : pc'[d] = "write" => pc[d] = "write",
         \A d \in Caller : pc[d] = "ack" => pc'[d] = "ack"
  PROVE  Written'
BY DEF Written, WrittenIsFinalized, AtMostOncePerKey, IsFirst

(* If no caller is at an acknowledgement, everything written is finalized.     *)
LEMMA WrittenAllFinal ==
  ASSUME WrittenIsFinalized, \A d \in Caller : pc[d] # "ack"
  PROVE  \A n \in DOMAIN written : written[n].key \in emitted
BY DEF WrittenIsFinalized

(* Steps after which no caller is at a write or an acknowledgement, and before *)
(* which none was at an acknowledgement.                                       *)
LEMMA WrittenQuiet ==
  ASSUME Written, UNCHANGED <<emitted, written>>,
         \A d \in Caller : pc[d] # "ack",
         \A d \in Caller : pc'[d] # "write"
  PROVE  Written'
<1>1. \A n \in DOMAIN written : written[n].key \in emitted
  BY WrittenAllFinal DEF Written
<1> QED
  BY <1>1 DEF Written, WrittenIsFinalized, AtMostOncePerKey

(* A write appends the first record of the batch, whose key was not finalized. *)
LEMMA WrittenOK ==
  ASSUME TypeOK, Discipline, NEW c \in Caller, WriteOK(c)
  PROVE  Written'
<1>1. PICK r \in batch : IsFirst(r) /\ written' = Append(written, r.ex)
  BY DEF WriteOK
<1>2. pc[c] = "write" /\ pc' = [pc EXCEPT ![c] = "ack"] /\ UNCHANGED <<batch, emitted>>
  BY DEF WriteOK, GoTo
<1>3. \A d \in Caller : pc[d] # "ack" /\ pc'[d] # "write" /\ pc'[c] = "ack"
  BY <1>2, OnlyHolder DEF Discipline, Holding, TypeOK
<1>4. r.ex.key = r.key /\ r.key \notin emitted
  BY <1>1, <1>2 DEF Discipline, FiledUnderItsKey, WrittenIsFinalized
<1>5. \A n \in DOMAIN written : written[n].key \in emitted
  BY <1>3, WrittenAllFinal DEF Discipline
<1>6. /\ written \in Seq(Execution) /\ r.ex \in Execution
  BY DEF TypeOK, Assembled
<1>7. /\ Len(written') = Len(written) + 1 /\ DOMAIN written' = 1 .. Len(written) + 1
      /\ DOMAIN written = 1 .. Len(written) /\ Len(written) \in Nat
      /\ \A n \in 1 .. Len(written) : written'[n] = written[n]
      /\ written'[Len(written) + 1] = r.ex
  BY <1>1, <1>6
<1>8. IsFirst(r)'
  BY <1>1, <1>2 DEF IsFirst
<1>9. WrittenIsFinalized'
  <2>1. ASSUME NEW n \in DOMAIN written'
        PROVE  \/ written'[n].key \in emitted'
               \/ /\ n = Len(written')
                  /\ \E d \in Caller : pc'[d] = "ack"
                  /\ \E s \in batch' : IsFirst(s)' /\ s.key = written'[n].key
    <3>1. CASE n \in 1 .. Len(written)
      BY <1>2, <1>5, <1>7, <3>1
    <3>2. CASE n = Len(written) + 1
      BY <1>2, <1>3, <1>4, <1>7, <1>8, <3>2
    <3> QED
      BY <1>7, <2>1, <3>1, <3>2
  <2> QED
    BY <1>3, <2>1 DEF WrittenIsFinalized
<1>10. AtMostOncePerKey'
  <2>1. SUFFICES ASSUME NEW m \in DOMAIN written', NEW n \in DOMAIN written', m # n
                 PROVE  written'[m].key # written'[n].key
    BY DEF AtMostOncePerKey
  <2>2. CASE m \in 1 .. Len(written) /\ n \in 1 .. Len(written)
    BY <1>7, <2>1, <2>2 DEF Discipline, AtMostOncePerKey
  <2>3. CASE m \in 1 .. Len(written) /\ n = Len(written) + 1
    BY <1>4, <1>5, <1>7, <2>3
  <2>4. CASE m = Len(written) + 1 /\ n \in 1 .. Len(written)
    BY <1>4, <1>5, <1>7, <2>4
  <2> QED
    BY <1>7, <2>1, <2>2, <2>3, <2>4
<1> QED
  BY <1>9, <1>10 DEF Written

(* The acknowledgement finalizes the key of the record just written.          *)
LEMMA WrittenAck ==
  ASSUME TypeOK, Discipline, NEW c \in Caller, Ack(c)
  PROVE  Written'
<1>1. PICK r \in batch : IsFirst(r) /\ emitted' = emitted \cup Consumed(r)
  BY DEF Ack
<1>2. pc[c] = "ack" /\ pc' = [pc EXCEPT ![c] = "emit"] /\ UNCHANGED written
  BY DEF Ack, GoTo
<1>3. \A d \in Caller : pc'[d] # "write"
  BY <1>2, OnlyHolder DEF Discipline, Holding, TypeOK
<1>4. ASSUME NEW n \in DOMAIN written
      PROVE  written[n].key \in emitted'
  <2>1. CASE written[n].key \in emitted
    BY <1>1, <2>1
  <2>2. CASE \E s \in batch : IsFirst(s) /\ s.key = written[n].key
    BY <1>1, <2>2, FirstIsUnique DEF Discipline, Consumed
  <2> QED
    BY <2>1, <2>2 DEF Discipline, WrittenIsFinalized
<1> QED
  BY <1>2, <1>3, <1>4 DEF Written, WrittenIsFinalized, AtMostOncePerKey, Discipline

(* emit goes to the write only when the key is not finalized.                 *)
LEMMA WrittenTryEmit ==
  ASSUME TypeOK, Discipline, NEW c \in Caller, TryEmit(c)
  PROVE  Written'
<1>1. PICK r \in batch : IsFirst(r) /\ r.key \notin emitted
  BY DEF TryEmit
<1>2. pc[c] = "emit" /\ UNCHANGED <<batch, emitted, written>>
  BY DEF TryEmit
<1>3. \A d \in Caller : pc[d] # "ack"
  BY <1>2, OnlyHolder DEF Discipline, Holding
<1>4. \A s \in batch : IsFirst(s) => s.key \notin emitted
  BY <1>1, FirstIsUnique DEF Discipline
<1>5. \A n \in DOMAIN written : written[n].key \in emitted
  BY <1>3, WrittenAllFinal DEF Discipline
<1> QED
  BY <1>2, <1>4, <1>5 DEF Written, WrittenIsFinalized, AtMostOncePerKey, Discipline, IsFirst

(* What is written stays finalized and unique: one case per action.           *)
LEMMA WrittenStep == TypeOK /\ Discipline /\ [Next]_vars => Written'
<1> SUFFICES ASSUME TypeOK, Discipline, [Next]_vars PROVE Written'
  OBVIOUS
<1>0. Written
  BY DEF Discipline, Written
<1>1. CASE UNCHANGED vars
  BY <1>0, <1>1, WrittenUnchanged DEF vars
<1>2. CASE Tick
  BY <1>0, <1>2, WrittenUnchanged DEF Tick
<1>3. ASSUME NEW c \in Caller, Ingest(c) \/ StartFlush(c) PROVE Written'
  <2>1. UNCHANGED <<batch, emitted, written>>
    BY <1>3 DEF Ingest, StartConsume, Receive, Buffer, EndRequest, StartFlush
  <2>2. /\ pc' = pc \/ \E l \in {"idle", "loop", "assemble"} : pc' = [pc EXCEPT ![c] = l]
        /\ pc[c] \in {"idle", "loop"}
    BY <1>3 DEF Ingest, StartConsume, Receive, Buffer, EndRequest, StartFlush, GoTo
  <2>3. \A d \in Caller : (pc'[d] = "write" => pc[d] = "write") /\ (pc[d] = "ack" => pc'[d] = "ack")
    BY <2>2 DEF TypeOK
  <2> QED
    BY <1>0, <2>1, <2>3, WrittenUnchanged
<1>4. ASSUME NEW c \in Caller, Claim(c) PROVE Written'
  <2>1. assembleMu = None /\ UNCHANGED <<emitted, written>> /\ pc' = [pc EXCEPT ![c] = "emit"]
    BY <1>4 DEF Claim, Lock, GoTo
  <2>2. \A d \in Caller : pc[d] \notin {"ack", "write"}
    BY <2>1, Constants DEF Discipline, LockHeld, Holding
  <2>3. \A d \in Caller : pc'[d] # "write"
    BY <2>1, <2>2 DEF TypeOK
  <2> QED
    BY <1>0, <2>1, <2>2, <2>3, WrittenQuiet
<1>5. ASSUME NEW c \in Caller, Finish(c) \/ Skip(c) \/ Restore(c) \/ WriteFail(c) PROVE Written'
  <2>1. UNCHANGED <<emitted, written>> /\ pc[c] \in Holding \ {"ack"}
    BY <1>5 DEF Finish, Skip, Restore, WriteFail, Holding
  <2>2. (pc[c] = "emit" /\ pc' = pc) \/ \E l \in {"idle", "restore"} : pc' = [pc EXCEPT ![c] = l]
    BY <1>5 DEF Finish, Skip, Restore, WriteFail, Return, GoTo
  <2>3. \A d \in Caller : pc[d] # "ack" /\ pc'[d] # "write"
    BY <2>1, <2>2, OnlyHolder DEF Discipline, Holding, TypeOK
  <2> QED
    BY <1>0, <2>1, <2>3, WrittenQuiet
<1> QED
  BY <1>1, <1>2, <1>3, <1>4, <1>5, WrittenOK, WrittenAck, WrittenTryEmit
     DEF Next, Assemble, Sink

------------------------------------------------------------------------------
(* Discipline is inductive: the lock, the filing and the finalization of what   *)
(* was written hold each other up.                                              *)
LEMMA DisciplineInit == Init => Discipline
BY Constants DEF Init, Discipline, LockHeld, Holding, FiledUnderItsKey, Filed, Nothing,
                 WrittenIsFinalized, FinalizedStaysClosed, AtMostOncePerKey

LEMMA DisciplineStep == TypeOK /\ Discipline /\ [Next]_vars => Discipline'
BY LockStep, FiledStep, WrittenStep, ClosedStep DEF Discipline, Written

(* The assembly lock, the filing under join keys and the finalization of what   *)
(* was written, in every reachable state.                                      *)
THEOREM DisciplineKept == Spec => [](TypeOK /\ Discipline)
<1>1. Init => TypeOK /\ Discipline
  BY TypeInit, DisciplineInit
<1>2. TypeOK /\ Discipline /\ [Next]_vars => (TypeOK /\ Discipline)'
  BY TypeStep, DisciplineStep
<1> QED
  BY <1>1, <1>2, PTL DEF Spec

(* No JoinKey ever gets two records in the sink, whatever the interleaving of   *)
(* requests, flushes, failed writes and retries (emit and assemble).           *)
THEOREM AtMostOnce == Spec => []AtMostOncePerKey
<1>1. Discipline => AtMostOncePerKey
  BY DEF Discipline
<1> QED
  BY <1>1, DisciplineKept, PTL

------------------------------------------------------------------------------
(* The second layer: no signal is lost.                                       *)

(* What a pair of maps, one per signal, holds under some keys.                 *)
Under(s, l, K) == SigsIn(s, K) \cup SigsIn(l, K)

LEMMA UnderIsSigs ==
  /\ \A K : ActiveSigs(K) = Under(spans, logs, K)
  /\ \A K : PendingSigs(K) = Under(pendingSpans, pendingLogs, K)
  /\ \A K : ActiveSigs(K)' = Under(spans', logs', K)
  /\ \A K : PendingSigs(K)' = Under(pendingSpans', pendingLogs', K)
BY DEF ActiveSigs, PendingSigs, Under

(* What is held under a set of keys is held under one of them.                *)
LEMMA UnderByKey ==
  ASSUME NEW s, NEW l, NEW K, NEW x
  PROVE  x \in Under(s, l, K) <=> \E k \in K : x \in Under(s, l, {k})
BY DEF Under, SigsIn

LEMMA UnderOneKey ==
  ASSUME NEW s, NEW l, NEW k
  PROVE  Under(s, l, {k}) = SigsOf(s[k]) \cup SigsOf(l[k])
<1>1. ASSUME NEW m
      PROVE  SigsIn(m, {k}) = SigsOf(m[k])
  BY DEF SigsIn, SigsOf
<1> QED
  BY <1>1 DEF Under

(* buffer adds one item under one key, which then has an entry and a time.     *)
LEMMA AddUnder ==
  ASSUME NEW s \in Entries, NEW l \in Entries, NEW f \in Times, NEW i \in Item, now \in Nat
  PROVE  LET a == Add(s, l, f, i)
         IN  /\ \A k \in Key : Under(a.spans, a.logs, {k}) =
                  IF k = i.ex.key THEN Under(s, l, {k}) \cup i.ex.sigs ELSE Under(s, l, {k})
             /\ a.spans[i.ex.key] # None \/ a.logs[i.ex.key] # None
             /\ a.firstSeen[i.ex.key] # None
<1> DEFINE k == i.ex.key
           a == Add(s, l, f, i)
           put(m) == [m EXCEPT ![k] = Join(@, i.ex)]
<1>1. i.ex \in Execution /\ k \in Key /\ i.signal \in Signal /\ i.ex # None
  BY Constants DEF Item, Execution, Record
<1>2. /\ a.spans = IF i.signal = "traces" THEN put(s) ELSE s
      /\ a.logs = IF i.signal = "logs" THEN put(l) ELSE l
      /\ a.firstSeen = Stamp(f, k)
  BY DEF Add
<1>3. ASSUME NEW m \in Entries
      PROVE  put(m)[k] # None /\ SigsOf(put(m)[k]) = SigsOf(m[k]) \cup i.ex.sigs
  <2>1. m[k] \in Execution \cup {None} /\ put(m)[k] = Join(m[k], i.ex)
    BY <1>1 DEF Entries
  <2>2. SigsOf(i.ex) = i.ex.sigs
    BY <1>1 DEF SigsOf
  <2>3. Join(m[k], i.ex) # None
    BY <1>1, <2>1, JoinType
  <2>4. SigsOf(Join(m[k], i.ex)) = SigsOf(m[k]) \cup SigsOf(i.ex)
    BY <1>1, <2>1, JoinSigs
  <2> HIDE DEF put, k
  <2> QED
    BY <2>1, <2>2, <2>3, <2>4
<1>4. a.firstSeen[k] # None
  <2>1. None \notin Nat
    BY ObservationAssumption DEF ObservationAssumption
  <2> QED
    BY <1>1, <1>2, <2>1 DEF Stamp, Either, Times
<1>5. ASSUME NEW j \in Key, j # k
      PROVE  Under(a.spans, a.logs, {j}) = Under(s, l, {j})
  <2>1. a.spans[j] = s[j] /\ a.logs[j] = l[j]
    BY <1>1, <1>5, AddType
  <2> HIDE DEF a
  <2>2. /\ Under(a.spans, a.logs, {j}) = SigsOf(a.spans[j]) \cup SigsOf(a.logs[j])
        /\ Under(s, l, {j}) = SigsOf(s[j]) \cup SigsOf(l[j])
    BY UnderOneKey
  <2> QED
    BY <2>1, <2>2
<1>6. /\ Under(a.spans, a.logs, {k}) = Under(s, l, {k}) \cup i.ex.sigs
      /\ a.spans[k] # None \/ a.logs[k] # None
  <2> HIDE DEF a, put, k
  <2>0. /\ Under(a.spans, a.logs, {k}) = SigsOf(a.spans[k]) \cup SigsOf(a.logs[k])
        /\ Under(s, l, {k}) = SigsOf(s[k]) \cup SigsOf(l[k])
    BY UnderOneKey
  <2>1. CASE i.signal = "traces"
    <3>1. a.spans = put(s) /\ a.logs = l
      BY <1>2, <2>1
    <3> QED
      BY <1>3, <2>0, <3>1
  <2>2. CASE i.signal = "logs"
    <3>1. a.logs = put(l) /\ a.spans = s
      BY <1>2, <2>2
    <3> QED
      BY <1>3, <2>0, <3>1
  <2> QED
    BY <1>1, <2>1, <2>2 DEF Signal
<1> HIDE DEF a
<1> QED
  BY <1>4, <1>5, <1>6 DEF a

(* Deleting keys deletes what is held under them, and nothing else.           *)
LEMMA ClearedUnder ==
  ASSUME NEW s, NEW l, NEW K, NEW k \in Key,
         NEW cs, NEW cl, cs = Cleared(s, K), cl = Cleared(l, K)
  PROVE  Under(cs, cl, {k}) = IF k \in K THEN {} ELSE Under(s, l, {k})
<1>1. /\ cs[k] = IF k \in K THEN None ELSE s[k]
      /\ cl[k] = IF k \in K THEN None ELSE l[k]
  BY DEF Cleared
<1>2. SigsOf(None) = {}
  BY DEF SigsOf
<1>3. /\ Under(cs, cl, {k}) = SigsOf(cs[k]) \cup SigsOf(cl[k])
      /\ Under(s, l, {k}) = SigsOf(s[k]) \cup SigsOf(l[k])
  BY UnderOneKey
<1> QED
  BY <1>1, <1>2, <1>3

------------------------------------------------------------------------------
(* The items a request has read and let go, with a key to file them under.     *)
AcceptedItem(i) == /\ i \in taken /\ i.toolCall /\ i.joinable
                   /\ \A c \in Caller : item[c] # i

LEMMA AcceptedByItem ==
  /\ \A x : x \in Accepted <=> \E i : AcceptedItem(i) /\ x = i.id
  /\ \A k, x : x \in AcceptedUnder(k) <=> \E i : AcceptedItem(i) /\ i.ex.key = k /\ x = i.id
  /\ \A x : x \in Accepted' <=> \E i : AcceptedItem(i)' /\ x = i.id
  /\ \A k, x : x \in AcceptedUnder(k)' <=> \E i : AcceptedItem(i)' /\ i.ex.key = k /\ x = i.id
BY DEF Accepted, AcceptedUnder, AcceptedItem

(* Items are told apart by their ids, so each is accepted under one key.      *)
LEMMA AcceptedOnce ==
  ASSUME TypeOK
  PROVE  /\ \A k : AcceptedUnder(k) \subseteq Accepted
         /\ \A j, k, x : x \in AcceptedUnder(j) /\ x \in AcceptedUnder(k) => j = k
<1>1. \A i, j : AcceptedItem(i) /\ AcceptedItem(j) /\ i.id = j.id => i = j
  BY ProcessorAssumption DEF ProcessorAssumption, TypeOK, AcceptedItem
<1> QED
  BY <1>1, AcceptedByItem

(* Finitely many items have been read, hence accepted.                        *)
LEMMA AcceptedFinite ==
  ASSUME EachItemOnce
  PROVE  IsFiniteSet(Accepted)
<1> DEFINE ids == {i.id : i \in taken}
           f == [i \in taken |-> i.id]
<1>1. f \in Surjection(taken, ids)
  BY DEF Surjection
<1>2. IsFiniteSet(ids)
  BY <1>1, FS_Surjection DEF EachItemOnce
<1>3. Accepted \in SUBSET ids
  BY DEF Accepted
<1> QED
  BY <1>2, <1>3, FS_Subset

(* A step that neither reads nor lets go of an item.                          *)
LEMMA AcceptedSame ==
  ASSUME UNCHANGED <<taken, item>>
  PROVE  Accepted' = Accepted /\ \A k : AcceptedUnder(k)' = AcceptedUnder(k)
BY DEF Accepted, AcceptedUnder

(* Reading an item accepts none: it is in the hands of its reader.            *)
LEMMA AcceptedReceive ==
  ASSUME TypeOK, EachItemOnce, NEW c \in Caller, Receive(c)
  PROVE  /\ Accepted' = Accepted /\ \A k : AcceptedUnder(k)' = AcceptedUnder(k)
         /\ EachItemOnce'
<1>1. PICK i \in Telemetry \ taken :
        taken' = taken \cup {i} /\ item' = [item EXCEPT ![c] = i]
  BY DEF Receive
<1>2. item[c] = None /\ i # None /\ None \notin taken
  BY Constants DEF Receive, TypeOK
<1>3. \A d \in Caller : item'[d] = IF d = c THEN i ELSE item[d]
  BY <1>1 DEF TypeOK
<1>4. \A j : AcceptedItem(j)' <=> AcceptedItem(j)
  BY <1>1, <1>2, <1>3 DEF AcceptedItem, EachItemOnce
<1>5. IsFiniteSet(taken')
  BY <1>1, FS_AddElement DEF EachItemOnce
<1>6. EachItemOnce'
  <2>1. \A d \in Caller : item'[d] # None => item'[d] \in taken'
    BY <1>1, <1>3 DEF EachItemOnce
  <2>2. \A d, e \in Caller : item'[d] # None /\ item'[d] = item'[e] => d = e
    BY <1>1, <1>3 DEF EachItemOnce
  <2> QED
    BY <1>5, <2>1, <2>2 DEF EachItemOnce
<1>7. Accepted' = Accepted
  <2>1. \A x : x \in Accepted' <=> x \in Accepted
    BY <1>4, AcceptedByItem
  <2> QED
    BY <2>1
<1>8. \A k : AcceptedUnder(k)' = AcceptedUnder(k)
  <2> TAKE k
  <2>1. \A x : x \in AcceptedUnder(k)' <=> x \in AcceptedUnder(k)
    BY <1>4, AcceptedByItem
  <2> QED
    BY <2>1
<1> QED
  BY <1>6, <1>7, <1>8

(* The loop over the request lets go of one item, whose id is new.            *)
Joins(i) == i.toolCall /\ i.joinable

LEMMA AcceptedBuffer ==
  ASSUME TypeOK, EachItemOnce, NEW c \in Caller, Buffer(c), NEW i, i = item[c]
  PROVE  /\ i \in Telemetry /\ i.id \notin Accepted
         /\ Accepted' = IF Joins(i) THEN Accepted \cup {i.id} ELSE Accepted
         /\ \A k : AcceptedUnder(k) \subseteq AcceptedUnder(k)'
         /\ Joins(i) => i.id \in AcceptedUnder(i.ex.key)'
         /\ EachItemOnce'
<1>1. i \in Telemetry /\ i # None /\ i \in taken
  BY DEF Buffer, TypeOK, EachItemOnce
<1>2. taken' = taken /\ \A d \in Caller : item'[d] = IF d = c THEN None ELSE item[d]
  BY DEF Buffer, TypeOK
<1>3. i.id \notin Accepted
  <2>1. \A j \in taken : j.id = i.id => j = i
    BY <1>1, ProcessorAssumption DEF ProcessorAssumption, TypeOK
  <2> QED
    BY <2>1, AcceptedByItem DEF AcceptedItem
<1>4. None \notin taken
  BY Constants DEF TypeOK
<1>5. \A j : AcceptedItem(j)' <=> AcceptedItem(j) \/ (j = i /\ Joins(i))
  <2>1. ASSUME NEW j, AcceptedItem(j)' PROVE AcceptedItem(j) \/ (j = i /\ Joins(i))
    BY <1>2, <2>1 DEF AcceptedItem, Joins
  <2>2. ASSUME NEW j, AcceptedItem(j) PROVE AcceptedItem(j)'
    BY <1>2, <1>4, <2>2 DEF AcceptedItem
  <2>3. ASSUME Joins(i) PROVE AcceptedItem(i)'
    BY <1>1, <1>2, <2>3 DEF AcceptedItem, Joins, EachItemOnce
  <2> QED
    BY <2>1, <2>2, <2>3
<1>6. Accepted' = IF Joins(i) THEN Accepted \cup {i.id} ELSE Accepted
  <2>1. \A x : x \in Accepted' <=> x \in Accepted \/ (x = i.id /\ Joins(i))
    BY <1>5, AcceptedByItem
  <2> QED
    BY <2>1
<1>7. \A k : AcceptedUnder(k) \subseteq AcceptedUnder(k)'
  <2> TAKE k
  <2>1. \A x : x \in AcceptedUnder(k) => x \in AcceptedUnder(k)'
    BY <1>5, AcceptedByItem
  <2> QED
    BY <2>1
<1>8. Joins(i) => i.id \in AcceptedUnder(i.ex.key)'
  BY <1>5, AcceptedByItem
<1>9. EachItemOnce'
  BY <1>1, <1>2 DEF EachItemOnce
<1> QED
  BY <1>1, <1>3, <1>6, <1>7, <1>8, <1>9

------------------------------------------------------------------------------
(* What each critical section does to the items under each key.               *)
Held == ActiveSigs(Key) \cup PendingSigs(Key) \cup Recorded

LEMMA HeldByKey ==
  /\ \A K, x : x \in ActiveSigs(K) <=> \E k \in K : x \in ActiveSigs({k})
  /\ \A K, x : x \in PendingSigs(K) <=> \E k \in K : x \in PendingSigs({k})
  /\ \A K, x : x \in ActiveSigs(K)' <=> \E k \in K : x \in ActiveSigs({k})'
  /\ \A K, x : x \in PendingSigs(K)' <=> \E k \in K : x \in PendingSigs({k})'
BY UnderIsSigs, UnderByKey

(* A key without an entry holds no item.                                      *)
LEMMA EmptyKey ==
  /\ \A k : spans[k] = None /\ logs[k] = None => ActiveSigs({k}) = {}
  /\ \A k : pendingSpans[k] = None /\ pendingLogs[k] = None => PendingSigs({k}) = {}
BY DEF ActiveSigs, PendingSigs, SigsIn

(* Steps that do not touch the maps, or not those of one generation.          *)
LEMMA SameActive ==
  ASSUME UNCHANGED <<spans, logs>>
  PROVE  \A K : ActiveSigs(K)' = ActiveSigs(K)
BY DEF ActiveSigs, SigsIn

LEMMA SamePending ==
  ASSUME UNCHANGED <<pendingSpans, pendingLogs>>
  PROVE  \A K : PendingSigs(K)' = PendingSigs(K)
BY DEF PendingSigs, SigsIn

LEMMA SameRecorded ==
  ASSUME UNCHANGED written
  PROVE  Recorded' = Recorded
BY DEF Recorded

(* The maps as the lemmas on operators take them.                             *)
LEMMA MapTypes ==
  ASSUME TypeOK
  PROVE  /\ spans \in Entries /\ logs \in Entries /\ firstSeen \in Times
         /\ pendingSpans \in Entries /\ pendingLogs \in Entries /\ pendingFirstSeen \in Times
         /\ now \in Nat
BY Constants DEF TypeOK, Entries, Times

LEMMA AddActiveUnder ==
  ASSUME TypeOK, NEW i \in Telemetry, AddActive(i)
  PROVE  /\ \A k \in Key : ActiveSigs({k})' = IF k = i.ex.key THEN ActiveSigs({k}) \cup {i.id}
                                                              ELSE ActiveSigs({k})
         /\ \A k \in Key \ {i.ex.key} : /\ spans'[k] = spans[k] /\ logs'[k] = logs[k]
                                        /\ firstSeen'[k] = firstSeen[k]
         /\ firstSeen'[i.ex.key] # None
         /\ spans'[i.ex.key] # None \/ logs'[i.ex.key] # None
         /\ i.ex.key \in Key
<1> DEFINE a == Add(spans, logs, firstSeen, i)
<1>1. i \in Item /\ i.ex.sigs = {i.id} /\ i.ex.key \in Key
  BY Constants, ProcessorAssumption DEF ProcessorAssumption, Item, Execution, Record
<1>2. a.spans = spans' /\ a.logs = logs' /\ a.firstSeen = firstSeen'
  BY DEF AddActive
<1>3. /\ \A k \in Key : Under(a.spans, a.logs, {k}) =
           IF k = i.ex.key THEN Under(spans, logs, {k}) \cup {i.id} ELSE Under(spans, logs, {k})
      /\ a.spans[i.ex.key] # None \/ a.logs[i.ex.key] # None
      /\ a.firstSeen[i.ex.key] # None
  <2>1. /\ \A k \in Key : Under(a.spans, a.logs, {k}) =
             IF k = i.ex.key THEN Under(spans, logs, {k}) \cup i.ex.sigs ELSE Under(spans, logs, {k})
        /\ a.spans[i.ex.key] # None \/ a.logs[i.ex.key] # None
        /\ a.firstSeen[i.ex.key] # None
    <3>1. i \in Item /\ now \in Nat
      BY <1>1, MapTypes
    <3>2. spans \in Entries /\ logs \in Entries /\ firstSeen \in Times
      BY MapTypes
    <3> QED
      BY <3>1, <3>2, AddUnder
  <2> QED
    BY <1>1, <2>1
<1>4. \A k \in Key \ {i.ex.key} : /\ a.spans[k] = spans[k] /\ a.logs[k] = logs[k]
                                  /\ a.firstSeen[k] = firstSeen[k]
  <2>1. i \in Item /\ now \in Nat
    BY <1>1, MapTypes
  <2>2. spans \in Entries /\ logs \in Entries /\ firstSeen \in Times
    BY MapTypes
  <2> QED
    BY <2>1, <2>2, AddType
<1> HIDE DEF a
<1> QED
  BY <1>1, <1>2, <1>3, <1>4, UnderIsSigs

LEMMA AddPendingUnder ==
  ASSUME TypeOK, NEW i \in Telemetry, AddPending(i)
  PROVE  /\ \A k \in Key : PendingSigs({k})' = IF k = i.ex.key THEN PendingSigs({k}) \cup {i.id}
                                                               ELSE PendingSigs({k})
         /\ \A k \in Key \ {i.ex.key} : /\ pendingSpans'[k] = pendingSpans[k]
                                        /\ pendingLogs'[k] = pendingLogs[k]
                                        /\ pendingFirstSeen'[k] = pendingFirstSeen[k]
                                        /\ pendingSignals'[k] = pendingSignals[k]
         /\ pendingFirstSeen'[i.ex.key] # None
         /\ pendingSpans'[i.ex.key] # None \/ pendingLogs'[i.ex.key] # None
         /\ pendingSignals'[i.ex.key] = pendingSignals[i.ex.key] + 1
         /\ i.ex.key \in Key
<1> DEFINE a == Add(pendingSpans, pendingLogs, pendingFirstSeen, i)
<1>1. i \in Item /\ i.ex.sigs = {i.id} /\ i.ex.key \in Key
  BY Constants, ProcessorAssumption DEF ProcessorAssumption, Item, Execution, Record
<1>2. /\ a.spans = pendingSpans' /\ a.logs = pendingLogs' /\ a.firstSeen = pendingFirstSeen'
      /\ pendingSignals' = [pendingSignals EXCEPT ![i.ex.key] = @ + 1]
  BY DEF AddPending
<1>3. /\ \A k \in Key : Under(a.spans, a.logs, {k}) =
           IF k = i.ex.key THEN Under(pendingSpans, pendingLogs, {k}) \cup {i.id}
                           ELSE Under(pendingSpans, pendingLogs, {k})
      /\ a.spans[i.ex.key] # None \/ a.logs[i.ex.key] # None
      /\ a.firstSeen[i.ex.key] # None
  <2>1. /\ \A k \in Key : Under(a.spans, a.logs, {k}) =
             IF k = i.ex.key THEN Under(pendingSpans, pendingLogs, {k}) \cup i.ex.sigs ELSE Under(pendingSpans, pendingLogs, {k})
        /\ a.spans[i.ex.key] # None \/ a.logs[i.ex.key] # None
        /\ a.firstSeen[i.ex.key] # None
    <3>1. i \in Item /\ now \in Nat
      BY <1>1, MapTypes
    <3>2. pendingSpans \in Entries /\ pendingLogs \in Entries /\ pendingFirstSeen \in Times
      BY MapTypes
    <3> QED
      BY <3>1, <3>2, AddUnder
  <2> QED
    BY <1>1, <2>1
<1>4. \A k \in Key \ {i.ex.key} : /\ a.spans[k] = pendingSpans[k] /\ a.logs[k] = pendingLogs[k]
                                  /\ a.firstSeen[k] = pendingFirstSeen[k]
  <2>1. i \in Item /\ now \in Nat
    BY <1>1, MapTypes
  <2>2. pendingSpans \in Entries /\ pendingLogs \in Entries /\ pendingFirstSeen \in Times
    BY MapTypes
  <2> QED
    BY <2>1, <2>2, AddType
<1>5. /\ pendingSignals'[i.ex.key] = pendingSignals[i.ex.key] + 1
      /\ \A k \in Key \ {i.ex.key} : pendingSignals'[k] = pendingSignals[k]
  BY <1>1, <1>2 DEF TypeOK
<1> HIDE DEF a
<1> QED
  BY <1>1, <1>2, <1>3, <1>4, <1>5, UnderIsSigs

(* The deletes of emit and of discardPending.                                 *)
LEMMA AckUnder ==
  ASSUME NEW K, spans' = Cleared(spans, K), logs' = Cleared(logs, K), DiscardPending(K)
  PROVE  /\ \A k \in Key : ActiveSigs({k})' = IF k \in K THEN {} ELSE ActiveSigs({k})
         /\ \A k \in Key : PendingSigs({k})' = IF k \in K THEN {} ELSE PendingSigs({k})
<1>1. pendingSpans' = Cleared(pendingSpans, K) /\ pendingLogs' = Cleared(pendingLogs, K)
  BY DEF DiscardPending
<1>2. ASSUME NEW k \in Key
      PROVE  Under(spans', logs', {k}) = IF k \in K THEN {} ELSE Under(spans, logs, {k})
  BY ClearedUnder
<1>3. ASSUME NEW k \in Key
      PROVE  Under(pendingSpans', pendingLogs', {k}) =
               IF k \in K THEN {} ELSE Under(pendingSpans, pendingLogs, {k})
  BY <1>1, ClearedUnder
<1> QED
  BY <1>2, <1>3, UnderIsSigs

(* mergePendingIntoActive.                                                    *)
LEMMA RestoreUnder ==
  ASSUME TypeOK, NEW K, MergePendingIntoActive(K)
  PROVE  /\ \A k \in Key : ActiveSigs({k})' = IF k \in K THEN ActiveSigs({k}) \cup PendingSigs({k})
                                                         ELSE ActiveSigs({k})
         /\ \A k \in Key : PendingSigs({k})' = IF k \in K THEN {} ELSE PendingSigs({k})
<1>1. /\ spans' = [k \in Key |-> IF k \in K THEN Join(spans[k], pendingSpans[k]) ELSE spans[k]]
      /\ logs' = [k \in Key |-> IF k \in K THEN Join(logs[k], pendingLogs[k]) ELSE logs[k]]
      /\ pendingSpans' = Cleared(pendingSpans, K) /\ pendingLogs' = Cleared(pendingLogs, K)
  BY DEF MergePendingIntoActive
<1>2. ASSUME NEW k \in Key
      PROVE  Under(spans', logs', {k}) =
               IF k \in K THEN Under(spans, logs, {k}) \cup Under(pendingSpans, pendingLogs, {k})
                          ELSE Under(spans, logs, {k})
  <2>1. /\ spans[k] \in Execution \cup {None} /\ pendingSpans[k] \in Execution \cup {None}
        /\ logs[k] \in Execution \cup {None} /\ pendingLogs[k] \in Execution \cup {None}
    BY DEF TypeOK
  <2>2. /\ SigsOf(Join(spans[k], pendingSpans[k])) = SigsOf(spans[k]) \cup SigsOf(pendingSpans[k])
        /\ SigsOf(Join(logs[k], pendingLogs[k])) = SigsOf(logs[k]) \cup SigsOf(pendingLogs[k])
    BY <2>1, JoinSigs
  <2>3. /\ spans'[k] = IF k \in K THEN Join(spans[k], pendingSpans[k]) ELSE spans[k]
        /\ logs'[k] = IF k \in K THEN Join(logs[k], pendingLogs[k]) ELSE logs[k]
    BY <1>1
  <2>4. /\ Under(spans', logs', {k}) = SigsOf(spans'[k]) \cup SigsOf(logs'[k])
        /\ Under(spans, logs, {k}) = SigsOf(spans[k]) \cup SigsOf(logs[k])
        /\ Under(pendingSpans, pendingLogs, {k}) = SigsOf(pendingSpans[k]) \cup SigsOf(pendingLogs[k])
    BY UnderOneKey
  <2> QED
    BY <2>2, <2>3, <2>4
<1>3. ASSUME NEW k \in Key
      PROVE  Under(pendingSpans', pendingLogs', {k}) =
               IF k \in K THEN {} ELSE Under(pendingSpans, pendingLogs, {k})
  BY <1>1, ClearedUnder
<1> QED
  BY <1>2, <1>3, UnderIsSigs

(* assembleKey merges all that is active under the keys it will delete, and    *)
(* nothing else.                                                               *)
LEMMA AssembleKeyCovers ==
  ASSUME TypeOK, NEW k \in Key, spans[k] # None \/ logs[k] # None
  PROVE  AssembleKey(k).ex.sigs = ActiveSigs(Consumed(AssembleKey(k)))
<1> DEFINE p == ParentOf(k)
           parentSpan == IF p = None THEN None ELSE spans[p]
           parentLog  == IF p = None THEN None ELSE logs[p]
           ex == Join(Join(Join(spans[k], parentSpan), parentLog), logs[k])
<1>1. spans[k] \in Execution \cup {None} /\ logs[k] \in Execution \cup {None}
  BY DEF TypeOK
<1>2. p \in Key \cup {None}
  BY <1>1 DEF ParentOf, Execution, Record
<1>3. parentSpan \in Execution \cup {None} /\ parentLog \in Execution \cup {None}
  BY <1>2 DEF TypeOK
<1>4. AssembleKey(k).ex = ex /\ AssembleKey(k).key = k
      /\ AssembleKey(k).parent = IF parentSpan = None /\ parentLog = None THEN None ELSE p
  BY DEF AssembleKey
<1>5. AssembleKey(k) \in Assembled
  BY AssembleKeyType
<1>6. AssembleKey(k).ex # None
  BY <1>5, Constants DEF Assembled
<1>7. SigsOf(ex) = SigsOf(spans[k]) \cup SigsOf(parentSpan) \cup SigsOf(parentLog) \cup SigsOf(logs[k])
  <2> HIDE DEF parentSpan, parentLog
  <2> DEFINE one == Join(spans[k], parentSpan)
             two == Join(one, parentLog)
  <2>1. one \in Execution \cup {None} /\ SigsOf(one) = SigsOf(spans[k]) \cup SigsOf(parentSpan)
    BY <1>1, <1>3, JoinType, JoinSigs
  <2> HIDE DEF one
  <2>2. two \in Execution \cup {None} /\ SigsOf(two) = SigsOf(one) \cup SigsOf(parentLog)
    BY <1>3, <2>1, JoinType, JoinSigs
  <2> HIDE DEF two
  <2>3. SigsOf(Join(two, logs[k])) = SigsOf(two) \cup SigsOf(logs[k])
    BY <1>1, <2>2, JoinSigs
  <2>4. ex = Join(two, logs[k])
    BY DEF one, two
  <2> QED
    BY <2>1, <2>2, <2>3, <2>4
<1>8. AssembleKey(k).ex.sigs = SigsOf(ex)
  BY <1>4, <1>6 DEF SigsOf
<1>9. \A j : ActiveSigs({j}) = SigsOf(spans[j]) \cup SigsOf(logs[j])
  BY UnderIsSigs, UnderOneKey
<1>10. SigsOf(None) = {}
  BY DEF SigsOf
<1>11. p = None => parentSpan = None /\ parentLog = None
  OBVIOUS
<1>12. p # None => parentSpan = spans[p] /\ parentLog = logs[p]
  OBVIOUS
<1>13. \A x : x \in ActiveSigs(Consumed(AssembleKey(k)))
              <=> \E j \in Consumed(AssembleKey(k)) : x \in ActiveSigs({j})
  BY HeldByKey
<1> DEFINE C == Consumed(AssembleKey(k))
<1>14. /\ C = {k} \cup ({AssembleKey(k).parent} \ {None})
  BY <1>4 DEF Consumed
<1> HIDE DEF p, parentSpan, parentLog, ex
<1>15. CASE parentSpan = None /\ parentLog = None
  <2>1. C = {k}
    BY <1>4, <1>14, <1>15
  <2>2. \A x : x \in ActiveSigs(C) <=> x \in ActiveSigs({k})
    BY <1>13, <2>1
  <2>3. SigsOf(ex) = ActiveSigs({k})
    BY <1>7, <1>9, <1>10, <1>15
  <2> QED
    BY <1>8, <2>2, <2>3
<1>16. CASE ~(parentSpan = None /\ parentLog = None)
  <2>1. C = {k, p}
    BY <1>4, <1>11, <1>14, <1>16
  <2>2. \A x : x \in ActiveSigs(C) <=> x \in ActiveSigs({k}) \/ x \in ActiveSigs({p})
    BY <1>13, <2>1
  <2>3. SigsOf(ex) = ActiveSigs({k}) \cup ActiveSigs({p})
    BY <1>7, <1>9, <1>11, <1>12, <1>16
  <2> QED
    BY <1>8, <2>2, <2>3
<1> QED
  BY <1>15, <1>16

------------------------------------------------------------------------------
(* The second layer of AssemblyInv, step by step.                                    *)
Accounts == /\ ReservationsAreTheBatch /\ SnapshotCovers
            /\ BufferIndexed /\ PendingOnlyBehindAWrite
            /\ EachItemOnce /\ SignalsInPlace /\ EverySignalAccountedFor

LEMMA Layers == AssemblyInv <=> Discipline /\ Accounts
BY DEF AssemblyInv, Accounts

(* While nobody holds assembleMu nothing is reserved and nothing pending.     *)
LEMMA LockFreeMeansQuiet ==
  ASSUME TypeOK, AssemblyInv, assembleMu = None
  PROVE  /\ batch = {} /\ inFlight = {} /\ Acking = {}
         /\ \A k \in Key : ~HasPending(k) /\ PendingSigs({k}) = {}
<1>1. batch = {} /\ Acking = {}
  BY Constants DEF AssemblyInv, Discipline, LockHeld, Acking, Holding
<1>2. inFlight = {}
  BY DEF AssemblyInv, PendingOnlyBehindAWrite
<1>3. \A k \in Key : ~HasPending(k)
  BY <1>2 DEF AssemblyInv, PendingOnlyBehindAWrite
<1>4. \A k \in Key : pendingSpans[k] = None /\ pendingLogs[k] = None
  BY <1>3 DEF AssemblyInv, BufferIndexed
<1> QED
  BY <1>1, <1>2, <1>3, <1>4, EmptyKey

(* Only the holder of the lock can be at an acknowledgement.                  *)
LEMMA NoOtherAck ==
  ASSUME TypeOK, AssemblyInv, NEW c \in Caller, pc[c] \in Holding \ {"ack"}
  PROVE  Acking = {}
BY OnlyHolder DEF AssemblyInv, Discipline, Acking, Holding

(* Steps that leave the maps, the batch, the reservations and the sink alone,  *)
(* and let go of no item that has a key.                                      *)
LEMMA AccountsQuiet ==
  ASSUME TypeOK, AssemblyInv, EachItemOnce',
         UNCHANGED <<active, pending, inFlight, emitted, written, batch, assembleMu>>,
         Accepted' = Accepted, \A k : AcceptedUnder(k) \subseteq AcceptedUnder(k)',
         Acking' \subseteq Acking, stats'["late"] = stats["late"]
  PROVE  Accounts'
<1>1. /\ \A K : ActiveSigs(K)' = ActiveSigs(K)
      /\ \A K : PendingSigs(K)' = PendingSigs(K)
      /\ Recorded' = Recorded
  BY SameActive, SamePending, SameRecorded DEF active, pending
<1>2. Batched' = Batched /\ Unwritten' = Unwritten
  BY DEF Batched, Unwritten
<1>3. ReservationsAreTheBatch'
  BY <1>2 DEF AssemblyInv, ReservationsAreTheBatch
<1>4. SnapshotCovers'
  BY <1>1 DEF AssemblyInv, SnapshotCovers, IsFirst
<1>5. BufferIndexed'
  BY <1>1 DEF AssemblyInv, BufferIndexed, HasPending, active, pending
<1>6. PendingOnlyBehindAWrite'
  BY DEF AssemblyInv, PendingOnlyBehindAWrite, HasPending, pending
<1>7. SignalsInPlace'
  BY <1>1, <1>2 DEF AssemblyInv, SignalsInPlace
<1>8. EverySignalAccountedFor'
  BY <1>1 DEF AssemblyInv, EverySignalAccountedFor
<1> QED
  BY <1>3, <1>4, <1>5, <1>6, <1>7, <1>8 DEF Accounts

LEMMA AccountedForByHeld ==
  /\ EverySignalAccountedFor <=> /\ Held \subseteq Accepted
                                 /\ Cardinality(Accepted \ Held) = stats["late"]
  /\ EverySignalAccountedFor' <=> /\ Held' \subseteq Accepted'
                                  /\ Cardinality(Accepted' \ Held') = stats'["late"]
BY DEF EverySignalAccountedFor, Held

(* An item counted as late: it is accepted and held nowhere.                  *)
LEMMA AccountsLate ==
  ASSUME TypeOK, AssemblyInv, EachItemOnce',
         UNCHANGED <<active, pending, inFlight, emitted, written, batch, assembleMu, pc>>,
         NEW x, x \notin Accepted, Accepted' = Accepted \cup {x},
         \A k : AcceptedUnder(k) \subseteq AcceptedUnder(k)',
         stats'["late"] = stats["late"] + 1
  PROVE  Accounts'
<1>1. /\ \A K : ActiveSigs(K)' = ActiveSigs(K)
      /\ \A K : PendingSigs(K)' = PendingSigs(K)
      /\ Recorded' = Recorded
  BY SameActive, SamePending, SameRecorded DEF active, pending
<1>2. Batched' = Batched /\ Unwritten' = Unwritten /\ Acking' = Acking
  BY DEF Batched, Unwritten, Acking
<1>3. ReservationsAreTheBatch'
  BY <1>2 DEF AssemblyInv, ReservationsAreTheBatch
<1>4. SnapshotCovers'
  BY <1>1, <1>2 DEF AssemblyInv, SnapshotCovers, IsFirst
<1>5. BufferIndexed'
  BY <1>1 DEF AssemblyInv, BufferIndexed, HasPending, active, pending
<1>6. PendingOnlyBehindAWrite'
  BY DEF AssemblyInv, PendingOnlyBehindAWrite, HasPending, pending
<1>7. SignalsInPlace'
  BY <1>1, <1>2 DEF AssemblyInv, SignalsInPlace
<1>8. EverySignalAccountedFor'
  <2>1. Held' = Held
    BY <1>1 DEF Held
  <2>2. Held \subseteq Accepted /\ Cardinality(Accepted \ Held) = stats["late"]
    BY AccountedForByHeld DEF AssemblyInv
  <2>3. Accepted' \ Held' = (Accepted \ Held) \cup {x} /\ x \notin Accepted \ Held
    BY <2>1, <2>2
  <2>4. IsFiniteSet(Accepted \ Held)
    BY AcceptedFinite, FS_Subset DEF AssemblyInv
  <2>5. Cardinality(Accepted' \ Held') = stats["late"] + 1
    BY <2>2, <2>3, <2>4, FS_AddElement
  <2> QED
    BY <2>1, <2>2, <2>5, AccountedForByHeld
<1> QED
  BY <1>3, <1>4, <1>5, <1>6, <1>7, <1>8 DEF Accounts

(* buffer into the active maps: the key is not reserved, and not final.       *)
LEMMA AccountsAddActive ==
  ASSUME TypeOK, AssemblyInv, NEW i \in Telemetry, AddActive(i),
         ~Finalized(i.ex.key), ~UsePending(i.ex.key),
         UNCHANGED <<inFlight, emitted, written, batch, assembleMu, pc>>,
         EachItemOnce', i.id \notin Accepted, Accepted' = Accepted \cup {i.id},
         \A k : AcceptedUnder(k) \subseteq AcceptedUnder(k)', i.id \in AcceptedUnder(i.ex.key)'
  PROVE  Accounts'
<1> DEFINE k0 == i.ex.key
<1>0. UNCHANGED <<pendingSpans, pendingLogs, pendingFirstSeen, pendingSignals, stats>>
  BY DEF AddActive, pending
<1>1. /\ \A k \in Key : ActiveSigs({k})' = IF k = k0 THEN ActiveSigs({k}) \cup {i.id}
                                                     ELSE ActiveSigs({k})
      /\ \A k \in Key \ {k0} : /\ spans'[k] = spans[k] /\ logs'[k] = logs[k]
                               /\ firstSeen'[k] = firstSeen[k]
      /\ firstSeen'[k0] # None
      /\ spans'[k0] # None \/ logs'[k0] # None
      /\ k0 \in Key
  BY AddActiveUnder
<1>2. /\ \A K : PendingSigs(K)' = PendingSigs(K)
      /\ Recorded' = Recorded
  BY <1>0, SamePending, SameRecorded
<1>3. Batched' = Batched /\ Unwritten' = Unwritten /\ Acking' = Acking
  BY DEF Batched, Unwritten, Acking
<1> HIDE DEF k0
<1>4. \A x : x \in ActiveSigs(Key)' <=> x \in ActiveSigs(Key) \/ x = i.id
  <2>1. \A x : /\ x \in ActiveSigs(Key)' <=> \E k \in Key : x \in ActiveSigs({k})'
               /\ x \in ActiveSigs(Key) <=> \E k \in Key : x \in ActiveSigs({k})
    BY HeldByKey
  <2> QED
    BY <1>1, <2>1
<1>5. ReservationsAreTheBatch'
  BY <1>3 DEF AssemblyInv, ReservationsAreTheBatch
<1>6. SnapshotCovers'
  <2>1. k0 \notin Unwritten
    BY DEF AssemblyInv, ReservationsAreTheBatch, UsePending, Finalized, k0
  <2>2. ASSUME NEW r \in batch
        PROVE  ActiveSigs(Consumed(r))' \subseteq r.ex.sigs
    <3>1. Consumed(r) \subseteq Key /\ k0 \notin Consumed(r)
      BY <2>1 DEF TypeOK, Assembled, Consumed, Unwritten
    <3>2. \A x : x \in ActiveSigs(Consumed(r))' => x \in ActiveSigs(Consumed(r))
      <4>1. \A x : /\ x \in ActiveSigs(Consumed(r))'
                        <=> \E k \in Consumed(r) : x \in ActiveSigs({k})'
                   /\ x \in ActiveSigs(Consumed(r))
                        <=> \E k \in Consumed(r) : x \in ActiveSigs({k})
        BY HeldByKey
      <4>2. \A k \in Consumed(r) : ActiveSigs({k})' = ActiveSigs({k})
        BY <1>1, <3>1
      <4> QED
        BY <4>1, <4>2
    <3> QED
      BY <3>2 DEF AssemblyInv, SnapshotCovers
  <2> QED
    BY <1>3, <2>2 DEF AssemblyInv, SnapshotCovers, IsFirst
<1>7. BufferIndexed'
  <2>1. ASSUME NEW k \in Key
        PROVE  firstSeen'[k] # None <=> spans'[k] # None \/ logs'[k] # None
    BY <1>1 DEF AssemblyInv, BufferIndexed
  <2> QED
    BY <1>0, <1>2, <2>1 DEF AssemblyInv, BufferIndexed, HasPending
<1>8. PendingOnlyBehindAWrite'
  BY <1>0 DEF AssemblyInv, PendingOnlyBehindAWrite, HasPending
<1>9. SignalsInPlace'
  <2>1. ASSUME NEW k \in Key
        PROVE  /\ (ActiveSigs({k}) \cup PendingSigs({k}) \subseteq AcceptedUnder(k))'
               /\ (PendingSigs({k}) \cap (ActiveSigs({k}) \cup Recorded) = {})'
    <3>1. /\ ActiveSigs({k}) \cup PendingSigs({k}) \subseteq AcceptedUnder(k)
          /\ PendingSigs({k}) \cap (ActiveSigs({k}) \cup Recorded) = {}
          /\ AcceptedUnder(k) \subseteq Accepted
      BY AcceptedOnce DEF AssemblyInv, SignalsInPlace
    <3>2. i.id \notin PendingSigs({k})
      BY <3>1
    <3>3. \A x : x \in ActiveSigs({k})' => x \in ActiveSigs({k}) \/ (x = i.id /\ k = k0)
      BY <1>1
    <3> QED
      BY <1>2, <3>1, <3>2, <3>3 DEF k0
  <2>2. (Recorded \subseteq Accepted)' /\ (Batched \subseteq ActiveSigs(Key) \cup Recorded)'
    BY <1>2, <1>3, <1>4 DEF AssemblyInv, SignalsInPlace
  <2> QED
    BY <2>1, <2>2 DEF SignalsInPlace
<1>10. EverySignalAccountedFor'
  <2>1. Held' = Held \cup {i.id}
    BY <1>2, <1>4 DEF Held
  <2> QED
    BY <1>0, <2>1, AccountedForByHeld DEF AssemblyInv
<1> QED
  BY <1>5, <1>6, <1>7, <1>8, <1>9, <1>10 DEF Accounts

(* buffer into the pending maps: the key is being written.                    *)
LEMMA AccountsAddPending ==
  ASSUME TypeOK, AssemblyInv, NEW i \in Telemetry, AddPending(i), UsePending(i.ex.key),
         UNCHANGED <<inFlight, emitted, written, batch, assembleMu, pc>>,
         EachItemOnce', i.id \notin Accepted, Accepted' = Accepted \cup {i.id},
         \A k : AcceptedUnder(k) \subseteq AcceptedUnder(k)', i.id \in AcceptedUnder(i.ex.key)'
  PROVE  Accounts'
<1> DEFINE k0 == i.ex.key
<1>0. UNCHANGED <<spans, logs, firstSeen, stats>>
  BY DEF AddPending, active
<1>1. /\ \A k \in Key : PendingSigs({k})' = IF k = k0 THEN PendingSigs({k}) \cup {i.id}
                                                      ELSE PendingSigs({k})
      /\ \A k \in Key \ {k0} : /\ pendingSpans'[k] = pendingSpans[k]
                               /\ pendingLogs'[k] = pendingLogs[k]
                               /\ pendingFirstSeen'[k] = pendingFirstSeen[k]
                               /\ pendingSignals'[k] = pendingSignals[k]
      /\ pendingFirstSeen'[k0] # None
      /\ pendingSpans'[k0] # None \/ pendingLogs'[k0] # None
      /\ pendingSignals'[k0] = pendingSignals[k0] + 1
      /\ k0 \in Key
  BY AddPendingUnder
<1>2. /\ \A K : ActiveSigs(K)' = ActiveSigs(K)
      /\ Recorded' = Recorded
  BY <1>0, SameActive, SameRecorded
<1>3. Batched' = Batched /\ Unwritten' = Unwritten /\ Acking' = Acking
  BY DEF Batched, Unwritten, Acking
<1>4. ASSUME NEW k \in Key
      PROVE  /\ ActiveSigs({k}) \cup PendingSigs({k}) \subseteq AcceptedUnder(k)
             /\ PendingSigs({k}) \cap (ActiveSigs({k}) \cup Recorded) = {}
             /\ i.id \notin ActiveSigs({k}) /\ i.id \notin PendingSigs({k}) /\ i.id \notin Recorded
  <2>1. AcceptedUnder(k) \subseteq Accepted
    BY AcceptedOnce
  <2> QED
    BY <2>1 DEF AssemblyInv, SignalsInPlace
<1>5. k0 \in inFlight
  BY <1>1 DEF AssemblyInv, PendingOnlyBehindAWrite, UsePending, k0
<1> HIDE DEF k0
<1>6. \A x : x \in PendingSigs(Key)' <=> x \in PendingSigs(Key) \/ x = i.id
  <2>1. \A x : /\ x \in PendingSigs(Key)' <=> \E k \in Key : x \in PendingSigs({k})'
               /\ x \in PendingSigs(Key) <=> \E k \in Key : x \in PendingSigs({k})
    BY HeldByKey
  <2> QED
    BY <1>1, <2>1
<1>7. ReservationsAreTheBatch'
  BY <1>3 DEF AssemblyInv, ReservationsAreTheBatch
<1>8. SnapshotCovers'
  BY <1>2, <1>3 DEF AssemblyInv, SnapshotCovers, IsFirst
<1>9. BufferIndexed'
  <2>1. ASSUME NEW k \in Key
        PROVE  (pendingSignals[k] = Cardinality(PendingSigs({k})))'
    <3>1. pendingSignals[k] = Cardinality(PendingSigs({k}))
      BY DEF AssemblyInv, BufferIndexed
    <3>2. CASE k = k0
      <4>1. PendingSigs({k}) \in SUBSET Accepted
        BY <1>4, AcceptedOnce
      <4>2. IsFiniteSet(PendingSigs({k}))
        BY <4>1, AcceptedFinite, FS_Subset DEF AssemblyInv
      <4>3. Cardinality(PendingSigs({k}) \cup {i.id}) = Cardinality(PendingSigs({k})) + 1
        BY <1>4, <4>2, FS_AddElement
      <4> QED
        BY <1>1, <3>1, <3>2, <4>3
    <3>3. CASE k # k0
      BY <1>1, <3>1, <3>3
    <3> QED
      BY <3>2, <3>3
  <2>2. ASSUME NEW k \in Key
        PROVE  pendingFirstSeen'[k] # None <=> pendingSpans'[k] # None \/ pendingLogs'[k] # None
    BY <1>1 DEF AssemblyInv, BufferIndexed, HasPending
  <2> QED
    BY <1>0, <2>1, <2>2 DEF AssemblyInv, BufferIndexed, HasPending
<1>10. PendingOnlyBehindAWrite'
  BY <1>1, <1>5 DEF AssemblyInv, PendingOnlyBehindAWrite, HasPending
<1>11. SignalsInPlace'
  <2>1. ASSUME NEW k \in Key
        PROVE  /\ (ActiveSigs({k}) \cup PendingSigs({k}) \subseteq AcceptedUnder(k))'
               /\ (PendingSigs({k}) \cap (ActiveSigs({k}) \cup Recorded) = {})'
    <3>1. \A x : x \in PendingSigs({k})' => x \in PendingSigs({k}) \/ (x = i.id /\ k = k0)
      BY <1>1
    <3> QED
      BY <1>2, <1>4, <3>1 DEF k0
  <2>2. (Recorded \subseteq Accepted)' /\ (Batched \subseteq ActiveSigs(Key) \cup Recorded)'
    BY <1>2, <1>3 DEF AssemblyInv, SignalsInPlace
  <2> QED
    BY <2>1, <2>2 DEF SignalsInPlace
<1>12. EverySignalAccountedFor'
  <2>1. Held' = Held \cup {i.id}
    BY <1>2, <1>6 DEF Held
  <2> QED
    BY <1>0, <2>1, AccountedForByHeld DEF AssemblyInv
<1> QED
  BY <1>7, <1>8, <1>9, <1>10, <1>11, <1>12 DEF Accounts

(* The body of the loop over a request: four ends of an item, none forgotten. *)
LEMMA AccountsBuffer ==
  ASSUME TypeOK, AssemblyInv, NEW c \in Caller, Buffer(c)
  PROVE  Accounts'
<1>0. PICK i : i = item[c]
  OBVIOUS
<1>1. /\ i \in Telemetry /\ i.id \notin Accepted
      /\ Accepted' = IF Joins(i) THEN Accepted \cup {i.id} ELSE Accepted
      /\ \A k : AcceptedUnder(k) \subseteq AcceptedUnder(k)'
      /\ Joins(i) => i.id \in AcceptedUnder(i.ex.key)'
      /\ EachItemOnce'
  <2>1. EachItemOnce
    BY DEF AssemblyInv
  <2> QED
    BY <1>0, <2>1, AcceptedBuffer
<1>2. UNCHANGED <<inFlight, emitted, written, batch, assembleMu, pc>>
  BY DEF Buffer
<1>3. Acking' = Acking
  BY <1>2 DEF Acking
<1>4. stats \in [StatName -> Nat] /\ "late" \in StatName
  BY DEF TypeOK, StatName
<1>5. \/ ~Joins(i) /\ \E reason \in {"toolCallsIgnored", "unjoinable"} : Drop(c, reason)
      \/ Joins(i) /\ Drop(c, "late")
      \/ Joins(i) /\ UsePending(i.ex.key) /\ AddPending(i)
      \/ Joins(i) /\ ~Finalized(i.ex.key) /\ ~UsePending(i.ex.key) /\ AddActive(i)
  BY <1>0 DEF Buffer, Joins
<1>6. CASE ~Joins(i) /\ \E reason \in {"toolCallsIgnored", "unjoinable"} : Drop(c, reason)
  <2>1. stats'["late"] = stats["late"] /\ UNCHANGED <<active, pending>>
    BY <1>4, <1>6 DEF Drop, Count
  <2> QED
    BY <1>1, <1>2, <1>3, <1>6, <2>1, AccountsQuiet
<1>7. CASE Joins(i) /\ Drop(c, "late")
  <2>1. stats'["late"] = stats["late"] + 1 /\ UNCHANGED <<active, pending>>
    BY <1>4, <1>7 DEF Drop, Count
  <2> QED
    BY <1>1, <1>2, <1>7, <2>1, AccountsLate
<1>8. CASE Joins(i) /\ UsePending(i.ex.key) /\ AddPending(i)
  <2>1. Accepted' = Accepted \cup {i.id} /\ i.id \in AcceptedUnder(i.ex.key)'
    BY <1>1, <1>8
  <2> QED
    BY <1>1, <1>2, <1>8, <2>1, AccountsAddPending
<1>9. CASE Joins(i) /\ ~Finalized(i.ex.key) /\ ~UsePending(i.ex.key) /\ AddActive(i)
  <2>1. Accepted' = Accepted \cup {i.id} /\ i.id \in AcceptedUnder(i.ex.key)'
    BY <1>1, <1>9
  <2> QED
    BY <1>1, <1>2, <1>9, <2>1, AccountsAddActive
<1> QED
  BY <1>5, <1>6, <1>7, <1>8, <1>9

(* assemble, up to the reservation.                                           *)
LEMMA AccountsClaim ==
  ASSUME TypeOK, AssemblyInv, NEW c \in Caller, Claim(c)
  PROVE  Accounts'
<1>0. PICK childOf \in ChildOf :
        batch' = {AssembleKey(k) : k \in {j \in Ready(cutoff[c]) :
                    ~ClaimedBy(childOf, j) /\ (spans[j] # None \/ logs[j] # None)}}
  BY DEF Claim
<1>1. /\ assembleMu = None /\ inFlight' = inFlight \cup Unwritten'
      /\ UNCHANGED <<active, pending, emitted, stats, written, taken, item>>
      /\ pc' = [pc EXCEPT ![c] = "emit"] /\ assembleMu' = c
  BY DEF Claim, Lock, GoTo, Unwritten
<1>2. /\ batch = {} /\ inFlight = {} /\ Acking = {}
      /\ \A k \in Key : ~HasPending(k) /\ PendingSigs({k}) = {}
  BY <1>1, LockFreeMeansQuiet
<1>3. ASSUME NEW r \in batch'
      PROVE  \E k \in Key : /\ r = AssembleKey(k) /\ r.key = k
                            /\ ~ClaimedBy(childOf, k)
                            /\ spans[k] # None \/ logs[k] # None
  BY <1>0 DEF Ready, AssembleKey
<1>4. ASSUME NEW r \in batch'
      PROVE  Consumed(r) \cap emitted = {}
  BY <1>3, ClosedConsumed DEF AssemblyInv, Discipline
<1>5. batch' \subseteq Assembled /\ Unwritten' \subseteq Key
  BY TypeClaim DEF TypeOK, Unwritten, Consumed, Assembled
<1>6. /\ \A K : ActiveSigs(K)' = ActiveSigs(K)
      /\ \A K : PendingSigs(K)' = PendingSigs(K)
      /\ Recorded' = Recorded
  BY <1>1, SameActive, SamePending, SameRecorded DEF active, pending
<1>7. Accepted' = Accepted /\ \A k : AcceptedUnder(k)' = AcceptedUnder(k)
  BY <1>1, AcceptedSame
<1>8. Acking' = {}
  BY <1>1, <1>2 DEF Acking, TypeOK
<1>9. ASSUME NEW r \in batch'
      PROVE  r.ex.sigs = ActiveSigs(Consumed(r))
  BY <1>3, AssembleKeyCovers
<1>10. ReservationsAreTheBatch'
  <2>1. inFlight' = Unwritten' \ emitted'
    BY <1>1, <1>2, <1>4 DEF Unwritten
  <2>2. \A r \in batch' : r.key \notin emitted'
    BY <1>1, <1>4 DEF Consumed
  <2>3. ASSUME NEW r \in batch', NEW s \in batch', r # s, r.key \in Consumed(s)
        PROVE  r.parent \in {None, r.key}
    <3>1. PICK k \in Key : r = AssembleKey(k) /\ r.key = k /\ ~ClaimedBy(childOf, k)
      BY <1>3
    <3>2. PICK j \in Key : s = AssembleKey(j) /\ s.key = j
      BY <1>3
    <3>3. s.parent = k /\ k # None
      BY <2>3, <3>1, <3>2, Constants DEF Consumed
    <3>4. ParentOf(j) = k
      BY <3>2, <3>3 DEF AssembleKey
    <3>5. k \in DOMAIN childOf
      BY <3>1, <3>4 DEF ChildOf, Children
    <3>6. childOf[k] = k /\ childOf[k] \in Children(k)
      BY <3>1, <3>5 DEF ClaimedBy, ChildOf
    <3>7. ParentOf(k) = k
      BY <3>6 DEF Children
    <3> QED
      BY <3>1, <3>7 DEF AssembleKey
  <2> QED
    BY <2>1, <2>2, <2>3 DEF ReservationsAreTheBatch
<1>11. SnapshotCovers'
  BY <1>6, <1>8, <1>9 DEF SnapshotCovers
<1>12. BufferIndexed'
  BY <1>1, <1>6 DEF AssemblyInv, BufferIndexed, HasPending, active, pending
<1>13. PendingOnlyBehindAWrite'
  BY <1>1, <1>2, Constants DEF PendingOnlyBehindAWrite, HasPending, pending
<1>14. EachItemOnce'
  BY <1>1 DEF AssemblyInv, EachItemOnce
<1>15. SignalsInPlace'
  <2>1. Batched' \subseteq ActiveSigs(Key)
    <3> SUFFICES ASSUME NEW r \in batch', NEW x \in r.ex.sigs
                 PROVE  x \in ActiveSigs(Key)
      BY DEF Batched
    <3>1. Consumed(r) \subseteq Key
      BY <1>5 DEF Unwritten
    <3>2. x \in ActiveSigs(Consumed(r))
      BY <1>9
    <3>3. \E k \in Consumed(r) : x \in ActiveSigs({k})
      BY <3>2, HeldByKey
    <3> QED
      BY <3>1, <3>3, HeldByKey
  <2> QED
    BY <1>6, <1>7, <2>1 DEF AssemblyInv, SignalsInPlace
<1>16. EverySignalAccountedFor'
  BY <1>1, <1>6, <1>7 DEF AssemblyInv, EverySignalAccountedFor
<1> QED
  BY <1>10, <1>11, <1>12, <1>13, <1>14, <1>15, <1>16 DEF Accounts

(* The end of an assembly, with nothing left in the batch.                    *)
LEMMA AccountsFinish ==
  ASSUME TypeOK, AssemblyInv, NEW c \in Caller, Finish(c)
  PROVE  Accounts'
<1>1. /\ batch = {} /\ batch' = {} /\ assembleMu' = None /\ pc' = [pc EXCEPT ![c] = "idle"]
      /\ UNCHANGED <<active, pending, inFlight, emitted, stats, written, taken, item>>
  BY DEF Finish, Return, GoTo
<1>2. Unwritten = {} /\ Unwritten' = {} /\ Batched' = {} /\ inFlight = {}
  BY <1>1 DEF Unwritten, Batched, AssemblyInv, ReservationsAreTheBatch
<1>3. /\ \A K : ActiveSigs(K)' = ActiveSigs(K)
      /\ \A K : PendingSigs(K)' = PendingSigs(K)
      /\ Recorded' = Recorded
  BY <1>1, SameActive, SamePending, SameRecorded DEF active, pending
<1>4. Accepted' = Accepted /\ \A k : AcceptedUnder(k)' = AcceptedUnder(k)
  BY <1>1, AcceptedSame
<1>5. Acking' \subseteq Acking
  BY <1>1 DEF Acking, TypeOK
<1>6. ReservationsAreTheBatch'
  BY <1>1, <1>2 DEF ReservationsAreTheBatch
<1>7. SnapshotCovers'
  BY <1>1, <1>5 DEF AssemblyInv, SnapshotCovers
<1>8. BufferIndexed'
  BY <1>1, <1>3 DEF AssemblyInv, BufferIndexed, HasPending, active, pending
<1>9. PendingOnlyBehindAWrite'
  BY <1>1, <1>2 DEF AssemblyInv, PendingOnlyBehindAWrite, HasPending, pending
<1>10. EachItemOnce'
  BY <1>1 DEF AssemblyInv, EachItemOnce
<1>11. SignalsInPlace'
  BY <1>2, <1>3, <1>4 DEF AssemblyInv, SignalsInPlace
<1>12. EverySignalAccountedFor'
  BY <1>1, <1>3, <1>4 DEF AssemblyInv, EverySignalAccountedFor
<1> QED
  BY <1>6, <1>7, <1>8, <1>9, <1>10, <1>11, <1>12 DEF Accounts

(* A record whose key has been finalized meanwhile reserves nothing any more. *)
LEMMA AccountsSkip ==
  ASSUME TypeOK, AssemblyInv, NEW c \in Caller, Skip(c)
  PROVE  Accounts'
<1>1. PICK r \in batch : r.key \in emitted /\ batch' = batch \ {r}
  BY DEF Skip
<1>2. /\ pc[c] = "emit"
      /\ UNCHANGED <<active, pending, inFlight, emitted, stats, written, taken, item, assembleMu, pc>>
  BY DEF Skip
<1>3. /\ \A K : ActiveSigs(K)' = ActiveSigs(K)
      /\ \A K : PendingSigs(K)' = PendingSigs(K)
      /\ Recorded' = Recorded
  BY <1>2, SameActive, SamePending, SameRecorded DEF active, pending
<1>4. Accepted' = Accepted /\ \A k : AcceptedUnder(k)' = AcceptedUnder(k)
  BY <1>2, AcceptedSame
<1>5. Acking' = {}
  <2>1. Acking = {}
    BY <1>2, NoOtherAck DEF Holding
  <2> QED
    BY <1>2, <2>1 DEF Acking
<1>6. ReservationsAreTheBatch'
  <2>1. Consumed(r) \subseteq emitted
    BY <1>1 DEF AssemblyInv, ReservationsAreTheBatch
  <2>2. Unwritten' \ emitted = Unwritten \ emitted
    BY <1>1, <2>1 DEF Unwritten
  <2> QED
    BY <1>1, <1>2, <2>2 DEF AssemblyInv, ReservationsAreTheBatch
<1>7. SnapshotCovers'
  BY <1>1, <1>3, <1>5 DEF AssemblyInv, SnapshotCovers
<1>8. BufferIndexed'
  BY <1>2, <1>3 DEF AssemblyInv, BufferIndexed, HasPending, active, pending
<1>9. PendingOnlyBehindAWrite'
  BY <1>2 DEF AssemblyInv, PendingOnlyBehindAWrite, HasPending, pending
<1>10. EachItemOnce'
  BY <1>2 DEF AssemblyInv, EachItemOnce
<1>11. SignalsInPlace'
  <2>1. Batched' \subseteq Batched
    BY <1>1 DEF Batched
  <2> QED
    BY <1>3, <1>4, <2>1 DEF AssemblyInv, SignalsInPlace
<1>12. EverySignalAccountedFor'
  BY <1>2, <1>3, <1>4 DEF AssemblyInv, EverySignalAccountedFor
<1> QED
  BY <1>6, <1>7, <1>8, <1>9, <1>10, <1>11, <1>12 DEF Accounts

(* A write moves the items of a record into the sink.                         *)
LEMMA RecordedAppend ==
  ASSUME TypeOK, NEW e \in Execution, written' = Append(written, e)
  PROVE  Recorded' = Recorded \cup e.sigs
<1>1. /\ DOMAIN written' = 1 .. Len(written) + 1 /\ DOMAIN written = 1 .. Len(written)
      /\ Len(written) \in Nat
      /\ \A n \in 1 .. Len(written) : written'[n] = written[n]
      /\ written'[Len(written) + 1] = e
  BY DEF TypeOK
<1>2. /\ \A x : x \in Recorded <=> \E n \in DOMAIN written : x \in written[n].sigs
      /\ \A x : x \in Recorded' <=> \E n \in DOMAIN written' : x \in written'[n].sigs
  BY DEF Recorded
<1>3. \A x : x \in Recorded' => x \in Recorded \/ x \in e.sigs
  BY <1>1, <1>2
<1>4. ASSUME NEW x \in Recorded
      PROVE  x \in Recorded'
  <2>1. PICK n \in DOMAIN written : x \in written[n].sigs
    BY <1>2
  <2>2. n \in DOMAIN written' /\ written'[n] = written[n]
    BY <1>1
  <2> QED
    BY <1>2, <2>1, <2>2
<1>5. ASSUME NEW x \in e.sigs
      PROVE  x \in Recorded'
  BY <1>1, <1>2
<1> QED
  BY <1>3, <1>4, <1>5

LEMMA AccountsWriteOK ==
  ASSUME TypeOK, AssemblyInv, NEW c \in Caller, WriteOK(c)
  PROVE  Accounts'
<1>1. PICK r \in batch : IsFirst(r) /\ written' = Append(written, r.ex)
  BY DEF WriteOK
<1>2. /\ pc[c] = "write" /\ pc' = [pc EXCEPT ![c] = "ack"]
      /\ UNCHANGED <<active, pending, inFlight, emitted, stats, batch, taken, item, assembleMu>>
  BY DEF WriteOK, GoTo
<1>3. /\ \A K : ActiveSigs(K)' = ActiveSigs(K)
      /\ \A K : PendingSigs(K)' = PendingSigs(K)
  BY <1>2, SameActive, SamePending DEF active, pending
<1>4. Accepted' = Accepted /\ \A k : AcceptedUnder(k)' = AcceptedUnder(k)
  BY <1>2, AcceptedSame
<1>5. Batched' = Batched /\ Unwritten' = Unwritten
  BY <1>2 DEF Batched, Unwritten
<1>6. r.ex \in Execution /\ written \in Seq(Execution) /\ r.ex.sigs \subseteq Batched
  BY DEF TypeOK, Assembled, Batched
<1>7. Recorded' = Recorded \cup r.ex.sigs
  BY <1>1, <1>6, RecordedAppend
<1>8. r.ex.sigs \subseteq ActiveSigs(Key) \cup Recorded /\ Recorded \subseteq Accepted
  BY <1>6 DEF AssemblyInv, SignalsInPlace
<1>9. ReservationsAreTheBatch'
  BY <1>2, <1>5 DEF AssemblyInv, ReservationsAreTheBatch
<1>10. SnapshotCovers'
  <2>1. \A s \in batch : IsFirst(s) => s = r
    BY <1>1, FirstIsUnique DEF AssemblyInv, Discipline
  <2>2. written' # << >> /\ written'[Len(written')] = r.ex
    BY <1>1, <1>6
  <2> QED
    BY <1>2, <1>3, <2>1, <2>2 DEF AssemblyInv, SnapshotCovers, IsFirst
<1>11. BufferIndexed'
  BY <1>2, <1>3 DEF AssemblyInv, BufferIndexed, HasPending, active, pending
<1>12. PendingOnlyBehindAWrite'
  BY <1>2 DEF AssemblyInv, PendingOnlyBehindAWrite, HasPending, pending
<1>13. EachItemOnce'
  BY <1>2 DEF AssemblyInv, EachItemOnce
<1>14. ActiveSigs(Key) \subseteq Accepted
  <2>1. \A x \in ActiveSigs(Key) : \E k \in Key : x \in ActiveSigs({k})
    BY HeldByKey
  <2>2. \A k \in Key : ActiveSigs({k}) \subseteq Accepted
    BY AcceptedOnce DEF AssemblyInv, SignalsInPlace
  <2> QED
    BY <2>1, <2>2
<1>15. SignalsInPlace'
  <2>1. ASSUME NEW k \in Key
        PROVE  PendingSigs({k}) \cap (ActiveSigs({k}) \cup Recorded \cup r.ex.sigs) = {}
    <3> SUFFICES ASSUME NEW x \in PendingSigs({k}), x \in r.ex.sigs PROVE FALSE
      BY DEF AssemblyInv, SignalsInPlace
    <3>1. x \in ActiveSigs(Key)
      BY <1>8 DEF AssemblyInv, SignalsInPlace
    <3>2. PICK j \in Key : x \in ActiveSigs({j})
      BY <3>1, HeldByKey
    <3>3. j = k
      BY <3>2, AcceptedOnce DEF AssemblyInv, SignalsInPlace
    <3> QED
      BY <3>2, <3>3 DEF AssemblyInv, SignalsInPlace
  <2>2. Recorded' \subseteq Accepted'
    BY <1>4, <1>7, <1>8, <1>14
  <2>3. (Batched \subseteq ActiveSigs(Key) \cup Recorded)'
    BY <1>3, <1>5, <1>7 DEF AssemblyInv, SignalsInPlace
  <2>4. \A k \in Key : (PendingSigs({k}) \cap (ActiveSigs({k}) \cup Recorded) = {})'
    BY <1>3, <1>7, <2>1
  <2> QED
    BY <1>3, <1>4, <2>2, <2>3, <2>4 DEF AssemblyInv, SignalsInPlace
<1>16. EverySignalAccountedFor'
  <2>1. Held' = Held
    BY <1>3, <1>7, <1>8 DEF Held
  <2> QED
    BY <1>2, <1>4, <2>1, AccountedForByHeld DEF AssemblyInv
<1> QED
  BY <1>9, <1>10, <1>11, <1>12, <1>13, <1>15, <1>16 DEF Accounts

(* The counters an acknowledged record adds one to.                           *)
LEMMA TalliedNames ==
  ASSUME TypeOK, NEW r \in batch
  PROVE  /\ Tallied(r) \subseteq {"emitted", "correlated", "unattributed", "ambiguous",
                                   "merged", "logOnly", "spanOnly"}
         /\ EmittedClass(r) \in {"merged", "logOnly", "spanOnly"}
<1>1. r.ex.correlation \in Correlation
  BY DEF TypeOK, Assembled, Execution, Record
<1>2. EmittedClass(r) \in {"merged", "logOnly", "spanOnly"}
  BY DEF EmittedClass
<1> QED
  BY <1>1, <1>2 DEF Tallied, Correlation

LEMMA DisjointUnion ==
  ASSUME NEW S, NEW T, IsFiniteSet(S), IsFiniteSet(T), S \cap T = {}
  PROVE  IsFiniteSet(S \cup T) /\ Cardinality(S \cup T) = Cardinality(S) + Cardinality(T)
<1>1. /\ IsFiniteSet(S \cup T)
      /\ Cardinality(S \cup T) = Cardinality(S) + Cardinality(T) - Cardinality(S \cap T)
  BY FS_Union
<1>2. Cardinality(S \cap T) = 0
  BY FS_EmptySet
<1>3. Cardinality(S) \in Nat /\ Cardinality(T) \in Nat
  BY FS_CardinalityType
<1> QED
  BY <1>1, <1>2, <1>3

(* The acknowledgement: what was active under the consumed keys is in the      *)
(* record, what was pending under them is counted as late.                    *)
LEMMA AccountsAck ==
  ASSUME TypeOK, AssemblyInv, NEW c \in Caller, Ack(c)
  PROVE  Accounts'
<1>1. PICK r \in batch :
        /\ IsFirst(r)
        /\ batch' = batch \ {r}
        /\ spans' = Cleared(spans, Consumed(r))
        /\ logs' = Cleared(logs, Consumed(r))
        /\ firstSeen' = Cleared(firstSeen, Consumed(r))
        /\ DiscardPending(Consumed(r))
        /\ inFlight' = inFlight \ Consumed(r)
        /\ emitted' = emitted \cup Consumed(r)
        /\ stats'["late"] = stats["late"] + Discarded(r)
  <2>1. \A r \in batch : "late" \notin Tallied(r)
    BY TalliedNames
  <2>2. "late" \in StatName
    BY DEF StatName
  <2> QED
    BY <2>1, <2>2 DEF Ack
<1>2. /\ pc[c] = "ack" /\ pc' = [pc EXCEPT ![c] = "emit"]
      /\ UNCHANGED <<assembleMu, written, taken, item>>
  BY DEF Ack, GoTo
<1> DEFINE K == Consumed(r)
<1>3. K \subseteq Key /\ r.key \in K /\ r \in Assembled
  BY DEF TypeOK, Assembled, Consumed
<1>4. /\ \A k \in Key : ActiveSigs({k})' = IF k \in K THEN {} ELSE ActiveSigs({k})
      /\ \A k \in Key : PendingSigs({k})' = IF k \in K THEN {} ELSE PendingSigs({k})
  BY <1>1, AckUnder
<1>5. Accepted' = Accepted /\ (\A k : AcceptedUnder(k)' = AcceptedUnder(k)) /\ Recorded' = Recorded
  BY <1>2, AcceptedSame, SameRecorded
<1>6. Acking' = {}
  <2>1. \A d \in Caller : d # c => pc[d] # "ack"
    BY <1>2, OnlyHolder DEF AssemblyInv, Discipline, Holding
  <2> QED
    BY <1>2, <2>1 DEF Acking, TypeOK
<1>7. r.ex.sigs \subseteq Recorded
  <2>1. written # << >> /\ r.ex = written[Len(written)]
    BY <1>1, <1>2 DEF AssemblyInv, SnapshotCovers, Acking
  <2>2. Len(written) \in DOMAIN written
    BY <2>1 DEF TypeOK
  <2> QED
    BY <2>1, <2>2 DEF Recorded
<1>8. ActiveSigs(K) \subseteq Recorded
  BY <1>7 DEF AssemblyInv, SnapshotCovers
<1>9. /\ \A k \in Key : ActiveSigs({k}) \subseteq AcceptedUnder(k)
      /\ \A k \in Key : PendingSigs({k}) \subseteq AcceptedUnder(k)
      /\ \A k \in Key : PendingSigs({k}) \cap (ActiveSigs({k}) \cup Recorded) = {}
  BY DEF AssemblyInv, SignalsInPlace
<1> HIDE DEF K
<1>10. ReservationsAreTheBatch'
  <2>1. Unwritten = Unwritten' \cup K
    BY <1>1 DEF Unwritten, K
  <2>2. inFlight' = Unwritten' \ emitted'
    BY <1>1, <2>1 DEF AssemblyInv, ReservationsAreTheBatch, K
  <2>3. ASSUME NEW s \in batch', s.key \in emitted'
        PROVE  Consumed(s) \subseteq emitted'
    <3>1. CASE s.key \in emitted
      BY <1>1, <3>1 DEF AssemblyInv, ReservationsAreTheBatch
    <3>2. CASE s.key \in Consumed(r)
      <4>1. s.parent \in {None, s.key}
        BY <1>1, <3>2 DEF AssemblyInv, ReservationsAreTheBatch
      <4>2. Consumed(s) \subseteq {s.key}
        BY <4>1 DEF Consumed
      <4> QED
        BY <1>1, <3>2, <4>2
    <3> QED
      BY <1>1, <2>3, <3>1, <3>2
  <2>4. \A s, q \in batch' : s # q /\ s.key \in Consumed(q) => s.parent \in {None, s.key}
    BY <1>1 DEF AssemblyInv, ReservationsAreTheBatch
  <2> QED
    BY <2>2, <2>3, <2>4 DEF ReservationsAreTheBatch
<1>11. SnapshotCovers'
  <2>1. ASSUME NEW s \in batch'
        PROVE  ActiveSigs(Consumed(s))' \subseteq s.ex.sigs
    <3>1. s \in batch /\ Consumed(s) \subseteq Key
      BY <1>1 DEF TypeOK, Assembled, Consumed
    <3>2. \A x : /\ x \in ActiveSigs(Consumed(s))'
                      <=> \E k \in Consumed(s) : x \in ActiveSigs({k})'
                 /\ x \in ActiveSigs(Consumed(s))
                      <=> \E k \in Consumed(s) : x \in ActiveSigs({k})
      BY HeldByKey
    <3>3. ActiveSigs(Consumed(s))' \subseteq ActiveSigs(Consumed(s))
      BY <1>4, <3>1, <3>2
    <3> QED
      BY <3>1, <3>3 DEF AssemblyInv, SnapshotCovers
  <2> QED
    BY <1>6, <2>1 DEF SnapshotCovers
<1>12. BufferIndexed'
  <2>1. ASSUME NEW k \in Key
        PROVE  /\ firstSeen'[k] # None <=> spans'[k] # None \/ logs'[k] # None
               /\ pendingFirstSeen'[k] # None <=> pendingSpans'[k] # None \/ pendingLogs'[k] # None
    BY <1>1 DEF AssemblyInv, BufferIndexed, HasPending, DiscardPending, Cleared
  <2>2. ASSUME NEW k \in Key
        PROVE  (pendingSignals[k] = Cardinality(PendingSigs({k})))'
    <3>1. pendingSignals'[k] = IF k \in K THEN 0 ELSE pendingSignals[k]
      BY <1>1 DEF DiscardPending, NoSignals, K
    <3> QED
      BY <1>4, <3>1, FS_EmptySet DEF AssemblyInv, BufferIndexed
  <2> QED
    BY <2>1, <2>2 DEF BufferIndexed, HasPending
<1>13. PendingOnlyBehindAWrite'
  <2>1. ASSUME NEW k \in Key, pendingFirstSeen'[k] # None
        PROVE  k \in inFlight'
    BY <1>1, <2>1 DEF AssemblyInv, PendingOnlyBehindAWrite, HasPending, DiscardPending, Cleared
  <2> QED
    BY <1>1, <1>2, <2>1 DEF AssemblyInv, PendingOnlyBehindAWrite, HasPending
<1>14. EachItemOnce'
  BY <1>2 DEF AssemblyInv, EachItemOnce
<1>15. \A x : x \in ActiveSigs(Key)' \/ x \in ActiveSigs(K) <=> x \in ActiveSigs(Key)
  <2>1. \A x : /\ x \in ActiveSigs(Key)' <=> \E k \in Key : x \in ActiveSigs({k})'
               /\ x \in ActiveSigs(Key) <=> \E k \in Key : x \in ActiveSigs({k})
               /\ x \in ActiveSigs(K) <=> \E k \in K : x \in ActiveSigs({k})
    BY HeldByKey
  <2> QED
    BY <1>3, <1>4, <2>1
<1>16. \A x : x \in PendingSigs(Key) <=> x \in PendingSigs(Key)' \/ x \in PendingSigs(K)
  <2>1. \A x : /\ x \in PendingSigs(Key)' <=> \E k \in Key : x \in PendingSigs({k})'
               /\ x \in PendingSigs(Key) <=> \E k \in Key : x \in PendingSigs({k})
               /\ x \in PendingSigs(K) <=> \E k \in K : x \in PendingSigs({k})
    BY HeldByKey
  <2> QED
    BY <1>3, <1>4, <2>1
<1>17. SignalsInPlace'
  <2>1. (Batched \subseteq ActiveSigs(Key) \cup Recorded)'
    <3>1. Batched' \subseteq Batched
      BY <1>1 DEF Batched
    <3> QED
      BY <1>5, <1>8, <1>15, <3>1 DEF AssemblyInv, SignalsInPlace
  <2>2. \A k \in Key : /\ (ActiveSigs({k}) \cup PendingSigs({k}) \subseteq AcceptedUnder(k))'
                       /\ (PendingSigs({k}) \cap (ActiveSigs({k}) \cup Recorded) = {})'
    BY <1>4, <1>5, <1>9
  <2> QED
    BY <1>5, <2>1, <2>2 DEF AssemblyInv, SignalsInPlace
<1>18. EverySignalAccountedFor'
  <2>1. Held' = Held \ PendingSigs(K)
    <3>1. \A x \in PendingSigs(K) : x \notin ActiveSigs(Key) /\ x \notin Recorded
                                    /\ x \notin PendingSigs(Key)'
      <4> SUFFICES ASSUME NEW x \in PendingSigs(K)
                   PROVE  x \notin ActiveSigs(Key) /\ x \notin Recorded /\ x \notin PendingSigs(Key)'
        OBVIOUS
      <4>1. PICK k \in K : x \in PendingSigs({k})
        BY HeldByKey
      <4>2. ASSUME NEW j \in Key, x \in AcceptedUnder(j) PROVE j = k
        BY <1>3, <1>9, <4>1, <4>2, AcceptedOnce
      <4>3. x \notin ActiveSigs(Key)
        <5> SUFFICES ASSUME x \in ActiveSigs(Key) PROVE FALSE
          OBVIOUS
        <5>1. PICK j \in Key : x \in ActiveSigs({j})
          BY HeldByKey
        <5> QED
          BY <1>3, <1>9, <4>1, <4>2, <5>1
      <4>4. x \notin PendingSigs(Key)'
        <5> SUFFICES ASSUME x \in PendingSigs(Key)' PROVE FALSE
          OBVIOUS
        <5>1. PICK j \in Key : x \in PendingSigs({j})'
          BY HeldByKey
        <5>2. j \notin K /\ x \in PendingSigs({j})
          BY <1>4, <5>1
        <5> QED
          BY <1>9, <4>1, <4>2, <5>2
      <4> QED
        BY <1>3, <1>9, <4>1, <4>3, <4>4
    <3> QED
      BY <1>5, <1>8, <1>15, <1>16, <3>1 DEF Held
  <2>2. Cardinality(PendingSigs(K)) = Discarded(r) /\ IsFiniteSet(PendingSigs(K))
    <3>1. ASSUME NEW k \in Key
          PROVE  /\ IsFiniteSet(PendingSigs({k}))
                 /\ Cardinality(PendingSigs({k})) = pendingSignals[k]
      <4>1. PendingSigs({k}) \in SUBSET Accepted
        BY <1>9, AcceptedOnce
      <4> QED
        BY <4>1, AcceptedFinite, FS_Subset DEF AssemblyInv, BufferIndexed
    <3>2. CASE r.parent \in {None, r.key}
      <4>1. K = {r.key}
        BY <3>2, <1>3 DEF Consumed, K
      <4>2. r.key \in Key /\ pendingSignals[r.key] \in Nat
        BY <1>3 DEF Assembled, TypeOK
      <4>3. Discarded(r) = pendingSignals[r.key]
        BY <3>2, <4>2 DEF Discarded
      <4> QED
        BY <3>1, <4>1, <4>2, <4>3
    <3>3. CASE r.parent \notin {None, r.key}
      <4>1. K = {r.key, r.parent}
        BY <3>3 DEF Consumed, K
      <4>2. r.key \in Key /\ r.parent \in Key
        BY <1>3, <4>1
      <4>3. PendingSigs(K) = PendingSigs({r.key}) \cup PendingSigs({r.parent})
        <5>1. \A x : x \in PendingSigs(K) <=> \E k \in K : x \in PendingSigs({k})
          BY HeldByKey
        <5> QED
          BY <4>1, <5>1
      <4>4. PendingSigs({r.key}) \cap PendingSigs({r.parent}) = {}
        BY <1>9, <3>3, <4>2, AcceptedOnce
      <4>5. /\ IsFiniteSet(PendingSigs({r.key})) /\ IsFiniteSet(PendingSigs({r.parent}))
            /\ Cardinality(PendingSigs({r.key})) = pendingSignals[r.key]
            /\ Cardinality(PendingSigs({r.parent})) = pendingSignals[r.parent]
            /\ pendingSignals[r.key] \in Nat /\ pendingSignals[r.parent] \in Nat
        BY <3>1, <4>2 DEF TypeOK
      <4>6. /\ Cardinality(PendingSigs({r.key}) \cup PendingSigs({r.parent}))
                 = pendingSignals[r.key] + pendingSignals[r.parent]
            /\ IsFiniteSet(PendingSigs({r.key}) \cup PendingSigs({r.parent}))
        <5>1. /\ Cardinality(PendingSigs({r.key}) \cup PendingSigs({r.parent}))
                   = Cardinality(PendingSigs({r.key})) + Cardinality(PendingSigs({r.parent}))
              /\ IsFiniteSet(PendingSigs({r.key}) \cup PendingSigs({r.parent}))
          BY <4>4, <4>5, DisjointUnion
        <5> QED
          BY <4>5, <5>1
      <4> QED
        BY <3>3, <4>3, <4>6 DEF Discarded
    <3> QED
      BY <3>2, <3>3
  <2>3. Held \subseteq Accepted /\ Cardinality(Accepted \ Held) = stats["late"]
    BY AccountedForByHeld DEF AssemblyInv
  <2>4. PendingSigs(K) \subseteq Held
    BY <1>16 DEF Held
  <2>5. Accepted \ Held' = (Accepted \ Held) \cup PendingSigs(K)
    BY <2>1, <2>3, <2>4
  <2>6. (Accepted \ Held) \cap PendingSigs(K) = {}
    BY <2>4
  <2>7. IsFiniteSet(Accepted \ Held)
    BY AcceptedFinite, FS_Subset DEF AssemblyInv
  <2>8. stats["late"] \in Nat /\ Discarded(r) \in Nat
    BY <2>2, FS_CardinalityType DEF TypeOK, StatName
  <2>9. Cardinality((Accepted \ Held) \cup PendingSigs(K)) = stats["late"] + Discarded(r)
    BY <2>2, <2>3, <2>6, <2>7, DisjointUnion
  <2> QED
    BY <1>1, <1>5, <2>1, <2>3, <2>5, <2>9, AccountedForByHeld
<1> QED
  BY <1>10, <1>11, <1>12, <1>13, <1>14, <1>17, <1>18 DEF Accounts

(* A rollback brings everything that was pending back to the active maps.     *)
LEMMA AccountsRestore ==
  ASSUME TypeOK, AssemblyInv, NEW c \in Caller, Restore(c)
  PROVE  Accounts'
<1> DEFINE K == {k \in Unwritten : HasPending(k)}
<1>1. /\ MergePendingIntoActive(K) /\ inFlight' = inFlight \ Unwritten
      /\ batch' = {} /\ assembleMu' = None /\ pc[c] = "restore" /\ pc' = [pc EXCEPT ![c] = "idle"]
      /\ UNCHANGED <<emitted, stats, written, taken, item>>
  BY DEF Restore, Return, GoTo
<1>2. inFlight' = {} /\ Unwritten' = {} /\ Batched' = {}
  BY <1>1 DEF AssemblyInv, ReservationsAreTheBatch, Unwritten, Batched
<1>3. \A k \in Key : HasPending(k) <=> k \in K
  BY DEF AssemblyInv, PendingOnlyBehindAWrite, ReservationsAreTheBatch
<1>4. \A k \in Key : k \notin K => PendingSigs({k}) = {}
  BY <1>3, EmptyKey DEF AssemblyInv, BufferIndexed
<1> HIDE DEF K
<1>5. \A k \in Key : /\ ActiveSigs({k})' = ActiveSigs({k}) \cup PendingSigs({k})
                     /\ PendingSigs({k})' = {}
  <2>1. /\ \A k \in Key : ActiveSigs({k})' = IF k \in K THEN ActiveSigs({k}) \cup PendingSigs({k})
                                                        ELSE ActiveSigs({k})
        /\ \A k \in Key : PendingSigs({k})' = IF k \in K THEN {} ELSE PendingSigs({k})
    BY <1>1, RestoreUnder
  <2> QED
    BY <1>4, <2>1
<1>6. Accepted' = Accepted /\ (\A k : AcceptedUnder(k)' = AcceptedUnder(k)) /\ Recorded' = Recorded
  <2>1. Accepted' = Accepted /\ \A k : AcceptedUnder(k)' = AcceptedUnder(k)
    BY <1>1, AcceptedSame
  <2>2. Recorded' = Recorded
    BY <1>1, SameRecorded
  <2> QED
    BY <2>1, <2>2
<1>7. Acking' \subseteq Acking
  BY <1>1 DEF Acking, TypeOK
<1>8. ReservationsAreTheBatch'
  BY <1>1, <1>2 DEF ReservationsAreTheBatch
<1>9. SnapshotCovers'
  BY <1>1, <1>7 DEF AssemblyInv, SnapshotCovers
<1>10. ASSUME NEW k \in Key
       PROVE  pendingFirstSeen'[k] = None /\ pendingSpans'[k] = None /\ pendingLogs'[k] = None
  BY <1>1, <1>3 DEF MergePendingIntoActive, Cleared, AssemblyInv, BufferIndexed, HasPending
<1>11. BufferIndexed'
  <2>1. ASSUME NEW k \in Key
        PROVE  firstSeen'[k] # None <=> spans'[k] # None \/ logs'[k] # None
    <3>1. /\ firstSeen[k] # None <=> spans[k] # None \/ logs[k] # None
          /\ pendingFirstSeen[k] # None <=> pendingSpans[k] # None \/ pendingLogs[k] # None
      BY DEF AssemblyInv, BufferIndexed, HasPending
    <3>2. CASE k \in K
      <4>1. /\ firstSeen'[k] = Either(firstSeen[k], pendingFirstSeen[k])
            /\ spans'[k] = Join(spans[k], pendingSpans[k]) /\ logs'[k] = Join(logs[k], pendingLogs[k])
        BY <1>1, <3>2 DEF MergePendingIntoActive
      <4>2. /\ spans[k] \in Execution \cup {None} /\ pendingSpans[k] \in Execution \cup {None}
            /\ logs[k] \in Execution \cup {None} /\ pendingLogs[k] \in Execution \cup {None}
        BY DEF TypeOK
      <4>3. /\ spans'[k] = None <=> spans[k] = None /\ pendingSpans[k] = None
            /\ logs'[k] = None <=> logs[k] = None /\ pendingLogs[k] = None
        BY <4>1, <4>2, JoinType
      <4> QED
        BY <3>1, <4>1, <4>3 DEF Either
    <3>3. CASE k \notin K
      BY <1>1, <3>1, <3>3 DEF MergePendingIntoActive
    <3> QED
      BY <3>2, <3>3
  <2>2. ASSUME NEW k \in Key
        PROVE  (pendingSignals[k] = Cardinality(PendingSigs({k})))'
    <3>1. pendingSignals'[k] = IF k \in K THEN 0 ELSE pendingSignals[k]
      BY <1>1 DEF MergePendingIntoActive, NoSignals
    <3>2. pendingSignals[k] = Cardinality(PendingSigs({k}))
      BY DEF AssemblyInv, BufferIndexed
    <3> QED
      BY <1>4, <1>5, <3>1, <3>2, FS_EmptySet
  <2> QED
    BY <1>10, <2>1, <2>2 DEF BufferIndexed, HasPending
<1>12. PendingOnlyBehindAWrite'
  BY <1>2, <1>10 DEF PendingOnlyBehindAWrite, HasPending
<1>13. EachItemOnce'
  BY <1>1 DEF AssemblyInv, EachItemOnce
<1>14. SignalsInPlace'
  <2>1. \A k \in Key : /\ (ActiveSigs({k}) \cup PendingSigs({k}) \subseteq AcceptedUnder(k))'
                       /\ (PendingSigs({k}) \cap (ActiveSigs({k}) \cup Recorded) = {})'
    BY <1>5, <1>6 DEF AssemblyInv, SignalsInPlace
  <2> QED
    BY <1>2, <1>6, <2>1 DEF AssemblyInv, SignalsInPlace
<1>15. EverySignalAccountedFor'
  <2>1. \A x : x \in ActiveSigs(Key)' \/ x \in PendingSigs(Key)'
               <=> x \in ActiveSigs(Key) \/ x \in PendingSigs(Key)
    <3>1. \A x : /\ x \in ActiveSigs(Key)' <=> \E k \in Key : x \in ActiveSigs({k})'
                 /\ x \in ActiveSigs(Key) <=> \E k \in Key : x \in ActiveSigs({k})
                 /\ x \in PendingSigs(Key)' <=> \E k \in Key : x \in PendingSigs({k})'
                 /\ x \in PendingSigs(Key) <=> \E k \in Key : x \in PendingSigs({k})
      BY HeldByKey
    <3> QED
      BY <1>5, <3>1
  <2>2. Held' = Held
    BY <1>6, <2>1 DEF Held
  <2> QED
    BY <1>1, <1>6, <2>2, AccountedForByHeld DEF AssemblyInv
<1> QED
  BY <1>8, <1>9, <1>11, <1>12, <1>13, <1>14, <1>15 DEF Accounts

(* Every step keeps the account: one case per action.                         *)
LEMMA AccountsStep == TypeOK /\ AssemblyInv /\ [Next]_vars => Accounts'
<1> SUFFICES ASSUME TypeOK, AssemblyInv, [Next]_vars PROVE Accounts'
  OBVIOUS
<1>1. CASE UNCHANGED vars
  <2>1. UNCHANGED <<active, pending, inFlight, emitted, written, batch, assembleMu, taken, item, pc, stats>>
    BY <1>1 DEF vars
  <2>2. EachItemOnce' /\ Acking' = Acking
    BY <2>1 DEF AssemblyInv, EachItemOnce, Acking
  <2> QED
    BY <2>1, <2>2, AcceptedSame, AccountsQuiet
<1>2. CASE Tick
  <2>1. UNCHANGED <<active, pending, inFlight, emitted, written, batch, assembleMu, taken, item, pc, stats>>
    BY <1>2 DEF Tick
  <2>2. EachItemOnce' /\ Acking' = Acking
    BY <2>1 DEF AssemblyInv, EachItemOnce, Acking
  <2> QED
    BY <2>1, <2>2, AcceptedSame, AccountsQuiet
<1>3. ASSUME NEW c \in Caller, StartConsume(c) \/ EndRequest(c) \/ StartFlush(c) PROVE Accounts'
  <2>1. UNCHANGED <<active, pending, inFlight, emitted, written, batch, assembleMu, taken, item, stats>>
    BY <1>3 DEF StartConsume, EndRequest, StartFlush
  <2>2. pc' \in {[pc EXCEPT ![c] = l] : l \in {"idle", "loop", "assemble"}}
    BY <1>3 DEF StartConsume, EndRequest, StartFlush, GoTo
  <2>3. EachItemOnce' /\ Acking' \subseteq Acking
    BY <2>1, <2>2 DEF AssemblyInv, EachItemOnce, Acking, TypeOK
  <2> QED
    BY <2>1, <2>3, AcceptedSame, AccountsQuiet
<1>4. ASSUME NEW c \in Caller, Receive(c) PROVE Accounts'
  <2>1. /\ UNCHANGED <<active, pending, inFlight, emitted, written, batch, assembleMu, pc>>
        /\ stats'["late"] = stats["late"]
    BY <1>4 DEF Receive, Count, TypeOK, StatName
  <2>2. /\ Accepted' = Accepted /\ \A k : AcceptedUnder(k)' = AcceptedUnder(k)
        /\ EachItemOnce' /\ Acking' = Acking
    BY <1>4, <2>1, AcceptedReceive DEF AssemblyInv, Acking
  <2> QED
    BY <2>1, <2>2, AccountsQuiet
<1>5. ASSUME NEW c \in Caller, TryEmit(c) \/ WriteFail(c) PROVE Accounts'
  <2>1. /\ UNCHANGED <<active, pending, inFlight, emitted, written, batch, assembleMu, taken, item>>
        /\ stats'["late"] = stats["late"]
    BY <1>5 DEF TryEmit, WriteFail, Count, TypeOK, StatName
  <2>2. pc' \in {[pc EXCEPT ![c] = l] : l \in {"write", "restore"}}
    BY <1>5 DEF TryEmit, WriteFail, GoTo
  <2>3. EachItemOnce' /\ Acking' \subseteq Acking
    BY <2>1, <2>2 DEF AssemblyInv, EachItemOnce, Acking, TypeOK
  <2> QED
    BY <2>1, <2>3, AcceptedSame, AccountsQuiet
<1> QED
  BY <1>1, <1>2, <1>3, <1>4, <1>5, AccountsBuffer, AccountsClaim, AccountsFinish, AccountsSkip,
     AccountsWriteOK, AccountsAck, AccountsRestore DEF Next, Ingest, Assemble, Sink

LEMMA AccountsInit == Init => Accounts
<1> SUFFICES ASSUME Init PROVE Accounts
  OBVIOUS
<1>1. /\ \A k \in Key : spans[k] = None /\ logs[k] = None /\ firstSeen[k] = None
      /\ \A k \in Key : /\ pendingSpans[k] = None /\ pendingLogs[k] = None
                        /\ pendingFirstSeen[k] = None /\ pendingSignals[k] = 0
      /\ taken = {} /\ batch = {} /\ inFlight = {} /\ written = << >>
      /\ Acking = {} /\ \A c \in Caller : item[c] = None
  BY DEF Init, Nothing, Acking
<1>2. \A k \in Key : ActiveSigs({k}) = {} /\ PendingSigs({k}) = {}
  BY <1>1, EmptyKey
<1>3. ActiveSigs(Key) = {} /\ PendingSigs(Key) = {}
  <2>1. /\ \A x : x \in ActiveSigs(Key) <=> \E k \in Key : x \in ActiveSigs({k})
        /\ \A x : x \in PendingSigs(Key) <=> \E k \in Key : x \in PendingSigs({k})
    BY HeldByKey
  <2> QED
    BY <1>2, <2>1
<1>4. Recorded = {} /\ Batched = {} /\ Unwritten = {} /\ Accepted = {}
  BY <1>1 DEF Recorded, Batched, Unwritten, Accepted
<1>5. ReservationsAreTheBatch /\ SnapshotCovers
  BY <1>1, <1>4 DEF ReservationsAreTheBatch, SnapshotCovers
<1>6. BufferIndexed /\ PendingOnlyBehindAWrite
  BY <1>1, <1>2, FS_EmptySet DEF BufferIndexed, PendingOnlyBehindAWrite, HasPending
<1>7. EachItemOnce /\ SignalsInPlace
  BY <1>1, <1>2, <1>3, <1>4, FS_EmptySet DEF EachItemOnce, SignalsInPlace
<1>8. EverySignalAccountedFor
  <2>1. Held = {} /\ Accepted \ Held = {}
    BY <1>3, <1>4 DEF Held
  <2>2. stats["late"] = 0
    BY DEF Init, StatName
  <2> QED
    BY <1>4, <2>1, <2>2, FS_EmptySet, AccountedForByHeld
<1> QED
  BY <1>5, <1>6, <1>7, <1>8 DEF Accounts

(* AssemblyInv is inductive: the reservations are those of the batch, a record covers  *)
(* what its keys hold, pending signals exist only behind a write and no item is *)
(* in two places, all of it needed to account for every signal.                *)
THEOREM Inductive == Spec => [](TypeOK /\ AssemblyInv)
<1>1. Init => TypeOK /\ Discipline /\ Accounts
  BY TypeInit, DisciplineInit, AccountsInit
<1>2. TypeOK /\ AssemblyInv /\ [Next]_vars => TypeOK' /\ Discipline' /\ Accounts'
  BY TypeStep, DisciplineStep, AccountsStep DEF AssemblyInv
<1>3. TypeOK /\ Discipline /\ Accounts <=> TypeOK /\ AssemblyInv
  BY Layers
<1> QED
  BY <1>1, <1>2, <1>3, PTL DEF Spec

(* Every signal with a key that a request has taken is buffered, in a record of *)
(* the sink, or counted as late, in every interleaving (buffer, emit,           *)
(* discardPending, restoreReserved).                                           *)
THEOREM NoSignalLost == Spec => []EverySignalAccountedFor
<1>1. AssemblyInv => EverySignalAccountedFor
  BY DEF AssemblyInv
<1> QED
  BY <1>1, Inductive, PTL

(* What is buffered has a first-seen time, so that readyKeys finds it, and the  *)
(* count of pending signals is the number of items pending.                    *)
THEOREM BuffersAreIndexed == Spec => []BufferIndexed
<1>1. AssemblyInv => BufferIndexed
  BY DEF AssemblyInv
<1> QED
  BY <1>1, Inductive, PTL

(* Signals are pending only behind a reservation, and a reservation exists only *)
(* while an assembler holds the lock: none is forgotten by an early return.     *)
THEOREM NoPendingLeftBehind == Spec => []PendingOnlyBehindAWrite
<1>1. AssemblyInv => PendingOnlyBehindAWrite
  BY DEF AssemblyInv
<1> QED
  BY <1>1, Inductive, PTL

------------------------------------------------------------------------------
(* The counters.  Done is the number of records whose write was acknowledged.  *)
Done == IF Acking = {} THEN Len(written) ELSE Len(written) - 1
With(corr) == {n \in 1 .. Done : written[n].correlation = corr}

Tally ==
  /\ stats["emitted"] = Done
  /\ \A corr \in Correlation : stats[corr] = Cardinality(With(corr))
  /\ stats["merged"] + stats["logOnly"] + stats["spanOnly"] = Done
  /\ stats["logRecordsSeen"] + stats["spansSeen"] = Cardinality(taken)

(* At most one record is between its write and its acknowledgement.           *)
LEMMA AckingAtMostOne ==
  ASSUME TypeOK, AssemblyInv
  PROVE  /\ Acking # {} => \E c \in Caller : Acking = {c}
         /\ Done \in Nat /\ Done = Len(written) - Cardinality(Acking)
         /\ \A n \in 1 .. Done : n \in DOMAIN written
<1>1. Len(written) \in Nat /\ DOMAIN written = 1 .. Len(written)
  BY DEF TypeOK
<1>2. CASE Acking = {}
  BY <1>1, <1>2, FS_EmptySet DEF Done
<1>3. CASE Acking # {}
  <2>1. PICK c \in Caller : c \in Acking
    BY <1>3 DEF Acking
  <2>2. Acking = {c}
    BY <2>1, OnlyHolder DEF AssemblyInv, Discipline, Acking, Holding
  <2>3. Cardinality(Acking) = 1
    BY <2>2, FS_Singleton
  <2>4. Len(written) # 0
    BY <1>1, <1>3 DEF AssemblyInv, SnapshotCovers, TypeOK
  <2>5. Done = Len(written) - 1
    BY <1>3 DEF Done
  <2>6. Done \in Nat /\ Done = Len(written) - Cardinality(Acking)
    BY <1>1, <2>3, <2>4, <2>5
  <2>7. \A n \in 1 .. Done : n \in DOMAIN written
    BY <1>1, <2>5
  <2> QED
    BY <2>2, <2>6, <2>7
<1> QED
  BY <1>2, <1>3

LEMMA TallyIsHistory ==
  ASSUME TypeOK, AssemblyInv, Tally
  PROVE  StatsMatchHistory
<1> DEFINE done == SubSeq(written, 1, Len(written) - Cardinality(Acking))
<1>1. Done \in Nat /\ Done = Len(written) - Cardinality(Acking)
  BY AckingAtMostOne
<1>2. written \in Seq(Execution) /\ Len(written) \in Nat /\ Done \in 0 .. Len(written)
  BY <1>1 DEF TypeOK, Done
<1>3. done = SubSeq(written, 1, Done)
  BY <1>1
<1>4. Len(done) = Done /\ DOMAIN done = 1 .. Done /\ \A n \in 1 .. Done : done[n] = written[n]
  <2>1. \A i \in 1 .. Done : written[i] \in Execution
    BY <1>2
  <2> HIDE DEF done
  <2>2. /\ done \in Seq(Execution) /\ Len(done) = IF 1 <= Done THEN Done - 1 + 1 ELSE 0
        /\ \A i \in 1 .. Done - 1 + 1 : done[i] = written[1 + i - 1]
    BY <1>1, <1>3, <2>1, SubSeqProperties, Z3
  <2>3. Len(done) = Done /\ Done - 1 + 1 = Done
    BY <1>1, <2>2
  <2>4. \A i \in 1 .. Done : done[i] = written[i]
    BY <1>1, <2>2, <2>3
  <2> QED
    BY <2>2, <2>3, <2>4
<1> HIDE DEF done
<1>5. \A corr : {n \in DOMAIN done : done[n].correlation = corr} = With(corr)
  BY <1>4 DEF With
<1>6. /\ stats["emitted"] = Len(done)
      /\ \A corr \in Correlation :
           stats[corr] = Cardinality({n \in DOMAIN done : done[n].correlation = corr})
      /\ stats["merged"] + stats["logOnly"] + stats["spanOnly"] = Len(done)
      /\ stats["logRecordsSeen"] + stats["spansSeen"] = Cardinality(taken)
  BY <1>4, <1>5 DEF Tally
<1> QED
  BY <1>6 DEF StatsMatchHistory, done

Counters == {"emitted", "merged", "logOnly", "spanOnly", "logRecordsSeen", "spansSeen"}
              \cup Correlation

(* Steps that neither write, nor acknowledge, nor read an item.               *)
LEMMA TallyUnchanged ==
  ASSUME Tally, UNCHANGED <<written, taken>>, Acking' = Acking,
         \A n \in Counters : stats'[n] = stats[n]
  PROVE  Tally'
<1>1. Done' = Done
  BY DEF Done
<1>2. \A corr : With(corr)' = With(corr)
  BY <1>1 DEF With
<1> QED
  BY <1>1, <1>2 DEF Tally, Counters

LEMMA TallyReceive ==
  ASSUME TypeOK, AssemblyInv, Tally, NEW c \in Caller, Receive(c)
  PROVE  Tally'
<1>1. PICK i \in Telemetry \ taken : taken' = taken \cup {i}
  BY DEF Receive
<1>2. Cardinality(taken') = Cardinality(taken) + 1
  BY <1>1, FS_AddElement DEF AssemblyInv, EachItemOnce
<1>3. UNCHANGED <<written, pc>> /\ Count({IF call[c] = "logs" THEN "logRecordsSeen" ELSE "spansSeen"})
  BY DEF Receive
<1>4. Done' = Done /\ \A corr : With(corr)' = With(corr)
  BY <1>3 DEF Done, Acking, With
<1>5. /\ stats \in [StatName -> Nat] /\ Counters \subseteq StatName
  BY DEF TypeOK, Counters, StatName, Correlation
<1>6. /\ \A n \in Counters \ {"logRecordsSeen", "spansSeen"} : stats'[n] = stats[n]
      /\ stats'["logRecordsSeen"] + stats'["spansSeen"]
           = stats["logRecordsSeen"] + stats["spansSeen"] + 1
  BY <1>3, <1>5 DEF Count, Counters
<1>7. \A corr \in Correlation : corr \in Counters \ {"logRecordsSeen", "spansSeen"}
  BY DEF Counters, Correlation
<1> QED
  BY <1>2, <1>4, <1>6, <1>7 DEF Tally, Counters

LEMMA TallyWriteOK ==
  ASSUME TypeOK, AssemblyInv, Tally, NEW c \in Caller, WriteOK(c)
  PROVE  Tally'
<1>1. PICK r \in batch : written' = Append(written, r.ex)
  BY DEF WriteOK
<1>2. pc[c] = "write" /\ pc' = [pc EXCEPT ![c] = "ack"] /\ UNCHANGED <<stats, taken>>
  BY DEF WriteOK, GoTo
<1>3. Acking = {} /\ c \in Acking'
  BY <1>2, NoOtherAck DEF Holding, Acking, TypeOK
<1>4. /\ Len(written') = Len(written) + 1 /\ Len(written) \in Nat
      /\ \A n \in 1 .. Len(written) : written'[n] = written[n]
  BY <1>1 DEF TypeOK, Assembled
<1>5. Done' = Done /\ Done = Len(written)
  BY <1>3, <1>4 DEF Done
<1>6. \A corr : With(corr)' = With(corr)
  BY <1>4, <1>5 DEF With
<1> QED
  BY <1>2, <1>5, <1>6 DEF Tally

(* The acknowledged record is the last one in the sink, and is counted.       *)
LEMMA TallyAck ==
  ASSUME TypeOK, AssemblyInv, Tally, NEW c \in Caller, Ack(c)
  PROVE  Tally'
<1>1. PICK r \in batch :
        /\ IsFirst(r)
        /\ stats' = [n \in StatName |->
             CASE n = "late"              -> stats[n] + Discarded(r)
               [] n = "parentsSuppressed" -> stats[n] + r.parentsSuppressed
               [] n \in Tallied(r)        -> stats[n] + 1
               [] OTHER                   -> stats[n]]
  BY DEF Ack
<1>2. pc[c] = "ack" /\ pc' = [pc EXCEPT ![c] = "emit"] /\ UNCHANGED <<written, taken>>
  BY DEF Ack, GoTo
<1>3. c \in Acking /\ Acking' = {}
  <2>1. \A d \in Caller : d # c => pc[d] # "ack"
    BY <1>2, OnlyHolder DEF AssemblyInv, Discipline, Holding
  <2> QED
    BY <1>2, <2>1 DEF Acking, TypeOK
<1>4. written # << >> /\ r.ex = written[Len(written)]
  BY <1>1, <1>3 DEF AssemblyInv, SnapshotCovers
<1>5. Len(written) \in Nat /\ Len(written) # 0
  BY <1>4 DEF TypeOK
<1>6. Done = Len(written) - 1 /\ Done' = Done + 1 /\ Done \in Nat /\ r.ex = written[Done']
  BY <1>2, <1>3, <1>4, <1>5 DEF Done
<1>7. stats \in [StatName -> Nat] /\ Counters \subseteq StatName
  BY DEF TypeOK, Counters, StatName, Correlation
<1>8. /\ Tallied(r) = {"emitted", r.ex.correlation, EmittedClass(r)}
      /\ EmittedClass(r) \in {"merged", "logOnly", "spanOnly"}
      /\ r.ex.correlation \in Correlation
  BY TalliedNames DEF Tallied, TypeOK, Assembled, Execution, Record
<1>9. \A n \in Counters : stats'[n] = IF n \in Tallied(r) THEN stats[n] + 1 ELSE stats[n]
  <2>1. "late" \notin Counters /\ "parentsSuppressed" \notin Counters
    BY DEF Counters, Correlation
  <2> QED
    BY <1>1, <1>7, <2>1
<1>10. stats'["emitted"] = Done'
  BY <1>6, <1>8, <1>9 DEF Tally, Counters
<1>11. stats'["merged"] + stats'["logOnly"] + stats'["spanOnly"] = Done'
  <2>1. /\ stats["merged"] \in Nat /\ stats["logOnly"] \in Nat /\ stats["spanOnly"] \in Nat
        /\ stats["merged"] + stats["logOnly"] + stats["spanOnly"] = Done
    BY <1>7 DEF Tally, Counters
  <2>2. ASSUME NEW n \in {"merged", "logOnly", "spanOnly"}
        PROVE  stats'[n] = IF n = EmittedClass(r) THEN stats[n] + 1 ELSE stats[n]
    BY <1>8, <1>9 DEF Counters, Correlation
  <2>3. CASE EmittedClass(r) = "merged"
    BY <1>6, <2>1, <2>2, <2>3
  <2>4. CASE EmittedClass(r) = "logOnly"
    BY <1>6, <2>1, <2>2, <2>4
  <2>5. CASE EmittedClass(r) = "spanOnly"
    BY <1>6, <2>1, <2>2, <2>5
  <2> QED
    BY <1>8, <2>3, <2>4, <2>5
<1>12. stats'["logRecordsSeen"] + stats'["spansSeen"] = Cardinality(taken')
  <2>1. /\ stats'["logRecordsSeen"] = stats["logRecordsSeen"]
        /\ stats'["spansSeen"] = stats["spansSeen"]
    BY <1>8, <1>9 DEF Counters, Correlation
  <2> QED
    BY <1>2, <2>1 DEF Tally
<1>13. ASSUME NEW corr \in Correlation
       PROVE  stats'[corr] = Cardinality(With(corr)')
  <2>1. corr \in Counters /\ (corr \in Tallied(r) <=> corr = r.ex.correlation)
    BY <1>8 DEF Counters, Correlation
  <2>2. With(corr)' = IF r.ex.correlation = corr THEN With(corr) \cup {Done'} ELSE With(corr)
    BY <1>2, <1>6 DEF With
  <2>3. Done' \notin With(corr)
    BY <1>6 DEF With
  <2>4. IsFiniteSet(With(corr))
    <3>1. With(corr) \in SUBSET (1 .. Done)
      BY DEF With
    <3>2. 1 \in Int /\ Done \in Int
      BY <1>6
    <3>3. IsFiniteSet(1 .. Done)
      BY <3>2, FS_Interval
    <3> QED
      BY <3>1, <3>3, FS_Subset
  <2>5. stats[corr] = Cardinality(With(corr))
    BY DEF Tally
  <2>6. Cardinality(With(corr) \cup {Done'}) = Cardinality(With(corr)) + 1
    BY <2>3, <2>4, FS_AddElement
  <2>7. stats'[corr] = IF corr = r.ex.correlation THEN stats[corr] + 1 ELSE stats[corr]
    BY <1>9, <2>1
  <2> QED
    BY <2>2, <2>5, <2>6, <2>7
<1> QED
  BY <1>10, <1>11, <1>12, <1>13 DEF Tally

LEMMA TallyStep == TypeOK /\ AssemblyInv /\ Tally /\ [Next]_vars => Tally'
<1> SUFFICES ASSUME TypeOK, AssemblyInv, Tally, [Next]_vars PROVE Tally'
  OBVIOUS
<1>0. /\ stats \in [StatName -> Nat] /\ Counters \subseteq StatName
      /\ {"toolCallsIgnored", "unjoinable", "late", "sinkFailures"} \cap Counters = {}
  BY DEF TypeOK, Counters, StatName, Correlation
<1>1. CASE UNCHANGED vars
  BY <1>1, TallyUnchanged DEF vars, Acking
<1>2. CASE Tick
  BY <1>2, TallyUnchanged DEF Tick, Acking
<1>3. ASSUME NEW c \in Caller, StartConsume(c) \/ EndRequest(c) \/ StartFlush(c) PROVE Tally'
  <2>1. UNCHANGED <<written, taken, stats>>
    BY <1>3 DEF StartConsume, EndRequest, StartFlush
  <2>2. /\ pc' \in {[pc EXCEPT ![c] = l] : l \in {"idle", "loop", "assemble"}}
        /\ pc[c] # "ack"
    BY <1>3 DEF StartConsume, EndRequest, StartFlush, GoTo
  <2>3. Acking' = Acking
    BY <2>2 DEF Acking, TypeOK
  <2> QED
    BY <2>1, <2>3, TallyUnchanged
<1>4. ASSUME NEW c \in Caller, Buffer(c) PROVE Tally'
  <2>1. UNCHANGED <<written, taken, pc>>
    BY <1>4 DEF Buffer
  <2>2. \/ UNCHANGED stats
        \/ \E reason \in {"toolCallsIgnored", "unjoinable", "late"} : Count({reason})
    BY <1>4 DEF Buffer, Drop, AddPending, AddActive
  <2>3. \A n \in Counters : stats'[n] = stats[n]
    BY <1>0, <2>2 DEF Count
  <2> QED
    BY <2>1, <2>3, TallyUnchanged DEF Acking
<1>5. ASSUME NEW c \in Caller, TryEmit(c) \/ WriteFail(c) \/ Claim(c) \/ Finish(c) \/ Restore(c)
      PROVE  Tally'
  <2>1. /\ UNCHANGED <<written, taken>>
        /\ pc' \in {[pc EXCEPT ![c] = l] : l \in {"idle", "emit", "write", "restore"}}
        /\ pc[c] # "ack"
    BY <1>5 DEF TryEmit, WriteFail, Claim, Finish, Restore, Return, GoTo
  <2>2. Acking' = Acking
    BY <2>1 DEF Acking, TypeOK
  <2>3. UNCHANGED stats \/ Count({"sinkFailures"})
    BY <1>5 DEF TryEmit, WriteFail, Claim, Finish, Restore
  <2>4. \A n \in Counters : stats'[n] = stats[n]
    BY <1>0, <2>3 DEF Count
  <2> QED
    BY <2>1, <2>2, <2>4, TallyUnchanged
<1>6. ASSUME NEW c \in Caller, Skip(c) PROVE Tally'
  BY <1>6, TallyUnchanged DEF Skip, Acking
<1> QED
  BY <1>1, <1>2, <1>3, <1>4, <1>5, <1>6, TallyReceive, TallyWriteOK, TallyAck
     DEF Next, Ingest, Assemble, Sink

LEMMA TallyInit == Init => Tally
<1> SUFFICES ASSUME Init PROVE Tally
  OBVIOUS
<1>1. /\ written = << >> /\ taken = {} /\ Acking = {} /\ \A n \in Counters : stats[n] = 0
  BY DEF Init, Acking, Counters, StatName, Correlation
<1>2. Done = 0 /\ Len(written) = 0
  BY <1>1 DEF Done
<1>3. \A corr : With(corr) = {}
  BY <1>2 DEF With
<1>4. \A corr \in Correlation : stats[corr] = Cardinality(With(corr))
  BY <1>1, <1>3, FS_EmptySet DEF Counters
<1>5. /\ stats["emitted"] = 0 /\ stats["merged"] + stats["logOnly"] + stats["spanOnly"] = 0
      /\ stats["logRecordsSeen"] + stats["spansSeen"] = 0
  BY <1>1 DEF Counters
<1>6. Cardinality(taken) = 0
  BY <1>1, FS_EmptySet
<1> QED
  BY <1>2, <1>4, <1>5, <1>6 DEF Tally

(* The counters never drift from what was read and written: one emission, one   *)
(* correlation and one origin per acknowledged record (count and emit).        *)
THEOREM CountersAddUp == Spec => []StatsMatchHistory
<1>1. Init => Tally
  BY TallyInit
<1>2. TypeOK /\ AssemblyInv /\ Tally /\ [Next]_vars => Tally'
  BY TallyStep
<1>3. TypeOK /\ AssemblyInv /\ Tally => StatsMatchHistory
  BY TallyIsHistory
<1> QED
  BY <1>1, <1>2, <1>3, Inductive, PTL DEF Spec

------------------------------------------------------------------------------
(* What a step may never do.                                                  *)

(* A key that is ready is reserved by the assembly, unless a client span that   *)
(* names it as its parent claims it and is itself not ready or claimed.        *)
LEMMA ClaimReserves ==
  ASSUME TypeOK, AssemblyInv, NEW c \in Caller, Claim(c), NEW k \in Ready(cutoff[c])
  PROVE  \/ k \in inFlight'
         \/ \E child \in Children(k) \ {k} :
              \/ child \notin Ready(cutoff[c])
              \/ Children(child) \ {child} # {}
<1>1. PICK childOf \in ChildOf :
        batch' = {AssembleKey(j) : j \in {i \in Ready(cutoff[c]) :
                    ~ClaimedBy(childOf, i) /\ (spans[i] # None \/ logs[i] # None)}}
  BY DEF Claim
<1>2. inFlight' = inFlight \cup UNION {Consumed(r) : r \in batch'}
  BY DEF Claim
<1>3. k \in Key /\ firstSeen[k] # None
  BY DEF Ready
<1>4. spans[k] # None \/ logs[k] # None
  BY <1>3 DEF AssemblyInv, BufferIndexed
<1>5. ASSUME NEW j \in Ready(cutoff[c]), ~ClaimedBy(childOf, j), spans[j] # None \/ logs[j] # None
      PROVE  Consumed(AssembleKey(j)) \subseteq inFlight'
  <2>1. AssembleKey(j) \in batch'
    BY <1>1, <1>5
  <2> QED
    BY <1>2, <2>1
<1>6. CASE ~ClaimedBy(childOf, k)
  <2>1. AssembleKey(k).key = k
    BY DEF AssembleKey
  <2> QED
    BY <1>4, <1>5, <1>6, <2>1 DEF Consumed
<1>7. CASE ClaimedBy(childOf, k)
  <2> DEFINE child == childOf[k]
  <2>1. child \in Children(k) /\ child # k
    BY <1>7 DEF ClaimedBy, ChildOf
  <2> HIDE DEF child
  <2>2. child \in Key /\ ParentOf(child) = k /\ k # None
    BY <1>3, <2>1, Constants DEF Children
  <2>3. spans[child] # None
    BY <2>2 DEF ParentOf
  <2>4. CASE child \notin Ready(cutoff[c])
    BY <2>1, <2>4
  <2>5. CASE child \in Ready(cutoff[c]) /\ ~ClaimedBy(childOf, child)
    <3>1. AssembleKey(child).parent = k
      BY <1>4, <2>2 DEF AssembleKey
    <3> QED
      BY <1>5, <2>2, <2>3, <2>5, <3>1 DEF Consumed
  <2>6. CASE ClaimedBy(childOf, child)
    <3>1. childOf[child] \in Children(child) /\ childOf[child] # child
      BY <2>6 DEF ClaimedBy, ChildOf
    <3> QED
      BY <2>1, <3>1
  <2> QED
    BY <2>4, <2>5, <2>6
<1> QED
  BY <1>6, <1>7

(* An assembly by age passes over no expired key without a reason (readyKeys    *)
(* and the claim loop of assemble).                                            *)
THEOREM NothingExpiredLeftBehind == Spec => ExpiredAreReserved
<1> DEFINE Covered ==
      \A c \in Caller : Claim(c) /\ cutoff[c] # None =>
        \A k \in Key : firstSeen[k] # None /\ firstSeen[k] < cutoff[c] =>
          \/ k \in inFlight'
          \/ \E child \in Children(k) \ {k} :
               firstSeen[child] >= cutoff[c] \/ Children(child) \ {child} # {}
<1>1. TypeOK /\ AssemblyInv /\ [Next]_vars => [Covered]_vars
  <2> SUFFICES ASSUME TypeOK, AssemblyInv, NEW c \in Caller, Claim(c), cutoff[c] # None,
                      NEW k \in Key, firstSeen[k] # None, firstSeen[k] < cutoff[c]
               PROVE  \/ k \in inFlight'
                      \/ \E child \in Children(k) \ {k} :
                           firstSeen[child] >= cutoff[c] \/ Children(child) \ {child} # {}
    OBVIOUS
  <2>1. k \in Ready(cutoff[c])
    BY DEF Ready
  <2>2. ASSUME NEW child \in Children(k), child \notin Ready(cutoff[c])
        PROVE  firstSeen[child] >= cutoff[c]
    <3>1. child \in Key /\ spans[child] # None
      BY Constants DEF Children, ParentOf
    <3>2. firstSeen[child] # None
      BY <3>1 DEF AssemblyInv, BufferIndexed
    <3>3. firstSeen[child] \in Int /\ cutoff[c] \in Int
      BY <3>1, <3>2 DEF TypeOK
    <3> QED
      BY <2>2, <3>1, <3>2, <3>3 DEF Ready
  <2> QED
    BY <2>1, <2>2, ClaimReserves
<1>2. Spec => [][Covered]_vars
  BY <1>1, Inductive, PTL DEF Spec
<1> QED
  BY <1>2 DEF ExpiredAreReserved

(* A flush reserves every buffered key, except the end of a chain of client     *)
(* spans that name each other as parents (assemble with a zero cutoff).        *)
FlushReservesUnlessChained ==
  [][ \A c \in Caller : Claim(c) /\ cutoff[c] = None =>
        \A k \in Key : firstSeen[k] # None =>
          \/ k \in inFlight'
          \/ \E child \in Children(k) \ {k} : Children(child) \ {child} # {} ]_vars

(* FlushReservesUnlessChained of every assembly with a zero cutoff (assemble;   *)
(* the unconditional form is what doc_flush_chain refutes).                    *)
THEOREM FlushLeavesOnlyChains == Spec => FlushReservesUnlessChained
<1> DEFINE Covered ==
      \A c \in Caller : Claim(c) /\ cutoff[c] = None =>
        \A k \in Key : firstSeen[k] # None =>
          \/ k \in inFlight'
          \/ \E child \in Children(k) \ {k} : Children(child) \ {child} # {}
<1>1. TypeOK /\ AssemblyInv /\ [Next]_vars => [Covered]_vars
  <2> SUFFICES ASSUME TypeOK, AssemblyInv, NEW c \in Caller, Claim(c), cutoff[c] = None,
                      NEW k \in Key, firstSeen[k] # None
               PROVE  \/ k \in inFlight'
                      \/ \E child \in Children(k) \ {k} : Children(child) \ {child} # {}
    OBVIOUS
  <2>1. k \in Ready(cutoff[c])
    BY DEF Ready
  <2>2. ASSUME NEW child \in Children(k)
        PROVE  child \in Ready(cutoff[c])
    <3>1. child \in Key /\ spans[child] # None
      BY Constants DEF Children, ParentOf
    <3>2. firstSeen[child] # None
      BY <3>1 DEF AssemblyInv, BufferIndexed
    <3> QED
      BY <3>1, <3>2 DEF Ready
  <2> QED
    BY <2>1, <2>2, ClaimReserves
<1>2. Spec => [][Covered]_vars
  BY <1>1, Inductive, PTL DEF Spec
<1> QED
  BY <1>2 DEF FlushReservesUnlessChained

(* The wait of a key is never restarted: a first-seen time stays what it is     *)
(* until the key is deleted (buffer, emit and mergePendingIntoActive).         *)
THEOREM WaitsOnlyOnce == Spec => WaitNeverRestarts
<1> DEFINE Kept == \A k \in Key : firstSeen[k] # None /\ firstSeen'[k] # None
                                    => firstSeen'[k] <= firstSeen[k]
<1>1. TypeOK /\ [Next]_vars => [Kept]_vars
  <2> SUFFICES ASSUME TypeOK, Next, NEW k \in Key, firstSeen[k] # None, firstSeen'[k] # None
               PROVE  firstSeen'[k] = firstSeen[k] /\ firstSeen[k] \in Int
    OBVIOUS
  <2>1. firstSeen[k] \in Int
    BY DEF TypeOK
  <2>2. CASE UNCHANGED firstSeen
    BY <2>1, <2>2
  <2>3. ASSUME NEW c \in Caller, Buffer(c) PROVE firstSeen'[k] = firstSeen[k]
    <3>1. CASE UNCHANGED firstSeen
      BY <3>1
    <3>2. CASE AddActive(item[c])
      <4>1. firstSeen' = Stamp(firstSeen, item[c].ex.key)
        BY <3>2 DEF AddActive, Add
      <4> QED
        BY <4>1 DEF Stamp, Either, TypeOK
    <3> QED
      BY <2>3, <3>1, <3>2 DEF Buffer, Drop, AddPending, active
  <2>4. ASSUME NEW c \in Caller, Ack(c) PROVE firstSeen'[k] = firstSeen[k]
    BY <2>4 DEF Ack, Cleared
  <2>5. ASSUME NEW c \in Caller, Restore(c) PROVE firstSeen'[k] = firstSeen[k]
    BY <2>5 DEF Restore, MergePendingIntoActive, Either
  <2>6. \/ UNCHANGED firstSeen
        \/ \E c \in Caller : Buffer(c) \/ Ack(c) \/ Restore(c)
    BY DEF Next, Tick, Ingest, Assemble, Sink, StartConsume, Receive, EndRequest, StartFlush, Claim,
           Finish, Skip, TryEmit, WriteOK, WriteFail, active
  <2> QED
    BY <2>1, <2>2, <2>3, <2>4, <2>5, <2>6
<1>2. Spec => [][Kept]_vars
  BY <1>1, TypeCorrect, PTL DEF Spec
<1> QED
  BY <1>2 DEF WaitNeverRestarts

==============================================================================
