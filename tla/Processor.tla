------------------------------ MODULE Processor ------------------------------
(***************************************************************************)
(* The assembler, internal/bridge.Processor.  OTLP requests and the final  *)
(* flush run in goroutines of their own (Caller).  A request buffers its   *)
(* records one by one and then assembles what has waited long enough; a    *)
(* flush assembles everything.  Assemblers are serialized by assembleMu,   *)
(* held across the sink writes; everything else is guarded by mu, taken    *)
(* for one critical section at a time, so each action below is one such    *)
(* section (or one sink write, during which mu is not held).               *)
(*                                                                         *)
(* Maps are total functions on Key with None where Go has no entry.  A     *)
(* telemetry item is what normalize returned for one OTLP record; the      *)
(* observer identity, constant after startup, is part of its source.  The  *)
(* sink is abstract: a write appends one record or fails and appends       *)
(* nothing, the promise of AppendLog, which JSONLSink keeps.               *)
(***************************************************************************)
EXTENDS Observation, Sequences

CONSTANTS
  Caller,         \* goroutines that call ConsumeLogRecords, ConsumeSpans or Flush
  Flusher,        \* those that may call Flush (shutdown does, once requests have drained)
  Telemetry,      \* items the exporters send, each delivered at most once
  MaxWait,        \* maxWait: 0 assembles on Flush only
  MaxTime,        \* bound: the clock stops here
  MaxSinkFailures \* bound: sink writes that fail

Item == [ id : SigId, signal : Signal, toolCall : BOOLEAN, joinable : BOOLEAN, ex : Execution ]

ASSUME ProcessorAssumption ==
  /\ Telemetry \subseteq Item
  /\ \A i, j \in Telemetry : i.id = j.id => i = j
  /\ \A i \in Telemetry : i.ex.sigs = {i.id}
  /\ MaxWait \in Nat /\ MaxTime \in Nat /\ MaxSinkFailures \in Nat
  /\ Flusher \subseteq Caller
  /\ None \notin Caller \cup Item

(* One assembledExecution.  parent is the second consumed key, None if there   *)
(* was nothing under it.                                                       *)
Assembled == [ key : Key, parent : Key \cup {None}, ex : Execution,
               both : BOOLEAN, loggy : BOOLEAN, parentsSuppressed : {0, 1} ]

StatName == {"logRecordsSeen", "spansSeen", "toolCallsIgnored", "unjoinable", "late", "sinkFailures", "emitted",
             "merged", "logOnly", "spanOnly", "parentsSuppressed",
             "correlated", "unattributed", "ambiguous"}

VARIABLES
  now,              \* the clock
  taken,            \* items a request has read
  pc,               \* where each caller is
  call,             \* what it was called for: a signal to consume, or "flush"
  item,             \* the record the loop over the request is at, None between two
  cutoff,           \* the cutoff passed to assemble; None is the zero time
  assembleMu,       \* holder of the assembly lock
  batch,            \* the holder's assembled records, not yet emitted
  spans, logs, firstSeen,                       \* the active generation
  pendingSpans, pendingLogs, pendingFirstSeen,  \* arrivals during a write of their key
  pendingSignals,   \* how many
  inFlight,         \* keys whose record is being written
  emitted,          \* keys finalized
  stats,            \* counters
  written           \* the records in the sink

active  == <<spans, logs, firstSeen>>
pending == <<pendingSpans, pendingLogs, pendingFirstSeen, pendingSignals>>
vars == <<now, taken, pc, call, item, cutoff, assembleMu, batch, active, pending,
          inFlight, emitted, stats, written>>

Label == {"idle", "loop", "assemble", "emit", "write", "ack", "restore"}

TypeOK ==
  /\ now \in 0 .. MaxTime
  /\ taken \subseteq Telemetry
  /\ pc \in [Caller -> Label]
  /\ call \in [Caller -> Signal \cup {"none", "flush"}]
  /\ item \in [Caller -> Telemetry \cup {None}]
  /\ cutoff \in [Caller -> Int \cup {None}]
  /\ assembleMu \in Caller \cup {None}
  /\ batch \subseteq Assembled
  /\ spans \in [Key -> Execution \cup {None}]
  /\ logs \in [Key -> Execution \cup {None}]
  /\ firstSeen \in [Key -> Nat \cup {None}]
  /\ pendingSpans \in [Key -> Execution \cup {None}]
  /\ pendingLogs \in [Key -> Execution \cup {None}]
  /\ pendingFirstSeen \in [Key -> Nat \cup {None}]
  /\ pendingSignals \in [Key -> Nat]
  /\ inFlight \subseteq Key
  /\ emitted \subseteq Key
  /\ stats \in [StatName -> Nat]
  /\ written \in Seq(Execution)

Nothing == [k \in Key |-> None]

Init ==
  /\ now = 0
  /\ taken = {}
  /\ pc = [c \in Caller |-> "idle"]
  /\ call = [c \in Caller |-> "none"]
  /\ item = [c \in Caller |-> None]
  /\ cutoff = [c \in Caller |-> None]
  /\ assembleMu = None
  /\ batch = {}
  /\ spans = Nothing /\ logs = Nothing /\ firstSeen = Nothing
  /\ pendingSpans = Nothing /\ pendingLogs = Nothing /\ pendingFirstSeen = Nothing
  /\ pendingSignals = [k \in Key |-> 0]
  /\ inFlight = {}
  /\ emitted = {}
  /\ stats = [n \in StatName |-> 0]
  /\ written = << >>

------------------------------------------------------------------------------
(* Small helpers on the maps and the counters.                                 *)
Count(names)    == stats' = [n \in StatName |-> IF n \in names THEN stats[n] + 1 ELSE stats[n]]
Cleared(m, K)   == [k \in Key |-> IF k \in K THEN None ELSE m[k]]
(* Mutant: every arrival sets the first-seen time. *)
StampRestarts(m, k) == [m EXCEPT ![k] = now]
Stamp(m, k)     == [m EXCEPT ![k] = Either(@, now)]
GoTo(c, label)  == pc' = [pc EXCEPT ![c] = label]
HasPending(k)   == pendingFirstSeen[k] # None
(* Mutant: arrivals during a write go to the active maps. *)
UsePendingIgnoresWrite(k) == HasPending(k)
UsePending(k)   == k \in inFlight \/ HasPending(k)
(* Mutant: a late signal is buffered like any other. *)
FinalizedNever(k) == FALSE
Finalized(k)    == k \in emitted
Consumed(r)     == {r.key} \cup ({r.parent} \ {None})
IsFirst(r)      == r \in batch /\ \A s \in batch : r.key <= s.key

Tick ==
  /\ now < MaxTime
  /\ now' = now + 1
  /\ UNCHANGED <<taken, pc, call, item, cutoff, assembleMu, batch, active, pending,
                 inFlight, emitted, stats, written>>

(* ConsumeLogRecords and ConsumeSpans: a request of one signal.               *)
StartConsume(c) ==
  /\ pc[c] = "idle"
  /\ \E signal \in Signal : call' = [call EXCEPT ![c] = signal]
  /\ GoTo(c, "loop")
  /\ UNCHANGED <<now, taken, item, cutoff, assembleMu, batch, active, pending,
                 inFlight, emitted, stats, written>>

Receive(c) ==
  /\ pc[c] = "loop" /\ item[c] = None
  /\ \E i \in Telemetry \ taken :
       /\ i.signal = call[c]
       /\ taken' = taken \cup {i}
       /\ item' = [item EXCEPT ![c] = i]
  /\ Count({IF call[c] = "logs" THEN "logRecordsSeen" ELSE "spansSeen"})
  /\ UNCHANGED <<now, pc, call, cutoff, assembleMu, batch, active, pending, inFlight,
                 emitted, written>>

Drop(c, reason) ==
  /\ Count({reason})
  /\ UNCHANGED <<active, pending>>

(* buffer: into the pending maps while the key is being written or already has *)
(* pending signals, into the active maps otherwise, never after it was emitted. *)
Add(dstSpans, dstLogs, dstFirstSeen, i) ==
  LET k == i.ex.key
      put(m) == [m EXCEPT ![k] = Join(@, i.ex)]
  IN  [ spans     |-> IF i.signal = "traces" THEN put(dstSpans) ELSE dstSpans,
        logs      |-> IF i.signal = "logs" THEN put(dstLogs) ELSE dstLogs,
        firstSeen |-> Stamp(dstFirstSeen, k) ]

AddActive(i) ==
  LET a == Add(spans, logs, firstSeen, i)
  IN  /\ spans' = a.spans /\ logs' = a.logs /\ firstSeen' = a.firstSeen
      /\ UNCHANGED <<pending, stats>>

AddPending(i) ==
  LET a == Add(pendingSpans, pendingLogs, pendingFirstSeen, i)
  IN  /\ pendingSpans' = a.spans /\ pendingLogs' = a.logs /\ pendingFirstSeen' = a.firstSeen
      /\ pendingSignals' = [pendingSignals EXCEPT ![i.ex.key] = @ + 1]
      /\ UNCHANGED <<active, stats>>

Buffer(c) ==
  LET i == item[c]
      k == i.ex.key
      joins == i.toolCall /\ i.joinable
  IN  /\ pc[c] = "loop" /\ i # None
      /\ \/ ~i.toolCall /\ Drop(c, "toolCallsIgnored")
         \/ i.toolCall /\ ~i.joinable /\ Drop(c, "unjoinable")
         \/ joins /\ Finalized(k) /\ Drop(c, "late")
         \/ joins /\ ~Finalized(k) /\ UsePending(k) /\ AddPending(i)
         \/ joins /\ ~Finalized(k) /\ ~UsePending(k) /\ AddActive(i)
      /\ item' = [item EXCEPT ![c] = None]
      /\ UNCHANGED <<now, taken, pc, call, cutoff, assembleMu, batch, inFlight, emitted, written>>

(* The end of the request: assembleExpired computes the cutoff, before it      *)
(* waits for assembleMu.                                                       *)
EndRequest(c) ==
  /\ pc[c] = "loop" /\ item[c] = None
  /\ IF MaxWait = 0
     THEN /\ GoTo(c, "idle")
          /\ call' = [call EXCEPT ![c] = "none"]
          /\ UNCHANGED cutoff
     ELSE /\ GoTo(c, "assemble")
          /\ cutoff' = [cutoff EXCEPT ![c] = now - MaxWait]
          /\ UNCHANGED call
  /\ UNCHANGED <<now, taken, item, assembleMu, batch, active, pending, inFlight,
                 emitted, stats, written>>

StartFlush(c) ==
  /\ c \in Flusher
  /\ pc[c] = "idle"
  /\ call' = [call EXCEPT ![c] = "flush"]
  /\ GoTo(c, "assemble")
  /\ UNCHANGED <<now, taken, item, cutoff, assembleMu, batch, active, pending,
                 inFlight, emitted, stats, written>>

------------------------------------------------------------------------------
(* assemble, from the acquisition of assembleMu to the reservation.            *)
(* Mutant: the zero cutoff is compared like any other. *)
ReadyIgnoresZero(limit) == {k \in Key : firstSeen[k] # None /\ limit # None /\ firstSeen[k] < limit}

(* Mutant: expired one tick too late. *)
ReadyLate(limit) ==
  {k \in Key : firstSeen[k] # None /\ (limit = None \/ firstSeen[k] < limit - 1)}

Ready(limit) ==
  {k \in Key : firstSeen[k] # None /\ (limit = None \/ firstSeen[k] < limit)}

ParentOf(k) ==
  IF spans[k] # None /\ spans[k].kind = "client" THEN spans[k].parent ELSE None

Children(p) == {k \in Key : ParentOf(k) = p}

(* childOf: of the client spans that name the same parent, the one the         *)
(* iteration over the spans map happens to visit last.                         *)
ChildOf == {f \in [{p \in Key : Children(p) # {}} -> Key] : \A p \in DOMAIN f : f[p] \in Children(p)}

(* Mutant: a claimed parent is assembled as well. *)
ClaimedByNone(childOf, k) == FALSE

ClaimedBy(childOf, k) == k \in DOMAIN childOf /\ childOf[k] # k

(* assembleKey and mergeParent.                                                *)
AssembleKey(k) ==
  LET p == ParentOf(k)
      parentSpan == IF p = None THEN None ELSE spans[p]
      parentLog  == IF p = None THEN None ELSE logs[p]
  IN  [ key    |-> k,
        parent |-> IF parentSpan = None /\ parentLog = None THEN None ELSE p,
        ex     |-> Join(Join(Join(spans[k], parentSpan), parentLog), logs[k]),
        both   |-> spans[k] # None /\ logs[k] # None,
        loggy  |-> spans[k] = None,
        parentsSuppressed |-> IF parentSpan = None THEN 0 ELSE 1 ]

(* Mutant: assemblers are not serialized. *)
LockFree(c) == assembleMu' = c

Lock(c) == assembleMu = None /\ assembleMu' = c

Claim(c) ==
  /\ pc[c] = "assemble"
  /\ Lock(c)
  /\ \E childOf \in ChildOf :
       batch' = {AssembleKey(k) : k \in {j \in Ready(cutoff[c]) :
                    ~ClaimedBy(childOf, j) /\ (spans[j] # None \/ logs[j] # None)}}
  /\ inFlight' = inFlight \cup UNION {Consumed(r) : r \in batch'}
  /\ GoTo(c, "emit")
  /\ UNCHANGED <<now, taken, call, item, cutoff, active, pending, emitted, stats, written>>

(* Mutant: assemble again until nothing is buffered. *)
ReturnWhenDrained(c) ==
  /\ GoTo(c, IF \E k \in Key : firstSeen[k] # None THEN "assemble" ELSE "idle")
  /\ call' = [call EXCEPT ![c] = "none"]
  /\ UNCHANGED cutoff
  /\ assembleMu' = None
  /\ batch' = {}

(* What every return from assemble does: the deferred unlock.                  *)
Return(c) ==
  /\ GoTo(c, "idle")
  /\ call' = [call EXCEPT ![c] = "none"]
  /\ cutoff' = [cutoff EXCEPT ![c] = None]
  /\ assembleMu' = None
  /\ batch' = {}

Finish(c) ==
  /\ pc[c] = "emit"
  /\ batch = {}
  /\ Return(c)
  /\ UNCHANGED <<now, taken, item, active, pending, inFlight, emitted, stats, written>>

(* emit, up to the unlock before the sink write: a key emitted meanwhile is    *)
(* skipped.                                                                    *)
Skip(c) ==
  /\ pc[c] = "emit"
  /\ \E r \in batch : IsFirst(r) /\ r.key \in emitted /\ batch' = batch \ {r}
  /\ UNCHANGED <<now, taken, pc, call, item, cutoff, assembleMu, active, pending,
                 inFlight, emitted, stats, written>>

TryEmit(c) ==
  /\ pc[c] = "emit"
  /\ \E r \in batch : IsFirst(r) /\ r.key \notin emitted
  /\ GoTo(c, "write")
  /\ UNCHANGED <<now, taken, call, item, cutoff, assembleMu, batch, active, pending,
                 inFlight, emitted, stats, written>>

(* sink.Write, with mu released.                                               *)
WriteOK(c) ==
  /\ pc[c] = "write"
  /\ \E r \in batch : IsFirst(r) /\ written' = Append(written, r.ex)
  /\ GoTo(c, "ack")
  /\ UNCHANGED <<now, taken, call, item, cutoff, assembleMu, batch, active, pending,
                 inFlight, emitted, stats>>

WriteFail(c) ==
  /\ pc[c] = "write"
  /\ stats["sinkFailures"] < MaxSinkFailures
  /\ Count({"sinkFailures"})
  /\ GoTo(c, "restore")
  /\ UNCHANGED <<now, taken, call, item, cutoff, assembleMu, batch, active, pending,
                 inFlight, emitted, written>>

(* Mutant: the count of pending signals is not deleted. *)
NoSignalsKept(K) == pendingSignals

NoSignals(K) == [k \in Key |-> IF k \in K THEN 0 ELSE pendingSignals[k]]

(* Mutant: pending signals outlive the acknowledgement. *)
DiscardPendingKeeps(K) == UNCHANGED pending

(* discardPending, for every consumed key.                                      *)
DiscardPending(K) ==
  /\ pendingSpans' = Cleared(pendingSpans, K)
  /\ pendingLogs' = Cleared(pendingLogs, K)
  /\ pendingFirstSeen' = Cleared(pendingFirstSeen, K)
  /\ pendingSignals' = NoSignals(K)

(* Mutant: what was pending under the parent is not counted. *)
DiscardedOwnKey(r) == pendingSignals[r.key]

Discarded(r) ==
  pendingSignals[r.key] + (IF r.parent \in {None, r.key} THEN 0 ELSE pendingSignals[r.parent])

EmittedClass(r) ==
  CASE r.both \/ Cardinality(r.ex.seenFrom) > 1               -> "merged"
    [] ~r.both /\ Cardinality(r.ex.seenFrom) <= 1 /\ r.loggy  -> "logOnly"
    [] OTHER                                                  -> "spanOnly"

(* Mutant: no default branch in the count of correlations. *)
TalliedAttributed(r) == {"emitted", EmittedClass(r)} \cup ({r.ex.correlation} \ {"unattributed"})

Tallied(r) == {"emitted", r.ex.correlation, EmittedClass(r)}

(* emit after a successful write: every consumed key is deleted and finalized, *)
(* discardPending drops and counts what arrived under it meanwhile.            *)
Ack(c) ==
  /\ pc[c] = "ack"
  /\ \E r \in batch :
       /\ IsFirst(r)
       /\ batch' = batch \ {r}
       /\ spans' = Cleared(spans, Consumed(r))
       /\ logs' = Cleared(logs, Consumed(r))
       /\ firstSeen' = Cleared(firstSeen, Consumed(r))
       /\ DiscardPending(Consumed(r))
       /\ inFlight' = inFlight \ Consumed(r)
       /\ emitted' = emitted \cup Consumed(r)
       /\ stats' = [n \in StatName |->
            CASE n = "late"              -> stats[n] + Discarded(r)
              [] n = "parentsSuppressed" -> stats[n] + r.parentsSuppressed
              [] n \in Tallied(r)        -> stats[n] + 1
              [] OTHER                   -> stats[n]]
  /\ GoTo(c, "emit")
  /\ UNCHANGED <<now, taken, call, item, cutoff, assembleMu, written>>

(* restoreReserved: mergePendingIntoActive for every key of the records not     *)
(* written, then the return of the error.                                      *)
MergePendingIntoActive(K) ==
  LET folded(m, p) == [k \in Key |-> IF k \in K THEN Join(m[k], p[k]) ELSE m[k]]
  IN  /\ spans' = folded(spans, pendingSpans)
      /\ logs' = folded(logs, pendingLogs)
      /\ firstSeen' = [k \in Key |-> IF k \in K THEN Either(firstSeen[k], pendingFirstSeen[k])
                                                ELSE firstSeen[k]]
      /\ pendingSpans' = Cleared(pendingSpans, K)
      /\ pendingLogs' = Cleared(pendingLogs, K)
      /\ pendingFirstSeen' = Cleared(pendingFirstSeen, K)
      /\ pendingSignals' = NoSignals(K)

(* Mutant: only the failed record is rolled back, not the rest of the batch. *)
UnwrittenFirst == UNION {Consumed(r) : r \in {x \in batch : IsFirst(x)}}

Unwritten == UNION {Consumed(r) : r \in batch}

Restore(c) ==
  /\ pc[c] = "restore"
  /\ MergePendingIntoActive({k \in Unwritten : HasPending(k)})
  /\ inFlight' = inFlight \ Unwritten
  /\ Return(c)
  /\ UNCHANGED <<now, taken, item, emitted, stats, written>>

------------------------------------------------------------------------------
Ingest(c)   == StartConsume(c) \/ Receive(c) \/ Buffer(c) \/ EndRequest(c)
Assemble(c) == Claim(c) \/ Finish(c) \/ Skip(c) \/ TryEmit(c) \/ Ack(c) \/ Restore(c)
Sink(c)     == WriteOK(c) \/ WriteFail(c)

Next == Tick \/ \E c \in Caller : Ingest(c) \/ StartFlush(c) \/ Assemble(c) \/ Sink(c)

Spec == Init /\ [][Next]_vars

(* Fairness.  A goroutine that can run runs; the clock and the arrival of calls *)
(* are the environment's and are not fair.  A waiter of a Go mutex that waits   *)
(* for a millisecond is handed the lock (sync.Mutex starvation mode), hence     *)
(* strong fairness of Claim.  A sink write ends, one way or the other.          *)
Handling(c) == Receive(c) \/ Buffer(c) \/ EndRequest(c)
Emitting(c) == Finish(c) \/ Skip(c) \/ TryEmit(c) \/ Ack(c) \/ Restore(c)

GoroutinesRun == \A c \in Caller : /\ WF_vars(Handling(c))
                                  /\ WF_vars(Emitting(c))
                                  /\ SF_vars(Claim(c))
SinkAnswers   == \A c \in Caller : WF_vars(Sink(c))

FairSpec == Spec /\ GoroutinesRun /\ SinkAnswers

------------------------------------------------------------------------------
(* Properties.                                                                *)
SigsIn(m, K) == UNION {m[k].sigs : k \in {j \in K : m[j] # None}}
ActiveSigs(K)  == SigsIn(spans, K) \cup SigsIn(logs, K)
PendingSigs(K) == SigsIn(pendingSpans, K) \cup SigsIn(pendingLogs, K)
Recorded       == UNION {written[n].sigs : n \in DOMAIN written}
Accepted       == {i.id : i \in {j \in taken : /\ j.toolCall /\ j.joinable
                                              /\ \A c \in Caller : item[c] # j}}
Contributing(r) == {i.ex : i \in {j \in taken : j.id \in r.sigs}}
Acking         == {c \in Caller : pc[c] = "ack"}

(* Two assemblers, a retry after a failed write and a signal that arrives late  *)
(* all stay clear of a key that has its record: no key gets a second one.       *)
AtMostOncePerKey ==
  \A m, n \in DOMAIN written : m # n => written[m].key # written[n].key

(* A finalized key is never reopened: nothing of it is buffered, active or      *)
(* pending, and it is not reserved for a write.                                 *)
FinalizedStaysClosed ==
  \A k \in emitted : /\ spans[k] = None /\ logs[k] = None /\ firstSeen[k] = None
                     /\ pendingSpans[k] = None /\ pendingLogs[k] = None
                     /\ pendingFirstSeen[k] = None /\ pendingSignals[k] = 0
                     /\ k \notin inFlight

(* The maps are consistent with each other: what is buffered has a first-seen   *)
(* time, without which readyKeys would never find it, and the count of pending  *)
(* signals, later added to the late ones, is the number of items they hold.     *)
BufferIndexed ==
  \A k \in Key :
    /\ firstSeen[k] # None <=> spans[k] # None \/ logs[k] # None
    /\ HasPending(k) <=> pendingSpans[k] # None \/ pendingLogs[k] # None
    /\ pendingSignals[k] = Cardinality(PendingSigs({k}))

(* Signals are set aside only behind a write that is in progress, whose end     *)
(* brings them back or counts them: no assembly, no reservation, no pending.    *)
PendingOnlyBehindAWrite ==
  /\ \A k \in Key : HasPending(k) => k \in inFlight
  /\ inFlight # {} => assembleMu # None

(* The records being written stand for exactly what is still in the active maps *)
(* under the keys they will delete, although mu is released during the write:   *)
(* an acknowledgement deletes nothing that was not written, and a rollback      *)
(* still has everything to write again.                                         *)
SnapshotIsCurrent ==
  \A r \in batch : r.ex.sigs = ActiveSigs(Consumed(r))

(* Every signal with a key is buffered, in the sink, or counted as late, in     *)
(* every interleaving of requests, flushes and failed writes.                   *)
EverySignalAccountedFor ==
  LET held == ActiveSigs(Key) \cup PendingSigs(Key) \cup Recorded
  IN  /\ held \subseteq Accepted
      /\ Cardinality(Accepted \ held) = stats["late"]

(* The inductive invariant, in two layers.  Discipline (ProcessorProofs) is what  *)
(* AtMostOncePerKey needs: the lock is held from the claim to the return, the   *)
(* batch has one record per key, every map entry and record carries the key it  *)
(* is filed under, and what was written is finalized, except the record between *)
(* its write and its acknowledgement.                                           *)
Holding == {"emit", "write", "ack", "restore"}

LockHeld ==
  /\ \A c \in Caller : assembleMu = c <=> pc[c] \in Holding
  /\ batch # {} => assembleMu # None

Filed(m) == \A k \in Key : m[k] # None => m[k].key = k

FiledUnderItsKey ==
  /\ Filed(spans) /\ Filed(logs) /\ Filed(pendingSpans) /\ Filed(pendingLogs)
  /\ \A r \in batch : r.ex.key = r.key
  /\ \A r, s \in batch : r.key = s.key => r = s

WrittenIsFinalized ==
  /\ \A n \in DOMAIN written :
       \/ written[n].key \in emitted
       \/ /\ n = Len(written)
          /\ \E c \in Caller : pc[c] = "ack"
          /\ \E r \in batch : IsFirst(r) /\ r.key = written[n].key
  /\ \A c \in Caller : pc[c] = "write" => \A r \in batch : IsFirst(r) => r.key \notin emitted

Discipline == /\ LockHeld /\ FiledUnderItsKey /\ WrittenIsFinalized
              /\ FinalizedStaysClosed /\ AtMostOncePerKey

(* The second layer (ProcessorProofs) is what it takes to account for every     *)
(* signal.  The reservations are those of the batch, less what an earlier record *)
(* of the batch has finalized, and a record whose own key was finalized that way *)
(* (a span that names itself as its parent, claimed by another) has no other.    *)
ReservationsAreTheBatch ==
  /\ inFlight = Unwritten \ emitted
  /\ \A r \in batch : r.key \in emitted => Consumed(r) \subseteq emitted
  /\ \A r, s \in batch : r # s /\ r.key \in Consumed(s) => r.parent \in {None, r.key}

(* A record of the batch has all that is active under the keys it will delete,   *)
(* and the one about to be acknowledged is the last one in the sink.            *)
SnapshotCovers ==
  /\ \A r \in batch : ActiveSigs(Consumed(r)) \subseteq r.ex.sigs
  /\ Acking # {} => /\ written # << >>
                    /\ \A r \in batch : IsFirst(r) => r.ex = written[Len(written)]

(* An item is read by one caller, once.                                         *)
EachItemOnce ==
  /\ IsFiniteSet(taken)
  /\ \A c \in Caller : item[c] # None => item[c] \in taken
  /\ \A c, d \in Caller : item[c] # None /\ item[c] = item[d] => c = d

AcceptedUnder(k) ==
  {i.id : i \in {j \in taken : /\ j.toolCall /\ j.joinable /\ j.ex.key = k
                              /\ \A c \in Caller : item[c] # j}}

Batched == UNION {r.ex.sigs : r \in batch}

(* What a map holds under a key are accepted items of that key; what is pending  *)
(* is nowhere else, and what the batch was merged from is still active or        *)
(* already in the sink.                                                         *)
SignalsInPlace ==
  /\ \A k \in Key : ActiveSigs({k}) \cup PendingSigs({k}) \subseteq AcceptedUnder(k)
  /\ Recorded \subseteq Accepted
  /\ Batched \subseteq ActiveSigs(Key) \cup Recorded
  /\ \A k \in Key : PendingSigs({k}) \cap (ActiveSigs({k}) \cup Recorded) = {}

AssemblyInv ==
  /\ Discipline
  /\ ReservationsAreTheBatch /\ SnapshotCovers
  /\ BufferIndexed /\ PendingOnlyBehindAWrite
  /\ EachItemOnce /\ SignalsInPlace /\ EverySignalAccountedFor

(* Two client spans that name the same parent both take its span and its log, so *)
(* the second record repeats what the first finalized.  NoSharedParent excludes *)
(* that, and with it what is active under the keys of a record is that record's *)
(* alone: nothing else finalizes them, and nothing of it is in the sink yet.    *)
Joinable == {i \in Telemetry : i.toolCall /\ i.joinable}

NamesAsClient(k, p) ==
  /\ \E i \in Joinable : i.ex.key = k /\ i.ex.kind = "client"
  /\ \E i \in Joinable : i.ex.key = k /\ i.ex.parent = p

NoSharedParent == \A j, k, p \in Key : NamesAsClient(j, p) /\ NamesAsClient(k, p) => j = k

(* A client span whose parent is in turn named by another one leaves a flush    *)
(* with a record that nobody claims (doc_flush_chain).                          *)
NoChain == ~ \E j, k, p \in Key : j # k /\ k # p /\ NamesAsClient(j, k) /\ NamesAsClient(k, p)

(* The assembler keeps the promise of Ledger if no parent is shared.  The record *)
(* takes effect when the sink has it: from then on its keys count as finalized, *)
(* what is pending under them as late, although the acknowledgement that says   *)
(* so in the maps is still to come; a failed write and its rollback change      *)
(* nothing.                                                                     *)
Final    == emitted \cup UNION {Consumed(r) : r \in {x \in batch : IsFirst(x) /\ Acking # {}}}
Waiting  == (ActiveSigs(Key) \cup PendingSigs(Key \ Final)) \ Recorded
Late     == (Accepted \ Waiting) \ Recorded
KeyOfId  == [s \in {i.id : i \in Joinable} |-> (CHOOSE i \in Joinable : i.id = s).ex.key]

Exclusive ==
  /\ \A r, s \in batch : r # s => Consumed(r) \cap Consumed(s) = {}
  /\ \A r \in batch : Consumed(r) \cap emitted = {}
  /\ SnapshotIsCurrent
  /\ \A k \in Key \ Final : ActiveSigs({k}) \cap Recorded = {}

L == INSTANCE Ledger WITH
       Item      <- {i.id : i \in Joinable},
       KeyOf     <- KeyOfId,
       waiting   <- Waiting,
       late      <- Late,
       records   <- [n \in DOMAIN written |-> written[n].sigs],
       finalized <- Final

KeepsLedger == L!Spec

(* A record was merged from signals of its own call only (its key and the       *)
(* parent it names), and its verdict and values are what they say together,     *)
(* whatever order they arrived in and however often the write was retried.      *)
OfItsCall(e) == {x.key : x \in Contributing(e)} \subseteq {e.key, e.parent}
Speaks(e)    == Verdict(e, Contributing(e)) /\ KeepsValues(e, Contributing(e))

RecordSpeaksForItsCall == \A n \in DOMAIN written : OfItsCall(written[n]) /\ Speaks(written[n])

(* What it takes to prove that (RecordProofs): every partial record speaks for    *)
(* the signals merged into it at every moment, whichever map holds it.          *)
EntriesSpeak ==
  /\ \A m \in {spans, logs, pendingSpans, pendingLogs}, k \in Key : m[k] # None => Speaks(m[k])
  /\ \A r \in batch : OfItsCall(r.ex) /\ Speaks(r.ex)

(* The counters add up: every record in the sink was counted once as emitted,   *)
(* once by its correlation and once by its origin (the record between its write *)
(* and its acknowledgement excepted), and every item read was counted.          *)
StatsMatchHistory ==
  LET done == SubSeq(written, 1, Len(written) - Cardinality(Acking))
      with(corr) == {n \in DOMAIN done : done[n].correlation = corr}
  IN  /\ stats["emitted"] = Len(done)
      /\ \A corr \in Correlation : stats[corr] = Cardinality(with(corr))
      /\ stats["merged"] + stats["logOnly"] + stats["spanOnly"] = Len(done)
      /\ stats["logRecordsSeen"] + stats["spansSeen"] = Cardinality(taken)

(* A flush reserves everything that is buffered when it gets the lock, so that  *)
(* after one that returns without error only later arrivals are left.           *)
FlushReservesEverything ==
  [][ \A c \in Caller : Claim(c) /\ cutoff[c] = None =>
        {k \in Key : firstSeen[k] # None} \subseteq inFlight' ]_vars

(* An assembly with a cutoff leaves nothing expired behind, except the signals  *)
(* of a call whose client span is itself buffered and still within its wait, or *)
(* is in its turn the parent that another client span names.                    *)
ExpiredAreReserved ==
  [][ \A c \in Caller : Claim(c) /\ cutoff[c] # None =>
        \A k \in Key : firstSeen[k] # None /\ firstSeen[k] < cutoff[c] =>
          \/ k \in inFlight'
          \/ \E child \in Children(k) \ {k} :
               firstSeen[child] >= cutoff[c] \/ Children(child) \ {child} # {} ]_vars

(* Further signals, a failed write or a rollback never restart the wait of a    *)
(* key: while it is buffered its first-seen time does not move forward.         *)
WaitNeverRestarts ==
  [][ \A k \in Key : firstSeen[k] # None /\ firstSeen'[k] # None
                      => firstSeen'[k] <= firstSeen[k] ]_vars

(* Every request and every flush returns when the sink answers: assemblers that *)
(* queue for assembleMu do not block each other for ever.                       *)
CallsReturn == \A c \in Caller : pc[c] # "idle" ~> pc[c] = "idle"

------------------------------------------------------------------------------
(* What comments and documents say and the code does not do: each is the        *)
(* property of one run that finds a counterexample (PROJECT.json, findings).    *)

(* "where both signals assert something different it keeps one and records the  *)
(* objection": every contradiction between contributors of a record is named.   *)
DisagreementsAreNamed ==
  \A n \in DOMAIN written :
    Contradicted(Contributing(written[n])) \subseteq written[n].disagreements

(* "MergeWait bounds how long a record seen on only one signal waits for the    *)
(* other before it is emitted as partial": what is buffered leaves the buffer.  *)
MergeWaitBoundsHolding ==
  \A k \in Key : firstSeen[k] # None /\ now > firstSeen[k] + MaxWait ~> firstSeen[k] = None

(* "restoreReserved rolls every failed or unattempted snapshot back into active *)
(* assembly": what a failed record was merged from is buffered again.           *)
RollbackRestoresSnapshots ==
  [][ \A c \in Caller : Restore(c) =>
        \A r \in batch : r.ex.sigs \subseteq ActiveSigs(Consumed(r))' ]_vars

==============================================================================
