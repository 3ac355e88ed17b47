# Specifications of the AgentGateway bridge

The bridge receives the OTLP telemetry (access logs and spans) of an AgentGateway, normalizes what belongs to an MCP
`tools/call`, assembles the signals of one call into one `observation.Execution`, and appends it to a JSONL file. The
record is used as evidence, so what can go wrong silently matters most here: a call recorded twice, a signal that
vanishes between two maps, an operation id that stands in a record although two signals disagreed about it.

`PROJECT.json` holds the runs, the mutants, the map from definitions to source lines, the findings, the hazards and
the theorems. All paths below are relative to the repository's source tree.

    tlc -workers 2 -config core_flush.cfg MCProcessor      # one run
    tlapm ProcessorProofs.tla                              # the proofs

## The system

| component | source | state | operations |
|---|---|---|---|
| Normalizer | `internal/normalize` | none | `FromLogRecord`, `FromSpan`: one OTLP record to one partial execution, or "not a tool call" |
| Record and merge algebra | `internal/observation/execution.go`, `merge*` in `internal/bridge/processor.go` | none | `ClassifyOperation`, `merge` and what it calls |
| Processor (assembler) | `internal/bridge/processor.go` | the active maps (`spans`, `logs`, `firstSeen`), the pending maps of what arrives during a write, `inFlight`, `emitted`, `stats`; `mu`, `assembleMu` | `ConsumeLogRecords`, `ConsumeSpans`, `Flush`, `Stats`, `SetObserver` |
| JSONL sink | `internal/sink/jsonl.go` | the file, `poisoned`, `mu` | `Write` (append, or truncate back, or poison), `Close`, `ReadAll` |
| OTLP/HTTP receiver | `internal/otlphttp/handler.go` | none | one handler per signal: decode, one Consume call, 202 or an error status |
| OTLP/gRPC receiver | `internal/otlpgrpc/server.go` | none | the two `Export` methods, as above |
| Lifecycle | `cmd/bridge/main.go` | the shutdown budget, `shutdownResult` | HTTP drain, gRPC drain (graceful, then forced), final flush, close, exit code |
| ExtMCP experiment | `internal/extmcp/server.go`, `cmd/extmcp-spike` | captures per operation id, a mutex | request and response hooks, snapshot, artifact |
| Configuration | `internal/config` | none after startup | environment to `Config` |
| Replay | `internal/replay`, `cmd/replay` | none | posts recorded fixtures (test tooling) |

Interactions: each OTLP request is handled in a goroutine of its own, which calls the Processor directly. A request
first buffers its records one by one (a critical section of `mu` each) and, when `maxWait` is set, assembles what has
waited long enough before it answers. Assembly is serialized by `assembleMu`, which is held across the sink writes;
`mu` is released during each write. At shutdown the main goroutine drains both servers and calls `Flush` in another
goroutine, all under one deadline.

What is hard, and what makes each component correct:

- **Processor.** Signals arrive for a key whose snapshot is being written; several assemblers queue; a write fails in
  the middle of a batch; a signal comes after the record. Correct means: no key gets two records, a finalized key is
  never reopened, every signal ends up buffered, recorded or counted as late, an acknowledgement deletes exactly what
  was written, a rollback strands nothing, counters tell what happened, calls return.
- **Merge algebra.** The order in which the signals of a call meet depends on the exporters and on sink failures.
  Correct means: the verdict (status, attribution, availability) depends on the set of signals only, no asserted value
  becomes an absence, an operation id and a missing attribution never stand together, contradictions are named.
- **Sink.** Short writes, failed truncations, a process that dies inside an append. Correct means: a write appends one
  whole line or leaves no trace, or the sink never writes again.
- **Lifecycle.** One shared deadline and three phases. Correct means: the file is not closed under a running write,
  the exit code says whether persistence was confirmed, everything acknowledged that a flush
  can take was flushed when the code says so, and the process ends.
- **Normalizer.** Two spellings of an attribute, ids under three names, an error type beside a JSON-RPC code beside a
  span status, on either of two signals. Correct means: what the merged record says follows from everything the signals
  said; nothing is preferred silently where the code promises a conflict, and no failure is graded as a success.
- **Receivers.** Retransmission after an error answer although the request is already buffered. Correct means: an answer,
  good or bad, is given only when every signal of the request is in the assembler's hands.
- **ExtMCP.** Concurrent calls of one operation share a capture; the artifact is written while hooks may still run.
  Correct means: no hook takes back what another said, the artifact is complete, and a signal is followed by it.

## Modules

| module | what it models |
|---|---|
| `Observation` | records (`Record`, `Execution`), `ClassifyOperation` and the `merge` family as operators; the reference definitions (`Verdict`, `KeepsValues`, `Contradicted`) that compute from the whole set of contributing signals what the pairwise merges should give |
| `MergeTree`, `MCMergeTree` | the partial records of one call, merged two by two in any order and grouping |
| `Processor`, `MCProcessor` | the assembler: concurrent requests and flushes, the lock, the writes, acknowledgement and rollback |
| `Ledger` | what the assembler promises, without locks, generations or retries; `Processor` implements it, `Bridge` is built on it |
| `Normalize`, `MCNormalize` | one OTLP record to a partial execution, and the records of one exchange merged in any order |
| `Bridge`, `MCBridge` | the process: the receivers, the assembler as its promise plus the lock and the writes that shutdown can trip over, and `main` from the signal to the exit code |
| `ExtMcp`, `MCExtMcp` | the hooks of the ExtMCP experiment, its store, and the shutdown that writes the artifact |
| `JSONLSink`, `MCJSONLSink` | the evidence file: appends cut short, rollback, poisoning, processes that die and reopen the file, `ReadAll` |
| `AppendLog` | what the Processor relies on when it calls a sink; `JSONLSink` implements it |
| `ObservationProofs` | the merge algebra: types, reference verdict, values, for the merge of any two executions |
| `MergeTreeProofs` | the same for any tree of merges |
| `ProcessorProofs` | the assembler: types, discipline, accounting, counters, reservations, waiting |
| `RecordProofs` | the assembler: what its records say, exclusive snapshots, whole flushes, the refinement of `Ledger` |
| `JSONLSinkProofs` | the sink: what stays, what is damaged, what `ReadAll` reads, the refinement of `AppendLog` |
| `BridgeProofs`, `ExtMcpProofs`, `NormalizeProofs` | the theorems of those modules |

### Observation

A `Record` has the fields of `observation.Execution`. Absence (an empty string, a zero time) is `None`. Left out: the
wording of `correlation_detail` and of the disagreement strings (a disagreement is the name of its field), and the
read-only annotation, which nothing in the repository sets. `source` stands for all provenance texts, which merge by
the same rule. `sigs` is a history field: the telemetry items merged into the record. `Execution` is the set of
records in which an operation id stands exactly when the record is correlated, which is what normalize builds and what
`MergeType` proves `merge` keeps.

### Processor

| action | code |
|---|---|
| `StartConsume`, `Receive`, `EndRequest` | `ConsumeLogRecords`/`ConsumeSpans`: the loop, its "seen" counter, the cutoff of `assembleExpired`, computed before the lock is waited for |
| `Buffer` | `buffer` and the two drops before it, one critical section of `mu` |
| `StartFlush` | `Flush`: assembly with the zero cutoff (`None`) |
| `Claim` | `assemble` from the acquisition of `assembleMu` to the reservation in `inFlight`: ready keys, `childOf`, `assembleKey`, `mergeParent` |
| `TryEmit`, `Skip`, `Finish` | the head of `emit` for the first record of the batch in the order of keys, its early return, the end of the loop |
| `WriteOK`, `WriteFail` | `sink.Write`, while `mu` is free |
| `Ack` | `emit` after a successful write, with `discardPending` |
| `Restore` | `restoreReserved` with `mergePendingIntoActive`, and the return of the error |
| `Tick` | the clock behind `p.now` |

Go maps become total functions on `Key` with `None` for a missing entry. Iteration over the `spans` map decides which
of several children of a parent is in `childOf`; Go leaves that order open, so `Claim` picks any function of `ChildOf`.
Keys are numbers in the order `sort.Strings` would give. The critical sections are single actions because `mu` is held
throughout and nothing in them blocks. Items arrive at most once each; a retransmission by an exporter is a second item
with the same key (`clientAgain`, `serverAgain`), which is all the code can see of it. A request with several records
is a caller that receives several items before its `EndRequest`; one that is empty receives none.
The sink is abstract here: a write appends one record or fails and leaves nothing. `SetObserver` runs before any
request and is part of an item's source; `Stats` only reads; a nil processor and a nil sink do not occur in
`cmd/bridge`.

### Ledger and its refinement

`Ledger` has four variables: the signals that wait, those that are late, the records as sets of signals, and the keys that
are finalized for good. `Offer` takes a signal once and by its key's state; `Record` writes some of what waits under one
or two keys (a call and its parent), finalizes them, and makes late what waited there without being in the record.

`KeepsLedger` maps the assembler to it. The record takes effect with `WriteOK`, not with the acknowledgement: between
the two, the keys of the first record of the batch count as finalized (`Final`) and what is pending under them as late,
although the maps still hold both. Claims, failed writes, rollbacks, the pending generation and every interleaving of
them are stuttering steps; so is an assembly that loses the race for the lock. The refinement holds when no two client
spans name one parent (`NoSharedParent`, a condition on `Telemetry`), as in `core_flush`. Under shared parents the second
record of the batch may name a signal again that the first one has, which is the trouble behind `doc_rollback`.

### Normalize

| definition | code |
|---|---|
| `AttributeMap`, `At` | `attributeMap`, `anyValueString`: the last value of a name wins, an attribute without a value is skipped, one that is not a text, number or boolean is an empty string |
| `Attr`, `SemconvOf` | `attr`, `semconvOf`: the canonical name, then the aliases |
| `OperationID`, `IsToolCall`, `LogCompleted`, `StatusFrom`, `PayloadAvailability` | the functions of those names |
| `JoinKey`, `Timestamp`, `DurationMS` | `observation.JoinKey`, `timestampFromUnixNano` (with the wrap of `int64`), `durationMS` (an open choice where the conversion of a float is out of range) |
| `FromLogRecord`, `FromSpan` | the functions of those names; `Common` and `Graded` are what they share |
| `Take` | the loop of `ConsumeLogRecords` and `ConsumeSpans` and the merge into what is buffered |

An attribute is a name and a value. Names are the real ones, as the aliases are the point; values are model values, and
what the code looks for in a text is a constant: which error types contain "cancel", which codes are the caller's fault.
The value of an operation-id attribute is the set of the ids between its commas. The properties do not restate the
precedence of the code: they read the raw attributes of all contributors under every spelling, and say what a record made
of them has to say.

### Bridge

| action | code |
|---|---|
| `Arrive`, `Reject`, `Consume`, `EndConsume`, `Answer` | `ServeHTTP` of either handler, `Export` of either service, with the loop of `ConsumeLogRecords`/`ConsumeSpans` between |
| `GiveUp` | the context of the request is done (external) |
| `Lock`, `Finish`, `Refuse`, `StartWrite`, `WriteOK`, `WriteFail` | `assemble` and `emit`: the lock, the snapshot, one write after another, the refusal of a done context in `sink.Write`, the return at the first error |
| `Signal`, `ListenerFails`, `Deadline` | `<-stop`, `log.Fatalf` in the HTTP goroutine, the timeout of `shutdownCtx` |
| `EndHTTPDrain` (`DrainsHTTP`) | `httpServer.Shutdown` returns |
| `GracefulStop`, `EndGRPCDrain`, `ForceGRPC`, `EndForced` | `stopGRPC`: its goroutine, the two cases of the select, the wait after `Stop` |
| `Flush`, `EndFlush` (`FlushReturns`, `FlushTimesOut`) | `flushProcessor`: the check of the budget, the goroutine, the select |
| `FinalizeShutdown`, `Exit` | `finalizeShutdown`, `exitCode`, the end of the process |

The assembler is `Ledger` here, with the lock and the snapshot kept, because shutdown meets exactly those: a handler that
a drain gave up on still holds `assembleMu` or waits for it. Which keys are ready for a request depends on the clock and is
open; for the flush all are. Of the ready keys `assemble` takes those that no buffered client span claims, each with the
parent its own span names (`Assembled`, `Snapshots`). `Traces` and `Parent` say which requests carry spans and what these
name, so that what the flush leaves behind is left behind here too: a parent whose client span is itself claimed. A record
has one key or two, as in `Ledger`; a parent that two spans of a snapshot name goes with the record that is written first
and is left out of the other, where the code would repeat it (`Ledger` holds when no parent is shared, see above). A
transmission is an item of its own: an exporter that sends a request again sends other signals with the same keys.
`GracefulStop` returns when no gRPC handler is active, before `Stop` and after it, as in the grpc-go that `go.mod` pins
(v1.79.3, its `stop` waits for the handlers). `Stop` only cancels their contexts, which a handler that waits for
`assembleMu` or sits in a file write does not notice.

### ExtMcp

`Invoke` is the gateway, `Mark` a hook up to the end of `mark` (with the refusal of a call without context), `Pass` its
answer, `Signal`, `Serve`, `GracefulStop` and `Finish` are `serveExtMCP`: the goroutine that waits for the context, the
call of `Serve` with the three ways it returns, and the branches behind it. A capture carries what the first hook named
(`about`) and the two flags.

### JSONLSink

| action | code |
|---|---|
| `Write`, `Refuse` | the call; its returns before anything is written: context done (before or after the wait for `mu`), marshal or `Stat` error, poisoned, closed |
| `Acquire`, `Stat` | `mu.Lock`, the poison check, `start := info.Size()` |
| `AppendLine` | `f.Write(line)`: any number of the bytes reach the file |
| `Truncate` | the rollback, or the poisoning when it fails |
| `Succeed` | `return nil` |
| `Close`, `Crash`, `NewJSONL` | `Close`; the end of the process at any point; the next process opens the file for appending |

A line is three bytes: a first part of the JSON, the rest of it, the newline, so that an append can be cut before,
inside and right after the JSON. Bytes that the operating system accepted survive the process (the code promises no
more: it does not call fsync), so a crash changes the file only by leaving an append where it was. Two processes on one
path are excluded by the code's comment and by the model. The history variable `cut` counts the lives that left an
append unfinished; it lets `OneScarPerLife` say how much damage there can be, and `ReadableUnlessCut` when there is none.
`LinesUpTo` and `ReadUpTo` are the scans of the file, from its first byte on, as recursive functions on the positions;
`Lines` and `ReadAll` are what they have at the end. `SinkInv` has two layers: `Kept` and `InUse` (mutex, offsets, lines that
were acknowledged), and `Damage` (what a short write and its rollback make of the file).

`AppendLog` is the abstract sink. The refinement maps its `log` to the complete lines of the file and its `state` to
where each writer is: `nil` means one complete line was appended, an error means none was, and lines never change. `Complete` leaves out a whole line with an error beside it, which
`jsonl.go:85` would take back: `os.File` returns an error exactly with a short write.

## Runs

Bounds: `MaxTime` stops the clock, `MaxSinkFailures` the failing writes, `Telemetry` the items. A request may hold any
number of the items, and every caller may start any number of requests and flushes. `MaxCrashes` bounds the processes that die.

| run | instance | what it shows |
|---|---|---|
| `merge_tree` | up to four of the records normalize can return for one call, in every tree | `VerdictIgnoresOrder`, `MergingKeepsValues`, `ContradictionNamed` |
| `normalize` | 320 access logs and 141 spans of one exchange: every combination of error types, JSON-RPC codes (canonical, aliased, not a text), span codes, operation ids, signs of completion, payloads, a wrapped end; eight odd records (no span id, ids as attributes, contradicting methods and resource types) | `ContributorsAreCalls`, `VerdictFromEvidence`, `AttributionFromAllIds`, `RefusalIsReported` |
| `core_flush` | three goroutines, each consuming or flushing, no age limit; server span, client span under it, the client span again, an access log with another operation id, a second call; two failed writes | the safety of the assembler: `AssemblyInv` (with `FinalizedStaysClosed`), `AtMostOncePerKey`, `BufferIndexed`, `PendingOnlyBehindAWrite`, `SnapshotIsCurrent`, `EverySignalAccountedFor`, `RecordSpeaksForItsCall`, `StatsMatchHistory`, that a flush reserves everything, and the refinement of `Ledger` (`KeepsLedger`) |
| `core_expiry` | two goroutines, `maxWait` 1, clock to 2, one failed write; a span that names itself as its parent, one client span before and one after it in the order of keys, a log with another operation id, a record that is no tool call, one without a span id | `ExpiredAreReserved`, `WaitNeverRestarts`, and that under shared parents keys still finalize for good (`FinalizedStaysClosed`, `Skip`) and the accounting holds (`EverySignalAccountedFor`) |
| `core_returns` | two goroutines, two spans, `maxWait` 1, under `FairSpec` | `CallsReturn` |
| `jsonl_sink` | two goroutines, three records, three lives | `SinkInv`, `AckedIsPersisted`, `OneScarPerLife`, `ReadableUnlessCut`, `SilentOnceBroken`, and that the sink implements `AppendLog` (`KeepsPromise`) |
| `bridge` | an HTTP export of a log under the id of a server span, a gRPC export, in two scopes, of a client span under that and a client span under the client span; each sent at most twice; two failures (writes or clients), under `FairSpec` | `ProcessInv`, `AnsweredMeansTaken`, `ExitZeroMeansRecorded`, `CloseBehindTheLastWrite`, `ShutdownTerminates` |
| `extmcp` | four calls: two of one operation, one of another, one without context; under `FairSpec` | `ArtifactIsComplete`, `CapturesOnlyGrow`, `SignalledMeansWritten` |

Why these bounds are enough to be worth running: the delicate windows are between a reservation and its acknowledgement
or rollback. They need one holder of `assembleMu`, a second goroutine that buffers, and a third that waits for the
lock; a batch of two records, so that a failure leaves one unattempted; and two failures, so that what was rolled back
fails again. The clock needs a tick to let one key expire and another one not, and another that makes a rolled-back key
overdue. Symmetry (of callers) is used in the safety runs only; every caller may flush there.
For the sink, a second writer is what a wrong rollback could hurt, a third record one that is appended after a scar, and
a third life one that starts on a file with two. Deadlock is not checked in `jsonl_sink` and `merge_tree`: the last
process may end with everything written, and a fold of records ends with one.
They are not checked in `bridge` and `extmcp` either: the process ends.
`core_expiry` does not state `SnapshotIsCurrent` and `KeepsLedger`: they are false under shared parents, which is the
finding `doc_rollback`.
For `normalize` an exchange is a log and a span, the two signals that share a key; which of them comes first is open, and
a third one merges by the algebra that `merge_tree` and `core_flush` exercise. Four bits of time wrap as 64 do.
For `bridge`, two transmissions of a request make a retransmission, and two receivers are what the drains are about; the
second failure is for a client that goes away while a write fails. Three keys are one call whose client span has a client
span under it: whatever has arrived, a snapshot may hold one record, two, or a record and its parent, and the log is at the
end of a chain when both spans wait.

### Properties worth a word

- `SnapshotIsCurrent` relates the records being written, built under `mu` and written without it, to the maps they were
  built from: whatever happens meanwhile, an acknowledgement deletes only signals that are in the record.
- `EverySignalAccountedFor` counts: accepted signals that are neither buffered, pending nor recorded are exactly as
  many as `late_signals_ignored` says. It needs `pendingSignals` to be right in every interleaving.
- `RecordSpeaksForItsCall` compares each written record with the reference verdict of its contributors, so that it does
  not matter how the two generations, the parent and the logs were merged.
- `VerdictFromEvidence` reads success, failure, cancellation and completion off the raw attributes of all contributors.
  `statusFrom` and `mergeStatus`, in two packages, decide the same thing by precedence.
- `ExitZeroMeansRecorded` is what an operator may conclude from the exit code. It has to survive drains that time out,
  a select with two ready cases, a flush whose write is refused because the budget ended, and retransmissions. Its one
  exception, `Chained`, is the code's: a flush returns nil over a key whose claiming client span is itself claimed
  (`doc_flush_chain`), and the process then exits with 0 although an acknowledged signal is in no record.
- `ShutdownTerminates` lets clients and the sink do what they like but for one thing: a write on behalf of a request must
  not hang for ever. A flush may; it is abandoned at the deadline.
- `CloseBehindTheLastWrite` holds because the budget is shared: a drain that left a handler running has used it up, so
  the flush is skipped, counts as timed out, and the file is left open.
- `ExpiredAreReserved` has one exception, taken from the code: a parent that expired waits for its client span, if that
  is still within its wait or is in its turn the parent that another client span names.

### Fairness

`GoroutinesRun`: a goroutine that can run does (weak fairness). `Claim` is strongly fair: `assembleMu` is released again
and again, and `sync.Mutex` hands the lock to a waiter that has waited for a millisecond (its starvation mode), so no
waiter loses for ever. `SinkAnswers`: a write of the sink returns (weak fairness). The clock, the arrival of requests and flushes and the outcome of a write are not fair.
`Receive` shares the fairness of its request: it ends because the items do.

In `bridge`, `MainRuns` makes `main`, the clock of the budget and the goroutine of `GracefulStop` fair, and `HandlersRun` the
handlers of gRPC requests, which have their body when they start: they consume, get `assembleMu` in their turn (strong
fairness, as above), and answer. Whoever holds the lock goes on up to the next write. HTTP handlers are not fair before
that, as a body may never end, and writes are not fair at all. A write that hangs inside a gRPC handler, or inside an HTTP
handler that a gRPC handler queues behind, keeps `GracefulStop` from returning after `Stop` and holds the shutdown at
`main.go:186` for good; so `ShutdownTerminates` has "no request stays in a write for ever" as its hypothesis; without it TLC
finds just that behaviour.
In `extmcp` the hooks (they do no I/O), `GracefulStop`, `Serve` and `main` are fair; calls, signals and failures are not.

## Findings

Each is a run that expects a violation of one property, which restates a comment or document.

| run | the code | what is written |
|---|---|---|
| `doc_disagreements` | `merge` drops the disagreements its second argument already carries: two exports of a server span contradict each other, the merged parent is merged into the client span, the objection is gone (`mergeStatus` also picks one of two different error types without an objection) | "keeps one and records the objection rather than choosing silently" (`processor.go:484`) |
| `doc_merge_wait` | age is looked at only when a request ends, so without further traffic an overdue record stays buffered | "MergeWait bounds how long a record ... waits" (`config.go:23`) |
| `doc_flush_chain` | client span under client span under server span: the middle one claims the server span but is itself claimed, so a flush leaves the server span buffered and returns nil | "Flush assembles everything still buffered" (`processor.go:153`) |
| `doc_rollback` | the acknowledgement of the first sibling deletes the parent; when the second sibling's write fails, its retry has neither the parent nor the operation id it carried | "rolls every failed or unattempted snapshot back into active assembly" (`processor.go:310`) |

Seen in the same traces and without a run of its own: `parent_spans_suppressed` counts a parent once per child when
several children are assembled in one batch, so it can exceed the number of suppressed spans (`processor.go:368`,
against the comment at line 50).

Disagreements that have no run, as they follow from the design and are plain to see:

- After `Stop` the shutdown waits for `GracefulStop`, which waits for the handlers. One that hangs in a file write, or queues
  behind one that does, keeps it at `main.go:186` beyond the budget, without flush or close. The comment says "grpc.Server.Stop
  interrupts active RPCs and makes GracefulStop return" (`main.go:184`), the README that the bridge "closes the JSONL sink
  within one 10-second budget" (`README.md:140`); `main.go:195` knows that regular-file writes cannot be interrupted. It
  is the hypothesis of `ShutdownTerminates`.
- A request with `maxWait` set ends in `assemble` and waits for `assembleMu`, which another one holds across its writes:
  ingestion does not "remain responsive while persistence is in progress" (`processor.go:251`).
- A server span that arrives after its client span was emitted has a key of its own that is not finalized, and becomes
  a second record of the call, against "one `observation.Execution` per call" (`README.md:27`).
- The artifact of the ExtMCP experiment says "missing-response is observed as start-only" (`cmd/extmcp-spike/main.go:62`).
  That is so per operation, not per call: of two calls of one operation, one response makes the capture complete.
- Of two error types one is kept without a word (`processor.go:538`); a record of an error can carry the error type of a
  cancellation the other signal saw.

## Proofs

`PROJECT.json` lists the theorems with the property each one states. They hold for any values of the constants that
satisfy the named assumptions: any number of keys, goroutines, signals, failures, processes and ticks. Every invariant and
every action property of a passing run is stated by a theorem.

**Merge algebra** (`ObservationProofs`, `MergeTreeProofs`). `MergeType`: the merge of two members of `Execution` is one,
with the key of the first. The case that matters is the correlation: a conflict must clear the id, and re-classifying one
id must find it again. `VerdictOfMerge`: if two records have the reference verdicts of two sets of signals, their merge has
that of the union; it rests on `mergeStatus` being commutative and associative, which is also the reason why no order
matters. `KeepsValuesOfMerge` says the same of absent values. By induction over the merges (`MInv`: a part names exactly the
signals merged into it, and speaks for them) follow `OrderMakesNoVerdict`, `NoValueIsLost` and `EveryContradictionNamed`
for any tree.

**Assembler, keys** (`ProcessorProofs`, first layer). `TypeCorrect`, then `FinalizedForGood`; the cases to see are `Ack`,
which finalizes keys that may have pending signals, and `Claim`, which must not reserve a finalized key: a ready key has
a first-seen time, a consumed parent has an entry, and finalized keys have neither. `AtMostOncePerKey` is not inductive. A
second record of a key could be written by another assembler (so the lock must be held exactly from the claim to the
return: `LockHeld`), from a second record of the batch with that key or from an entry filed under another key
(`FiledUnderItsKey`: `merge` keeps the key of its first argument, `assembleKey` that of the child), or for a key already
written (`WrittenIsFinalized`: what is in the sink is finalized, but for the one record between its write and its
acknowledgement, and the head of `emit` looked before the write). Together they are `Discipline` (`DisciplineKept`).

**Assembler, accounting** (`ProcessorProofs`, second layer). `EverySignalAccountedFor` counts what is missing, so it needs
to know that nothing is counted twice and that what a step deletes is somewhere else. `AssemblyInv` adds to `Discipline`:
`ReservationsAreTheBatch` (what is in flight is what the batch will consume, less what an earlier record of the batch
finalized), `SnapshotCovers` (all that is active under the keys of a record is in it, so that an acknowledgement loses
nothing), `BufferIndexed` and `PendingOnlyBehindAWrite`, `EachItemOnce` and `SignalsInPlace` (items under their own key,
pending ones nowhere else). `Inductive` proves it, `NoSignalLost`, `BuffersAreIndexed` and `NoPendingLeftBehind` are its
parts, `CountersAddUp` (`StatsMatchHistory`) comes with a tally of its own. From the same invariant follow the action
properties `NothingExpiredLeftBehind`, `WaitsOnlyOnce` and `FlushLeavesOnlyChains`. The last one says for any telemetry
what a flush may leave behind; `FlushReservesAll` (in `RecordProofs`) is the unconditional `FlushReservesEverything` when no client
span is the parent of another one and names a parent itself (`NoChain`). `core_flush` checks `AssemblyInv`.

**Assembler, records** (`RecordProofs`). `RecordsSpeakForTheirCalls`: not only the records in the sink but every entry of the
four maps and every record of the batch speaks for the signals it names (`EntriesSpeak`), and the theorems of the merge
algebra carry that through each merge, in `buffer`, `assembleKey`, `mergeParent` and `mergePendingIntoActive`.
`SnapshotsAreExclusive`: if `NoSharedParent`, no two records of a batch consume one key, none a finalized one, each is built from
exactly what is active under its keys (`SnapshotIsCurrent`), and nothing active under a key that is not finalized is in the
sink already (`Exclusive`). From it follow `SnapshotsAreCurrent`, `NoSignalTwice` (no signal is in two records of the sink),
and, step by step, `KeepsThePromise`: `Buffer` is an `Offer`, `WriteOK` a `Record`, all other steps leave the mapped state
as it is.

**Sink** (`JSONLSinkProofs`). `AckedPersists`: a rollback could cut off another record only if it was appended after `start`
was read; while a rollback is due every acknowledged line lies before `start`, which holds because `mu` is held from
`Stat` to the return. `BrokenIsSilent` needs `InUse`: who is about to append or to truncate looked at `poisoned` after it got `mu`.
`OneScarAtMost` and `Readable` come from `Damage`: without an append under way the file has at most one scar per cut
(`Intact`), and is line after line if nothing was cut (`Whole`); a short write adds no newline, and what its rollback leaves
is intact again. `Readable` and `SinkKeepsPromise` are about the results of the two scans. The induction theorems of the library
take an operator as a parameter, which the provers cannot instantiate; so the proofs define the set of the
positions at which the statement fails and refute its least element (`UpTo`), which gives the existence of the scans (`ScanExists`) and, byte
by byte, their values on a file that grew, that was cut back, or that is `Whole`.

**Process** (`BridgeProofs`). `AnswersAreHonest`, `ClosedInOrder` and `ExitZeroIsEarned` depend on what happened phases before.
`BudgetSpent` carries a drain that gave up along as a used-up budget; hence `FlushRunsAlone`: a flush starts only
with budget left, so both receivers are idle and closed to new requests, its snapshot is all that waits but for what is
`Chained` (`FlushTakesAll`: a key that is not is claimed by nobody, or goes with a client span that is claimed by nobody),
and an `ok` leaves nothing else. `ExitZeroIsEarned` therefore holds for any telemetry with that exception, and
`ExitZeroLeavesNothing` says, for telemetry in which no client span is under another one, that nothing at all is left. `FlushDecides` ties what `main` may do afterwards, close the file or exit with 0, to the return of that
flush as opposed to its timeout. `HandedOver` follows each signal from the body of a request into the assembler.

**ExtMCP** (`ExtMcpProofs`). `StoreInv`: a capture is what the hooks of its operation have said so far, named by one of them;
no hook runs once the server has stopped; the artifact is the store. `ArtifactComplete` and `NothingTakenBack` follow.

**Normalizer** (`NormalizeProofs`). `ExchangeInv`: the record was merged from the signals taken that are calls with both ids, and
its status, error class, attribution and availability are what the raw attributes of those amount to, under every
spelling. One signal is the work (`FromLogRecord` and `FromSpan` against the properties' reading of the attributes);
for the next one the merge of two verdicts has to be the verdict of the union, as above.

### Assumptions

| assumption | says |
|---|---|
| `ObservationAssumption`, `NoneIsNoExecution` | keys are naturals; well-formed and malformed ids differ; `None` is no value |
| `MergeTreeAssumption` | the records to merge are executions, each with signals of its own |
| `ProcessorAssumption` | items have distinct identities and only their own as `sigs`; flushers are callers; bounds are naturals |
| `NormalizeAssumption` | a key per pair of ids, classes of texts are texts, parsed durations are sets of integers; the constants of `statusFrom` are texts |
| `SinkAssumption`, `BridgeAssumption`, `ExtMcpAssumption` | `None` is no writer, record, caller, operation or capture; a request is HTTP or gRPC, never both, and carries spans or logs; a key names a key as its parent, or none; `OpOf` gives each call an operation or none |

Three conditions on the telemetry are hypotheses of theorems, not assumptions: `NoSharedParent` (`SnapshotsAreExclusive`,
`SnapshotsAreCurrent`, `NoSignalTwice`, `KeepsThePromise`), `NoChain` (`FlushReservesAll`), and its counterpart in `Bridge`,
`Chained = {}` (`ExitZeroLeavesNothing`). The instance of `core_flush` satisfies the first two, that of `bridge` not the
third, and the runs `doc_rollback` and `doc_flush_chain` show what happens without them. A gateway that sends one server
span and one client span per call satisfies all three.

Only model-checked: liveness (`CallsReturn`, `ShutdownTerminates`, `SignalledMeansWritten`), which is out of the prover's
reach, and the disagreements of the findings.

## Plan

The modules are written, and what the passing runs check is proved but for liveness. What is left:

1. `Ledger`: its own invariants (a signal is in one place, records are disjoint, a finalized key has nothing waiting), proved
   once and carried to `Processor` by the refinement.
2. `Bridge`: that it implements `Ledger` as `Processor` does, so that the two uses of the promise meet.
3. `AppendLog`: the sink of `Processor` (a write appends one record or leaves nothing) as an instance of it.
4. What is provable of termination without fairness: a measure that every step of a request and of the shutdown lowers.

## Not modelled

Configuration (read once), replay (test tooling), the version string, generated protobuf code, JSON encoding, logging,
`/healthz` and `/stats` (they read), the startup (its failures end the process before it serves; a gRPC listener that
fails is logged, and the bridge goes on with HTTP alone), memory growth (`emitted` keeps every key for the life of the
process), ids with blanks around them (`JoinKey` trims them, `childOf` and `mergeParent` do not), `maxWait` zero in
`Bridge` (a request then ends without an assembly, which is less than the empty one the model lets it do), and the
crash of the whole process in `Bridge` (what a crash does to the file is `JSONLSink`, and what only waited is gone).
