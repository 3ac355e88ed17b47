------------------------------ MODULE JSONLSink ------------------------------
(***************************************************************************)
(* The evidence file, internal/sink.JSONL.  Write appends one JSON line    *)
(* under mu; an append that is cut short is truncated back to the size it  *)
(* started from, and if that fails too the sink is poisoned.  The process  *)
(* may die at any point, in the middle of an append included; the next one *)
(* opens the same file and appends to whatever is there.                   *)
(*                                                                         *)
(* The line of a record x is three bytes long: the first part of its JSON, *)
(* the rest of it, and the newline.  That is enough to tell an append cut  *)
(* before, inside and right after the JSON from a complete one.            *)
(***************************************************************************)
EXTENDS Naturals, FiniteSets, Sequences

CONSTANTS
  Writer,     \* goroutines that call Write
  Execution,  \* records
  None,
  MaxCrashes  \* bound: processes that die

ASSUME SinkAssumption == None \notin Writer \cup Execution /\ MaxCrashes \in Nat

Newline == 3
Byte    == [of : Execution, part : 1 .. Newline]
Line(x) == [i \in 1 .. Newline |-> [of |-> x, part |-> i]]

VARIABLES
  file,      \* the bytes the operating system has
  proc,      \* "running", "closed" (after Close) or "down"
  mu,        \* holder of the sink's mutex
  poisoned,
  pc,        \* where each writer is in Write
  job,       \* its record
  start,     \* info.Size() as it read it
  acked,     \* history: records whose Write returned nil
  crashes,   \* history: processes that died,
  cut        \*          and those that left an append unfinished

vars == <<file, proc, mu, poisoned, pc, job, start, acked, crashes, cut>>

Label == {"idle", "called", "locked", "append", "truncate", "stored"}

TypeOK ==
  /\ file \in Seq(Byte)
  /\ proc \in {"running", "closed", "down"}
  /\ mu \in Writer \cup {None}
  /\ poisoned \in BOOLEAN
  /\ pc \in [Writer -> Label]
  /\ job \in [Writer -> Execution \cup {None}]
  /\ start \in [Writer -> Nat]
  /\ acked \subseteq Execution
  /\ crashes \in Nat /\ cut \in Nat

Init ==
  /\ file = << >>
  /\ proc = "running"
  /\ mu = None
  /\ poisoned = FALSE
  /\ pc = [w \in Writer |-> "idle"]
  /\ job = [w \in Writer |-> None]
  /\ start = [w \in Writer |-> 0]
  /\ acked = {}
  /\ crashes = 0
  /\ cut = 0

GoTo(w, label) == pc' = [pc EXCEPT ![w] = label]

(* Records are written until their Write has returned nil: the Processor tries  *)
(* again after an error, and never hands one record to two goroutines.          *)
Write(w) ==
  /\ proc # "down" /\ pc[w] = "idle"
  /\ \E x \in Execution \ acked :
       /\ \A v \in Writer : job[v] # x
       /\ job' = [job EXCEPT ![w] = x]
  /\ GoTo(w, "called")
  /\ UNCHANGED <<file, proc, mu, poisoned, start, acked, crashes, cut>>

(* Every return, with the deferred unlock of the caller that holds mu.          *)
Return(w) ==
  /\ GoTo(w, "idle")
  /\ job' = [job EXCEPT ![w] = None]
  /\ start' = [start EXCEPT ![w] = 0]
  /\ mu' = IF mu = w THEN None ELSE mu

(* The context is done before or after the wait for mu, or the file has no size. *)
Refuse(w) ==
  /\ pc[w] \in {"called", "locked"}
  /\ Return(w)
  /\ UNCHANGED <<file, proc, poisoned, acked, crashes, cut>>

(* Mutant: the mutex excludes nobody. *)
LockFree(w) == mu' = w

Lock(w) == mu = None /\ mu' = w

Acquire(w) ==
  /\ pc[w] = "called"
  /\ Lock(w)
  /\ GoTo(w, "locked")
  /\ UNCHANGED <<file, proc, poisoned, job, start, acked, crashes, cut>>

(* Mutant: a poisoned sink goes on. *)
UsableAlways == proc = "running"

(* A closed file has no Stat; a poisoned sink rejects every later write.        *)
Usable == proc = "running" /\ ~poisoned

Stat(w) ==
  /\ pc[w] = "locked"
  /\ Usable
  /\ start' = [start EXCEPT ![w] = Len(file)]
  /\ GoTo(w, "append")
  /\ UNCHANGED <<file, proc, mu, poisoned, job, acked, crashes, cut>>

(* Mutant: a record without its newline counts as written. *)
CompleteJSON(n) == n >= Newline - 1

(* The file took all of a line.  os.File returns an error exactly with a short    *)
(* write, so a whole line with an error, which jsonl.go:85 would take back, does *)
(* not occur.                                                                   *)
Complete(n) == n = Newline

AppendLine(w) ==
  /\ pc[w] = "append"
  /\ \E n \in 0 .. Newline :
       /\ file' = file \o SubSeq(Line(job[w]), 1, n)
       /\ GoTo(w, IF Complete(n) THEN "stored" ELSE "truncate")
  /\ UNCHANGED <<proc, mu, poisoned, job, start, acked, crashes, cut>>

(* Mutant: what a short write left stays in the file. *)
NoRollback(w) == UNCHANGED file

Rollback(w) == file' = SubSeq(file, 1, start[w])

Truncate(w) ==
  /\ pc[w] = "truncate"
  /\ \/ Rollback(w) /\ UNCHANGED poisoned
     \/ UNCHANGED file /\ poisoned' = TRUE
  /\ Return(w)
  /\ UNCHANGED <<proc, acked, crashes, cut>>

Succeed(w) ==
  /\ pc[w] = "stored"
  /\ acked' = acked \cup {job[w]}
  /\ Return(w)
  /\ UNCHANGED <<file, proc, poisoned, crashes, cut>>

Close ==
  /\ proc = "running" /\ mu = None
  /\ proc' = "closed"
  /\ UNCHANGED <<file, mu, poisoned, pc, job, start, acked, crashes, cut>>

Unfinished == poisoned \/ \E w \in Writer : pc[w] = "truncate"

(* The process ends, killed or of its own.  Nothing but the file survives.      *)
Crash ==
  /\ proc # "down" /\ crashes < MaxCrashes
  /\ proc' = "down"
  /\ mu' = None
  /\ poisoned' = FALSE
  /\ pc' = [w \in Writer |-> "idle"]
  /\ job' = [w \in Writer |-> None]
  /\ start' = [w \in Writer |-> 0]
  /\ crashes' = crashes + 1
  /\ cut' = IF Unfinished THEN cut + 1 ELSE cut
  /\ UNCHANGED <<file, acked>>

(* NewJSONL opens the file for appending and looks at nothing in it.            *)
NewJSONL ==
  /\ proc = "down"
  /\ proc' = "running"
  /\ UNCHANGED <<file, mu, poisoned, pc, job, start, acked, crashes, cut>>

Next ==
  \/ Close \/ Crash \/ NewJSONL
  \/ \E w \in Writer : \/ Write(w) \/ Refuse(w) \/ Acquire(w) \/ Stat(w)
                       \/ AppendLine(w) \/ Truncate(w) \/ Succeed(w)

Spec == Init /\ [][Next]_vars

------------------------------------------------------------------------------
(* The complete lines of a file, by the newlines in it; the lines that begin in *)
(* it, and those that end.                                                      *)
LinesUpTo(f) ==
  LET lines[n \in 0 .. Len(f)] ==
        IF n = 0 THEN << >>
        ELSE IF f[n].part = Newline THEN Append(lines[n - 1], f[n].of) ELSE lines[n - 1]
  IN  lines

Lines(f) == LinesUpTo(f)[Len(f)]
Begun(f) == {i \in DOMAIN f : f[i].part = 1}
Ended(f) == {i \in DOMAIN f : f[i].part = Newline}

(* ReadAll: it splits at the newlines, skips empty lines and gives up on one    *)
(* that is not the JSON of a record; the last line needs no newline.            *)
JSON(x) == SubSeq(Line(x), 1, Newline - 1)

Parsed(r) ==
  LET json == \E x \in Execution : r.line = JSON(x)
  IN  [ line |-> << >>,
        out  |-> IF ~r.err /\ json THEN Append(r.out, Head(r.line).of) ELSE r.out,
        err  |-> r.err \/ (r.line # << >> /\ ~json) ]

Scanned(r, b) == IF b.part = Newline THEN Parsed(r) ELSE [r EXCEPT !.line = Append(@, b)]

ReadUpTo(f) ==
  LET read[n \in 0 .. Len(f)] ==
        IF n = 0 THEN [line |-> << >>, out |-> << >>, err |-> FALSE]
        ELSE Scanned(read[n - 1], f[n])
  IN  read

ReadAll(f) == Parsed(ReadUpTo(f)[Len(f)])

------------------------------------------------------------------------------
(* The line of x, newline included, lies within the first n bytes of a file.   *)
Holds(f, x, n) == \E i \in Newline .. n : \A p \in 1 .. Newline :
                    f[i - Newline + p] = [of |-> x, part |-> p]

(* What Write said it stored stays in the file, whatever other writes, failed   *)
(* ones, rollbacks and crashes follow.                                          *)
AckedIsPersisted == \A x \in acked : Holds(file, x, Len(file))

(* A process damages the file at most once, and only by dying inside an append  *)
(* or after poisoning itself: every other short write leaves no trace.          *)
OneScarPerLife ==
  Cardinality(Begun(file)) <= Cardinality(Ended(file)) + cut + (IF Unfinished THEN 1 ELSE 0)

(* As long as no process left an append unfinished, ReadAll reads the file to   *)
(* its end and returns the records that were appended, in their order.          *)
ReadableUnlessCut ==
  cut = 0 /\ ~Unfinished => /\ ~ReadAll(file).err
                            /\ ReadAll(file).out = Lines(file)

(* The inductive invariant, in two layers.  The first: mu is held exactly in the *)
(* critical section; an append begins at the end of the file, and what a        *)
(* rollback will cut off lies behind every line that was acknowledged.          *)
Kept ==
  /\ TypeOK
  /\ AckedIsPersisted
  /\ \A w \in Writer :
       /\ mu = w <=> pc[w] \in {"locked", "append", "truncate", "stored"}
       /\ job[w] = None <=> pc[w] = "idle"
       /\ pc[w] = "append" => start[w] = Len(file)
       /\ pc[w] = "truncate" => /\ start[w] <= Len(file)
                                /\ \A x \in acked : Holds(file, x, start[w])
       /\ pc[w] = "stored" => Holds(file, job[w], Len(file))

(* A writer whose next step is on the file has a sink that is open and not      *)
(* poisoned: it looked after it got mu, and only the holder of mu poisons.      *)
InUse == \A w \in Writer : pc[w] \in {"append", "truncate"} => proc = "running" /\ ~poisoned

(* The second: a file with no append under way has the scars of the unfinished  *)
(* ones, and is line after line if there were none.  A short write adds at most *)
(* one scar and no newline, and what its rollback will leave is such a file.    *)
Whole(f) ==
  \E m \in 0 .. Len(f) :
    /\ Len(f) = Newline * m
    /\ \A j \in 1 .. m : \E x \in Execution : \A p \in 1 .. Newline :
         f[Newline * (j - 1) + p] = [of |-> x, part |-> p]

Intact(f) ==
  /\ Cardinality(Begun(f)) <= Cardinality(Ended(f)) + cut
  /\ cut = 0 => Whole(f)

Damage ==
  /\ OneScarPerLife
  /\ ~Unfinished => Intact(file)
  /\ \A w \in Writer : pc[w] = "truncate" =>
       /\ Intact(SubSeq(file, 1, start[w]))
       /\ \A i \in start[w] + 1 .. Len(file) : file[i].part # Newline

SinkInv == Kept /\ InUse /\ Damage

(* Not a byte is written through a sink that is poisoned or closed, by callers   *)
(* that waited for mu meanwhile either.                                         *)
SilentOnceBroken == [][ poisoned \/ proc # "running" => UNCHANGED file ]_vars

(* The sink keeps the promise the Processor relies on: a Write that returns nil *)
(* appended one complete line, one that fails none, and lines never change.     *)
CallAt(label) == CASE label = "idle"   -> "idle"
                   [] label = "stored" -> "stored"
                   [] OTHER            -> "writing"

Promise == INSTANCE AppendLog WITH
  log   <- Lines(file),
  state <- [w \in Writer |-> CallAt(pc[w])]

KeepsPromise == Promise!Spec
==============================================================================
