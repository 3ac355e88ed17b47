--------------------------- MODULE JSONLSinkProofs ---------------------------
(***************************************************************************)
(* Proofs about the evidence file: what was acknowledged stays in it, a     *)
(* broken sink writes nothing, a process scars the file at most once, what  *)
(* has no scar can be read, and the sink implements AppendLog.             *)
(***************************************************************************)
EXTENDS JSONLSink, FiniteSetTheorems, WellFoundedInduction, TLAPS

(* A line within a common prefix of two files lies within both.               *)
LEMMA HoldsInPrefix ==
  ASSUME NEW f \in Seq(Byte), NEW g \in Seq(Byte), NEW n \in Nat, NEW m \in Nat, n <= m,
         \A i \in 1 .. n : g[i] = f[i], NEW x, Holds(f, x, n)
  PROVE  Holds(g, x, m)
<1>1. PICK i \in Newline .. n : \A p \in 1 .. Newline : f[i - Newline + p] = [of |-> x, part |-> p]
  BY DEF Holds
<1>2. i \in Newline .. m
  BY <1>1 DEF Newline
<1>3. \A p \in 1 .. Newline : g[i - Newline + p] = [of |-> x, part |-> p]
  <2> TAKE p \in 1 .. Newline
  <2>1. i - Newline + p \in 1 .. n
    BY <1>1 DEF Newline
  <2> QED
    BY <2>1, <1>1
<1> QED
  BY <1>2, <1>3 DEF Holds

(* A part of a line is a sequence of bytes.                                   *)
LEMMA LineType ==
  ASSUME NEW x \in Execution, NEW n \in 0 .. Newline
  PROVE  /\ SubSeq(Line(x), 1, n) \in Seq(Byte)
         /\ Len(SubSeq(Line(x), 1, n)) = n
         /\ \A p \in 1 .. n : SubSeq(Line(x), 1, n)[p] = [of |-> x, part |-> p]
<1>1. Line(x) \in Seq(Byte) /\ Len(Line(x)) = Newline
  BY DEF Line, Byte, Newline
<1> QED
  BY <1>1 DEF Line, Newline

(* Write appends to what is there: every line stays where it is, and a complete *)
(* append leaves the line of the record at the end.                            *)
LEMMA AppendKeeps ==
  ASSUME file \in Seq(Byte), NEW x \in Execution, NEW n \in 0 .. Newline,
         file' = file \o SubSeq(Line(x), 1, n)
  PROVE  /\ file' \in Seq(Byte)
         /\ Len(file') = Len(file) + n
         /\ \A i \in 1 .. Len(file) : file'[i] = file[i]
         /\ Complete(n) => Holds(file', x, Len(file'))
<1> DEFINE s == SubSeq(Line(x), 1, n)
<1>1. s \in Seq(Byte) /\ Len(s) = n /\ \A p \in 1 .. n : s[p] = [of |-> x, part |-> p]
  BY LineType
<1> HIDE DEF s
<1>2. file' = file \o s
  BY DEF s
<1>3. /\ file' \in Seq(Byte) /\ Len(file') = Len(file) + n
      /\ \A i \in 1 .. Len(file) : file'[i] = file[i]
      /\ \A p \in 1 .. n : file'[Len(file) + p] = s[p]
  <2>1. file' \in Seq(Byte) /\ Len(file') = Len(file) + n
    BY <1>1, <1>2
  <2>2. \A i \in 1 .. Len(file) : file'[i] = file[i]
    BY <1>1, <1>2
  <2>3. \A p \in 1 .. n : file'[Len(file) + p] = s[p]
    <3> TAKE p \in 1 .. n
    <3>1. Len(file) \in Nat /\ Len(s) = n /\ p \in Nat /\ 1 <= p /\ p <= n
      BY <1>1
    <3>2. (file \o s)[Len(file) + p] = s[p]
      BY <1>1, <3>1
    <3> QED
      BY <1>2, <3>2
  <2> QED
    BY <2>1, <2>2, <2>3
<1>4. ASSUME Complete(n) PROVE Holds(file', x, Len(file'))
  <2>1. n = Newline /\ Len(file') \in Newline .. Len(file')
    BY <1>3, <1>4 DEF Complete, Newline
  <2>2. \A p \in 1 .. Newline : file'[Len(file') - Newline + p] = [of |-> x, part |-> p]
    <3> TAKE p \in 1 .. Newline
    <3>1. Len(file') - Newline + p = Len(file) + p
      BY <1>3, <2>1 DEF Newline
    <3>2. file'[Len(file) + p] = s[p] /\ s[p] = [of |-> x, part |-> p]
      BY <1>1, <1>3, <2>1
    <3> QED
      BY <3>1, <3>2
  <2> QED
    BY <2>1, <2>2 DEF Holds
<1> QED
  BY <1>3, <1>4

(* A rollback cuts the file back to a prefix of it.                           *)
LEMMA RollbackKeeps ==
  ASSUME file \in Seq(Byte), NEW n \in Nat, n <= Len(file), file' = SubSeq(file, 1, n)
  PROVE  file' \in Seq(Byte) /\ Len(file') = n /\ \A i \in 1 .. n : file'[i] = file[i]
OBVIOUS

(* What Kept says of one writer.                                              *)
WriterInv(w) ==
  /\ mu = w <=> pc[w] \in {"locked", "append", "truncate", "stored"}
  /\ job[w] = None <=> pc[w] = "idle"
  /\ pc[w] = "append" => start[w] = Len(file)
  /\ pc[w] = "truncate" => /\ start[w] <= Len(file)
                           /\ \A x \in acked : Holds(file, x, start[w])
  /\ pc[w] = "stored" => Holds(file, job[w], Len(file))

LEMMA KeptByWriter == Kept <=> TypeOK /\ AckedIsPersisted /\ \A w \in Writer : WriterInv(w)
BY DEF Kept, WriterInv

(* Every step keeps every variable in its type.                               *)
LEMMA TypeStep == Kept /\ [Next]_vars => TypeOK'
<1> SUFFICES ASSUME Kept, [Next]_vars PROVE TypeOK'
  OBVIOUS
<1>0. TypeOK /\ \A w \in Writer : WriterInv(w)
  BY KeptByWriter
<1> USE SinkAssumption
<1>1. CASE UNCHANGED vars
  BY <1>0, <1>1 DEF TypeOK, vars
<1>2. CASE Close \/ Crash \/ NewJSONL
  <2>1. CASE Close \/ NewJSONL
    BY <1>0, <2>1 DEF TypeOK, Close, NewJSONL
  <2>2. CASE Crash
    <3>1. /\ pc' \in [Writer -> Label] /\ job' \in [Writer -> Execution \cup {None}]
          /\ start' \in [Writer -> Nat]
      BY <2>2 DEF Crash, Label
    <3>2. crashes' \in Nat /\ cut' \in Nat
      BY <1>0, <2>2 DEF TypeOK, Crash
    <3> QED
      BY <1>0, <2>2, <3>1, <3>2 DEF TypeOK, Crash
  <2> QED
    BY <1>2, <2>1, <2>2
<1>3. ASSUME NEW w \in Writer, Write(w) \/ Refuse(w) \/ Acquire(w) \/ Stat(w) PROVE TypeOK'
  <2>1. CASE Write(w)
    BY <1>0, <2>1 DEF TypeOK, Write, GoTo, Label
  <2>2. CASE Refuse(w)
    BY <1>0, <2>2 DEF TypeOK, Refuse, Return, GoTo, Label
  <2>3. CASE Acquire(w)
    BY <1>0, <2>3 DEF TypeOK, Acquire, Lock, GoTo, Label
  <2>4. CASE Stat(w)
    <3>1. Len(file) \in Nat
      BY <1>0 DEF TypeOK
    <3> QED
      BY <1>0, <2>4, <3>1 DEF TypeOK, Stat, GoTo, Label
  <2> QED
    BY <1>3, <2>1, <2>2, <2>3, <2>4
<1>4. ASSUME NEW w \in Writer, AppendLine(w) PROVE TypeOK'
  <2>1. job[w] \in Execution
    BY <1>0, <1>4 DEF TypeOK, WriterInv, AppendLine
  <2>2. file' \in Seq(Byte)
    BY <1>0, <1>4, <2>1, AppendKeeps DEF TypeOK, AppendLine
  <2> QED
    BY <1>0, <1>4, <2>2 DEF TypeOK, AppendLine, GoTo, Label
<1>5. ASSUME NEW w \in Writer, Truncate(w) PROVE TypeOK'
  <2>1. start[w] \in Nat /\ start[w] <= Len(file)
    BY <1>0, <1>5 DEF TypeOK, WriterInv, Truncate
  <2>2. file' \in Seq(Byte)
    BY <1>0, <1>5, <2>1, RollbackKeeps DEF TypeOK, Truncate, Rollback
  <2> QED
    BY <1>0, <1>5, <2>2 DEF TypeOK, Truncate, Return, GoTo, Label
<1>6. ASSUME NEW w \in Writer, Succeed(w) PROVE TypeOK'
  <2>1. job[w] \in Execution
    BY <1>0, <1>6 DEF TypeOK, WriterInv, Succeed
  <2> QED
    BY <1>0, <1>6, <2>1 DEF TypeOK, Succeed, Return, GoTo, Label
<1> QED
  BY <1>1, <1>2, <1>3, <1>4, <1>5, <1>6 DEF Next

(* The three steps that touch neither the file nor what was acknowledged.     *)
LEMMA QuietStep ==
  ASSUME Kept, NEW w \in Writer, Write(w) \/ Refuse(w) \/ Acquire(w) \/ Stat(w)
  PROVE  AckedIsPersisted' /\ \A v \in Writer : WriterInv(v)'
<1>0. TypeOK /\ AckedIsPersisted /\ \A v \in Writer : WriterInv(v)
  BY KeptByWriter
<1>1. UNCHANGED <<file, acked>>
  BY DEF Write, Refuse, Acquire, Stat
<1>2. ASSUME NEW v \in Writer PROVE WriterInv(v)'
  <2> USE SinkAssumption
  <2>0. WriterInv(v) /\ WriterInv(w)
    BY <1>0
  <2>1. CASE Write(w)
    BY <1>0, <1>1, <2>0, <2>1 DEF WriterInv, TypeOK, Write, GoTo
  <2>2. CASE Refuse(w)
    BY <1>0, <1>1, <2>0, <2>2 DEF WriterInv, TypeOK, Refuse, Return, GoTo
  <2>3. CASE Acquire(w)
    BY <1>0, <1>1, <2>0, <2>3 DEF WriterInv, TypeOK, Acquire, Lock, GoTo
  <2>4. CASE Stat(w)
    BY <1>0, <1>1, <2>0, <2>4 DEF WriterInv, TypeOK, Stat, GoTo
  <2> QED
    BY <2>1, <2>2, <2>3, <2>4
<1> QED
  BY <1>0, <1>1, <1>2 DEF AckedIsPersisted

(* An append moves no line; only the writer at it can be in the critical       *)
(* section, so that no other rollback is under way.                            *)
LEMMA AppendStep ==
  ASSUME Kept, NEW w \in Writer, AppendLine(w)
  PROVE  AckedIsPersisted' /\ \A v \in Writer : WriterInv(v)'
<1>0. TypeOK /\ AckedIsPersisted /\ \A v \in Writer : WriterInv(v)
  BY KeptByWriter
<1>1. /\ pc[w] = "append" /\ job[w] \in Execution /\ start[w] = Len(file) /\ mu = w
      /\ file \in Seq(Byte) /\ start \in [Writer -> Nat] /\ pc \in [Writer -> Label]
  BY <1>0 DEF AppendLine, WriterInv, TypeOK
<1>2. PICK n \in 0 .. Newline : /\ file' = file \o SubSeq(Line(job[w]), 1, n)
                                /\ pc' = [pc EXCEPT ![w] = IF Complete(n) THEN "stored" ELSE "truncate"]
  BY DEF AppendLine, GoTo
<1>3. /\ file' \in Seq(Byte) /\ Len(file') = Len(file) + n
      /\ \A i \in 1 .. Len(file) : file'[i] = file[i]
      /\ Complete(n) => Holds(file', job[w], Len(file'))
  BY <1>1, <1>2, AppendKeeps
<1>4. UNCHANGED <<mu, job, start, acked>>
  BY DEF AppendLine
<1>5. Len(file) \in Nat /\ Len(file') \in Nat /\ Len(file) <= Len(file')
  BY <1>1, <1>3 DEF Newline
<1>6. \A x \in acked : Holds(file', x, Len(file)) /\ Holds(file', x, Len(file'))
  BY <1>0, <1>1, <1>3, <1>5, HoldsInPrefix DEF AckedIsPersisted
<1>7. ASSUME NEW v \in Writer PROVE WriterInv(v)'
  <2>1. CASE v = w
    BY <1>0, <1>1, <1>2, <1>3, <1>4, <1>5, <1>6, <2>1 DEF WriterInv
  <2>2. CASE v # w
    BY <1>0, <1>1, <1>2, <1>4, <2>2 DEF WriterInv
  <2> QED
    BY <2>1, <2>2
<1> QED
  BY <1>4, <1>6, <1>7 DEF AckedIsPersisted

(* A rollback cuts off nothing that was acknowledged.                         *)
LEMMA TruncateStep ==
  ASSUME Kept, NEW w \in Writer, Truncate(w)
  PROVE  AckedIsPersisted' /\ \A v \in Writer : WriterInv(v)'
<1>0. TypeOK /\ AckedIsPersisted /\ \A v \in Writer : WriterInv(v)
  BY KeptByWriter
<1>1. /\ pc[w] = "truncate" /\ mu = w /\ start[w] \in Nat /\ start[w] <= Len(file)
      /\ \A x \in acked : Holds(file, x, start[w])
      /\ file \in Seq(Byte) /\ start \in [Writer -> Nat] /\ pc \in [Writer -> Label]
      /\ job \in [Writer -> Execution \cup {None}]
  BY <1>0 DEF Truncate, WriterInv, TypeOK
<1>2. /\ pc' = [pc EXCEPT ![w] = "idle"] /\ job' = [job EXCEPT ![w] = None]
      /\ mu' = None /\ start' = [start EXCEPT ![w] = 0] /\ acked' = acked
  BY <1>1 DEF Truncate, Return, GoTo
<1>3. AckedIsPersisted'
  <2>1. CASE Rollback(w)
    <3>1. file' \in Seq(Byte) /\ Len(file') = start[w] /\ \A i \in 1 .. start[w] : file'[i] = file[i]
      BY <1>1, <2>1, RollbackKeeps DEF Rollback
    <3>2. ASSUME NEW x \in acked PROVE Holds(file', x, start[w])
      <4>1. Holds(file, x, start[w]) /\ start[w] <= start[w]
        BY <1>1
      <4> DEFINE n == start[w]
      <4>2. n \in Nat /\ n <= n /\ (\A i \in 1 .. n : file'[i] = file[i]) /\ Holds(file, x, n)
        BY <1>1, <3>1, <4>1
      <4> HIDE DEF n
      <4>3. Holds(file', x, n)
        BY <1>1, <3>1, <4>2, HoldsInPrefix
      <4> QED
        BY <4>3 DEF n
    <3> QED
      BY <1>2, <3>1, <3>2 DEF AckedIsPersisted
  <2>2. CASE file' = file
    BY <1>0, <1>2, <2>2 DEF AckedIsPersisted
  <2> QED
    BY <2>1, <2>2 DEF Truncate
<1>4. ASSUME NEW v \in Writer PROVE WriterInv(v)'
  BY <1>0, <1>1, <1>2, SinkAssumption DEF WriterInv
<1> QED
  BY <1>3, <1>4

(* A record is acknowledged when its line is in the file.                     *)
LEMMA SucceedStep ==
  ASSUME Kept, NEW w \in Writer, Succeed(w)
  PROVE  AckedIsPersisted' /\ \A v \in Writer : WriterInv(v)'
<1>0. TypeOK /\ AckedIsPersisted /\ \A v \in Writer : WriterInv(v)
  BY KeptByWriter
<1>1. /\ pc[w] = "stored" /\ mu = w /\ Holds(file, job[w], Len(file))
      /\ start \in [Writer -> Nat] /\ pc \in [Writer -> Label]
      /\ job \in [Writer -> Execution \cup {None}]
  BY <1>0 DEF Succeed, WriterInv, TypeOK
<1>2. /\ pc' = [pc EXCEPT ![w] = "idle"] /\ job' = [job EXCEPT ![w] = None]
      /\ mu' = None /\ start' = [start EXCEPT ![w] = 0] /\ acked' = acked \cup {job[w]}
      /\ file' = file
  BY <1>1 DEF Succeed, Return, GoTo
<1>3. AckedIsPersisted'
  BY <1>0, <1>1, <1>2 DEF AckedIsPersisted
<1>4. ASSUME NEW v \in Writer PROVE WriterInv(v)'
  BY <1>0, <1>1, <1>2, SinkAssumption DEF WriterInv
<1> QED
  BY <1>3, <1>4

(* A process that dies takes every writer with it and leaves the file alone.   *)
LEMMA ProcessStep ==
  ASSUME Kept, Close \/ Crash \/ NewJSONL
  PROVE  AckedIsPersisted' /\ \A v \in Writer : WriterInv(v)'
<1>0. TypeOK /\ AckedIsPersisted /\ \A v \in Writer : WriterInv(v)
  BY KeptByWriter
<1>1. CASE Close \/ NewJSONL
  BY <1>0, <1>1 DEF Close, NewJSONL, WriterInv, AckedIsPersisted
<1>2. CASE Crash
  BY <1>0, <1>2, SinkAssumption DEF Crash, WriterInv, AckedIsPersisted
<1> QED
  BY <1>1, <1>2

(* The first layer of SinkInv is inductive of itself.                            *)
LEMMA KeptAlways == Spec => []Kept
<1>1. Init => Kept
  <2> SUFFICES ASSUME Init PROVE Kept
    OBVIOUS
  <2>1. TypeOK
    <3>1. file \in Seq(Byte)
      BY DEF Init
    <3>2. /\ pc \in [Writer -> Label] /\ job \in [Writer -> Execution \cup {None}]
          /\ start \in [Writer -> Nat]
      BY DEF Init, Label
    <3>3. /\ proc \in {"running", "closed", "down"} /\ mu \in Writer \cup {None}
          /\ poisoned \in BOOLEAN /\ acked \subseteq Execution /\ crashes \in Nat /\ cut \in Nat
      BY DEF Init
    <3> QED
      BY <3>1, <3>2, <3>3 DEF TypeOK
  <2>2. AckedIsPersisted /\ \A w \in Writer : WriterInv(w)
    BY SinkAssumption DEF Init, AckedIsPersisted, WriterInv
  <2> QED
    BY <2>1, <2>2, KeptByWriter
<1>2. Kept /\ [Next]_vars => Kept'
  <2> SUFFICES ASSUME Kept, [Next]_vars PROVE Kept'
    OBVIOUS
  <2>1. TypeOK'
    BY TypeStep
  <2>2. AckedIsPersisted' /\ \A v \in Writer : WriterInv(v)'
    <3>1. CASE UNCHANGED vars
      BY <3>1, KeptByWriter DEF vars, WriterInv, AckedIsPersisted
    <3> QED
      BY <3>1, QuietStep, AppendStep, TruncateStep, SucceedStep, ProcessStep DEF Next
  <2> QED
    BY <2>1, <2>2 DEF Kept, WriterInv
<1> QED
  BY <1>1, <1>2, PTL DEF Spec

(* A record whose Write returned nil stays in the evidence file, whole and where *)
(* it was put, through any number of writers, cut-short appends, rollbacks that  *)
(* succeed or fail, and processes that die and restart (jsonl.go, Write).        *)
THEOREM AckedPersists == Spec => []AckedIsPersisted
<1>1. Kept => AckedIsPersisted
  BY DEF Kept
<1> QED
  BY <1>1, KeptAlways, PTL

LEMMA InUseStep == Kept /\ InUse /\ [Next]_vars => InUse'
<1> SUFFICES ASSUME Kept, InUse, [Next]_vars PROVE InUse'
  OBVIOUS
<1>0. TypeOK /\ \A w \in Writer : WriterInv(w)
  BY KeptByWriter
<1>1. CASE UNCHANGED vars
  BY <1>1 DEF vars, InUse
<1>2. CASE Close
  BY <1>0, <1>2, SinkAssumption DEF Close, InUse, WriterInv
<1>3. CASE Crash \/ NewJSONL
  BY <1>3 DEF Crash, NewJSONL, InUse
<1>4. ASSUME NEW w \in Writer, Write(w) \/ Refuse(w) \/ Acquire(w) \/ Stat(w) \/ Succeed(w)
      PROVE  InUse'
  <2>1. CASE Stat(w)
    BY <1>0, <2>1 DEF InUse, TypeOK, Stat, Usable, GoTo
  <2>2. CASE Write(w) \/ Refuse(w) \/ Acquire(w) \/ Succeed(w)
    BY <1>0, <2>2 DEF InUse, TypeOK, Write, Refuse, Acquire, Succeed, Return, GoTo
  <2> QED
    BY <1>4, <2>1, <2>2
<1>5. ASSUME NEW w \in Writer, AppendLine(w) PROVE InUse'
  BY <1>0, <1>5 DEF InUse, TypeOK, AppendLine, GoTo
<1>6. ASSUME NEW w \in Writer, Truncate(w) PROVE InUse'
  <2>1. mu = w /\ pc' = [pc EXCEPT ![w] = "idle"] /\ pc \in [Writer -> Label]
    BY <1>0, <1>6 DEF Truncate, Return, GoTo, WriterInv, TypeOK
  <2>2. \A v \in Writer : pc'[v] \notin {"append", "truncate"}
    BY <1>0, <2>1 DEF WriterInv
  <2> QED
    BY <2>2 DEF InUse
<1> QED
  BY <1>1, <1>2, <1>3, <1>4, <1>5, <1>6 DEF Next

LEMMA InUseAlways == Spec => []InUse
<1>1. Init => InUse
  BY DEF Init, InUse
<1> QED
  BY <1>1, InUseStep, KeptAlways, PTL DEF Spec

(* Not a byte is written or cut off through a sink that is poisoned or closed,  *)
(* by callers that waited for mu while it broke either (jsonl.go, Write).       *)
THEOREM BrokenIsSilent == Spec => SilentOnceBroken
<1>1. InUse /\ [Next]_vars => [poisoned \/ proc # "running" => UNCHANGED file]_vars
  <2> SUFFICES ASSUME InUse, Next, poisoned \/ proc # "running" PROVE UNCHANGED file
    OBVIOUS
  <2>1. \A w \in Writer : ~AppendLine(w) /\ ~Truncate(w)
    BY DEF InUse, AppendLine, Truncate
  <2> QED
    BY <2>1 DEF Next, Close, Crash, NewJSONL, Write, Refuse, Acquire, Stat, Succeed
<1>2. Spec => [][poisoned \/ proc # "running" => UNCHANGED file]_vars
  BY <1>1, InUseAlways, PTL DEF Spec
<1> QED
  BY <1>2 DEF SilentOnceBroken

------------------------------------------------------------------------------
(* Induction up to n, with the statement as a set.                            *)
LEMMA UpTo ==
  ASSUME NEW n \in Nat, NEW Q, 0 \in Q, \A i \in 0 .. n - 1 : i \in Q => i + 1 \in Q
  PROVE  0 .. n \subseteq Q
<1> DEFINE Below == {ss \in Nat \X Nat : ss[1] < ss[2]}
           Rest  == {i \in 0 .. n : i \notin Q}
<1>1. IsWellFoundedOn(Below, Nat)
  BY NatLessThanWellFounded DEF OpToRel
<1> SUFFICES ASSUME Rest # {} PROVE FALSE
  OBVIOUS
<1>2. Rest \subseteq Nat
  OBVIOUS
<1>3. PICK x \in Rest : \A y \in Rest : ~ (<<y, x>> \in Below)
  <2> HIDE DEF Below, Rest
  <2> QED
    BY <1>1, <1>2, WFMin
<1>4. x \in 1 .. n /\ x - 1 \in 0 .. n - 1 /\ x - 1 \in Nat
  OBVIOUS
<1>5. <<x - 1, x>> \in Below
  BY <1>4
<1>6. x - 1 \in Q
  BY <1>3, <1>4, <1>5
<1> QED
  BY <1>4, <1>6

(* A scan of a sequence from its beginning, one element at a time, exists.     *)
IsStep(S, State, B) == S \in [State \X B -> State]

IsScan(g, S, first, f, State) ==
  /\ g \in [0 .. Len(f) -> State]
  /\ g[0] = first
  /\ \A i \in 1 .. Len(f) : g[i] = S[<<g[i - 1], f[i]>>]

LEMMA ScanExists ==
  ASSUME NEW State, NEW first \in State, NEW B, NEW f \in Seq(B), NEW S, IsStep(S, State, B)
  PROVE  \E g : IsScan(g, S, first, f, State)
<1> USE DEF IsStep
<1> DEFINE Scans(g, n) == g[0] = first /\ \A i \in 1 .. n : g[i] = S[<<g[i - 1], f[i]>>]
           Q == {n \in 0 .. Len(f) : \E g \in [0 .. n -> State] : Scans(g, n)}
<1>1. Len(f) \in Nat
  OBVIOUS
<1>2. 0 \in Q
  <2> DEFINE g == [i \in 0 .. 0 |-> first]
  <2>1. g \in [0 .. 0 -> State] /\ Scans(g, 0)
    OBVIOUS
  <2> HIDE DEF g, Scans
  <2> QED
    BY <1>1, <2>1
<1>3. ASSUME NEW n \in 0 .. Len(f) - 1, n \in Q PROVE n + 1 \in Q
  <2>1. PICK g \in [0 .. n -> State] : Scans(g, n)
    BY <1>3
  <2>2. n \in 0 .. n /\ n + 1 \in 1 .. Len(f) /\ g[n] \in State /\ f[n + 1] \in B
    BY <1>1
  <2>3. S[<<g[n], f[n + 1]>>] \in State
    BY <2>2
  <2> DEFINE h == [i \in 0 .. n + 1 |-> IF i = n + 1 THEN S[<<g[n], f[n + 1]>>] ELSE g[i]]
  <2>4. h \in [0 .. n + 1 -> State]
    BY <2>3
  <2>5. h[0] = first
    BY <1>1, <2>1
  <2>6. ASSUME NEW i \in 1 .. n + 1 PROVE h[i] = S[<<h[i - 1], f[i]>>]
    <3>1. CASE i = n + 1
      <4>1. h[i] = S[<<g[n], f[n + 1]>>]
        BY <3>1
      <4>2. i - 1 = n /\ h[i - 1] = g[n]
        BY <1>1, <3>1
      <4> QED
        BY <3>1, <4>1, <4>2
    <3>2. CASE i # n + 1
      <4>1. i \in 1 .. n /\ i - 1 \in 0 .. n
        BY <1>1, <3>2
      <4>2. h[i] = g[i] /\ h[i - 1] = g[i - 1]
        BY <1>1, <4>1
      <4> QED
        BY <2>1, <4>1, <4>2
    <3> QED
      BY <3>1, <3>2
  <2>7. Scans(h, n + 1)
    BY <2>5, <2>6
  <2> HIDE DEF h, Scans
  <2> QED
    BY <2>2, <2>4, <2>7
<1>4. 0 .. Len(f) \subseteq Q
  <2> HIDE DEF Q
  <2> QED
    BY <1>1, <1>2, <1>3, UpTo
<1>5. Len(f) \in Q
  BY <1>1, <1>4
<1> QED
  BY <1>5 DEF IsScan

------------------------------------------------------------------------------
(* The lines of a file, byte by byte.                                         *)
LEMMA LinesByByte ==
  ASSUME NEW f \in Seq(Byte)
  PROVE  /\ LinesUpTo(f) \in [0 .. Len(f) -> Seq(Execution)]
         /\ LinesUpTo(f)[0] = << >>
         /\ \A n \in 1 .. Len(f) :
              LinesUpTo(f)[n] = IF f[n].part = Newline THEN Append(LinesUpTo(f)[n - 1], f[n].of)
                                                       ELSE LinesUpTo(f)[n - 1]
<1> DEFINE Scan(g) == [n \in 0 .. Len(f) |->
                         IF n = 0 THEN << >>
                         ELSE IF f[n].part = Newline THEN Append(g[n - 1], f[n].of) ELSE g[n - 1]]
           S == [p \in Seq(Execution) \X Byte |->
                  IF p[2].part = Newline THEN Append(p[1], p[2].of) ELSE p[1]]
<1>1. Len(f) \in Nat /\ \A n \in 1 .. Len(f) : f[n] \in Byte
  OBVIOUS
<1>2. IsStep(S, Seq(Execution), Byte)
  BY DEF Byte, IsStep
<1>3. PICK g : IsScan(g, S, << >>, f, Seq(Execution))
  <2> HIDE DEF S
  <2>1. << >> \in Seq(Execution)
    OBVIOUS
  <2> QED
    BY <1>2, <2>1, ScanExists
<1>4. g = Scan(g)
  <2>1. ASSUME NEW n \in 1 .. Len(f)
        PROVE  g[n] = IF f[n].part = Newline THEN Append(g[n - 1], f[n].of) ELSE g[n - 1]
    <3>0. n - 1 \in 0 .. Len(f)
      BY <1>1
    <3>1. g[n - 1] \in Seq(Execution)
      BY <1>3, <3>0 DEF IsScan
    <3>2. <<g[n - 1], f[n]>> \in Seq(Execution) \X Byte
      BY <1>1, <3>1
    <3> QED
      BY <1>3, <3>2 DEF IsScan
  <2>2. ASSUME NEW n \in 0 .. Len(f) PROVE g[n] = Scan(g)[n]
    <3>1. CASE n = 0
      BY <1>3, <3>1 DEF IsScan
    <3>2. CASE n # 0
      <4>1. n \in 1 .. Len(f)
        BY <1>1, <3>2
      <4> QED
        BY <2>1, <4>1, <3>2
    <3> QED
      BY <3>1, <3>2
  <2> QED
    BY <1>3, <2>2 DEF IsScan
<1>5. LinesUpTo(f) = CHOOSE h : h = Scan(h)
  BY DEF LinesUpTo
<1>6. LinesUpTo(f) = Scan(LinesUpTo(f))
  <2> DEFINE P(h) == h = Scan(h)
  <2> HIDE DEF Scan
  <2>1. \E h : P(h)
    BY <1>4
  <2> QED
    BY <1>5, <2>1
<1> DEFINE L == LinesUpTo(f)
<1>7. L[0] = << >>
  BY <1>1, <1>6
<1>8. ASSUME NEW n \in 1 .. Len(f)
      PROVE  L[n] = IF f[n].part = Newline THEN Append(L[n - 1], f[n].of) ELSE L[n - 1]
  <2>1. n \in 0 .. Len(f) /\ n # 0
    BY <1>1
  <2> HIDE DEF L
  <2>2. L = Scan(L)
    BY <1>6 DEF L
  <2>3. L[n] = Scan(L)[n]
    BY <2>2
  <2> QED
    BY <2>1, <2>3
<1>9. ASSUME NEW n \in 0 .. Len(f) PROVE L[n] \in Seq(Execution)
  <2> HIDE DEF L
  <2> DEFINE Q == {i \in 0 .. Len(f) : L[i] \in Seq(Execution)}
  <2>0. L[0] \in Seq(Execution)
    BY <1>7
  <2>1. 0 \in Q
    BY <1>1, <2>0
  <2>2. ASSUME NEW i \in 0 .. Len(f) - 1, i \in Q PROVE i + 1 \in Q
    <3>1. i + 1 \in 1 .. Len(f) /\ (i + 1) - 1 = i
      BY <1>1
    <3>2. f[i + 1] \in Byte
      BY <1>1, <3>1
    <3>3. f[i + 1].of \in Execution
      BY <3>2 DEF Byte
    <3>4. L[i + 1] = IF f[i + 1].part = Newline THEN Append(L[i], f[i + 1].of) ELSE L[i]
      BY <1>8, <3>1
    <3>5. i + 1 \in 0 .. Len(f) /\ L[i] \in Seq(Execution)
      BY <1>1, <2>2, <3>1
    <3>6. L[i + 1] \in Seq(Execution)
      BY <3>3, <3>4, <3>5
    <3> QED
      BY <3>5, <3>6
  <2>3. 0 .. Len(f) \subseteq Q
    <3> HIDE DEF Q
    <3> QED
      BY <1>1, <2>1, <2>2, UpTo
  <2> QED
    BY <2>3
<1>10. L \in [0 .. Len(f) -> Seq(Execution)]
  <2>1. L = [n \in 0 .. Len(f) |-> L[n]]
    BY <1>6
  <2> HIDE DEF L
  <2> QED
    BY <1>9, <2>1
<1> QED
  BY <1>7, <1>8, <1>10

(* They depend on the bytes before only.                                      *)
LEMMA LinesOfPrefix ==
  ASSUME NEW f \in Seq(Byte), NEW g \in Seq(Byte), NEW n \in Nat, n <= Len(f), n <= Len(g),
         \A i \in 1 .. n : f[i] = g[i]
  PROVE  LinesUpTo(f)[n] = LinesUpTo(g)[n]
<1> DEFINE Q == {i \in 0 .. n : LinesUpTo(f)[i] = LinesUpTo(g)[i]}
<1>1. 0 \in Q
  BY LinesByByte
<1>2. ASSUME NEW i \in 0 .. n - 1, i \in Q PROVE i + 1 \in Q
  <2>1. i + 1 \in 1 .. n /\ i + 1 \in 1 .. Len(f) /\ i + 1 \in 1 .. Len(g) /\ (i + 1) - 1 = i
    OBVIOUS
  <2>2. f[i + 1] = g[i + 1]
    BY <2>1
  <2>3. LinesUpTo(f)[i + 1] = IF f[i + 1].part = Newline THEN Append(LinesUpTo(f)[i], f[i + 1].of)
                                                        ELSE LinesUpTo(f)[i]
    BY <2>1, LinesByByte
  <2>4. LinesUpTo(g)[i + 1] = IF g[i + 1].part = Newline THEN Append(LinesUpTo(g)[i], g[i + 1].of)
                                                        ELSE LinesUpTo(g)[i]
    BY <2>1, LinesByByte
  <2> QED
    BY <1>2, <2>1, <2>2, <2>3, <2>4
<1>3. 0 .. n \subseteq Q
  <2> HIDE DEF Q
  <2> QED
    BY <1>1, <1>2, UpTo
<1> QED
  BY <1>3

(* Bytes without a newline among them make no line.                           *)
LEMMA LinesUnended ==
  ASSUME NEW f \in Seq(Byte), NEW m \in Nat, NEW n \in Nat, m <= n, n <= Len(f),
         \A i \in m + 1 .. n : f[i].part # Newline
  PROVE  LinesUpTo(f)[n] = LinesUpTo(f)[m]
<1> DEFINE Q == {i \in 0 .. n - m : LinesUpTo(f)[m + i] = LinesUpTo(f)[m]}
<1>1. n - m \in Nat /\ 0 \in Q
  OBVIOUS
<1>2. ASSUME NEW i \in 0 .. (n - m) - 1, i \in Q PROVE i + 1 \in Q
  <2>1. m + (i + 1) \in m + 1 .. n /\ m + (i + 1) \in 1 .. Len(f) /\ (m + (i + 1)) - 1 = m + i
    OBVIOUS
  <2>2. LinesUpTo(f)[m + (i + 1)] = LinesUpTo(f)[m + i]
    BY <2>1, LinesByByte
  <2> QED
    BY <1>2, <2>2
<1>3. 0 .. n - m \subseteq Q
  <2> HIDE DEF Q
  <2> QED
    BY <1>1, <1>2, UpTo
<1>4. n - m \in Q
  <2> HIDE DEF Q
  <2>1. n - m \in 0 .. n - m
    BY <1>1
  <2> QED
    BY <1>3, <2>1
<1>5. m + (n - m) = n
  OBVIOUS
<1> QED
  BY <1>4, <1>5

------------------------------------------------------------------------------
(* ReadAll, byte by byte.                                                     *)
ReadState == [line : Seq(Byte), out : Seq(Execution), err : BOOLEAN]
Unread    == [line |-> << >>, out |-> << >>, err |-> FALSE]

LEMMA JSONType ==
  ASSUME NEW x \in Execution
  PROVE  /\ JSON(x) \in Seq(Byte) /\ Len(JSON(x)) = 2
         /\ JSON(x)[1] = [of |-> x, part |-> 1] /\ JSON(x)[2] = [of |-> x, part |-> 2]
<1>1. 2 \in 0 .. Newline /\ JSON(x) = SubSeq(Line(x), 1, 2)
  BY DEF JSON, Newline
<1> QED
  BY <1>1, LineType

LEMMA ScannedType ==
  ASSUME NEW r \in ReadState, NEW b \in Byte
  PROVE  Scanned(r, b) \in ReadState
<1>1. r.line \in Seq(Byte) /\ r.out \in Seq(Execution) /\ r.err \in BOOLEAN
  BY DEF ReadState
<1>2. Parsed(r) \in ReadState
  <2> DEFINE json == \E x \in Execution : r.line = JSON(x)
             out  == IF ~r.err /\ json THEN Append(r.out, Head(r.line).of) ELSE r.out
             err  == r.err \/ (r.line # << >> /\ ~json)
  <2>1. Parsed(r) = [line |-> << >>, out |-> out, err |-> err]
    BY DEF Parsed
  <2>2. out \in Seq(Execution)
    <3>1. ASSUME json PROVE Head(r.line).of \in Execution
      <4>1. PICK x \in Execution : r.line = JSON(x)
        BY <3>1
      <4>2. Head(r.line) = r.line[1]
        BY <4>1, JSONType
      <4>3. JSON(x)[1] = [of |-> x, part |-> 1]
        BY JSONType
      <4>4. JSON(x)[1].of = x
        BY <4>3
      <4> QED
        BY <4>1, <4>2, <4>4
    <3> HIDE DEF json
    <3>2. CASE json
      BY <1>1, <3>1, <3>2
    <3>3. CASE ~json
      BY <1>1, <3>3
    <3> QED
      BY <3>2, <3>3
  <2>3. err \in BOOLEAN /\ << >> \in Seq(Byte)
    BY <1>1
  <2> HIDE DEF out, err
  <2> QED
    BY <2>1, <2>2, <2>3 DEF ReadState
<1>3. [r EXCEPT !.line = Append(@, b)] \in ReadState
  <2>1. Append(r.line, b) \in Seq(Byte)
    BY <1>1
  <2> QED
    BY <1>1, <2>1 DEF ReadState
<1> QED
  BY <1>2, <1>3 DEF Scanned

(* The three cases of a byte: inside a line, the end of a record, the end of   *)
(* the file behind a newline.                                                  *)
LEMMA ScannedCases ==
  ASSUME NEW line \in Seq(Byte), NEW out \in Seq(Execution)
  PROVE  LET r == [line |-> line, out |-> out, err |-> FALSE]
         IN  /\ \A b \in Byte : b.part # Newline =>
                  Scanned(r, b) = [line |-> Append(line, b), out |-> out, err |-> FALSE]
             /\ \A x \in Execution : line = JSON(x) =>
                  Parsed(r) = [line |-> << >>, out |-> Append(out, x), err |-> FALSE]
             /\ line = << >> => Parsed(r) = r
<1> DEFINE r == [line |-> line, out |-> out, err |-> FALSE]
           json == \E x \in Execution : r.line = JSON(x)
<1>1. \A b \in Byte : b.part # Newline =>
        Scanned(r, b) = [line |-> Append(line, b), out |-> out, err |-> FALSE]
  BY DEF Scanned
<1>2. Parsed(r) = [ line |-> << >>,
                    out  |-> IF ~r.err /\ json THEN Append(r.out, Head(r.line).of) ELSE r.out,
                    err  |-> r.err \/ (r.line # << >> /\ ~json) ]
  BY DEF Parsed
<1>3. r.line = line /\ r.out = out /\ r.err = FALSE
  OBVIOUS
<1>4. ASSUME NEW x \in Execution, line = JSON(x)
      PROVE  Parsed(r) = [line |-> << >>, out |-> Append(out, x), err |-> FALSE]
  <2>1. json /\ Head(line).of = x
    <3>0. Len(line) = 2 /\ line[1] = [of |-> x, part |-> 1]
      BY <1>4, JSONType
    <3>1. Len(line) = 2 /\ line[1].of = x
      BY <3>0
    <3> QED
      BY <1>3, <1>4, <3>1
  <2> HIDE DEF json, r
  <2> QED
    BY <1>2, <1>3, <2>1
<1>5. ASSUME line = << >> PROVE Parsed(r) = r
  <2>1. ~json
    <3> SUFFICES ASSUME NEW x \in Execution, line = JSON(x) PROVE FALSE
      BY <1>3
    <3>1. Len(JSON(x)) = 2
      BY JSONType
    <3> QED
      BY <1>5, <3>1
  <2> HIDE DEF json
  <2> QED
    BY <1>2, <1>3, <1>5, <2>1
<1> QED
  BY <1>1, <1>4, <1>5

LEMMA ReadByByte ==
  ASSUME NEW f \in Seq(Byte)
  PROVE  /\ ReadUpTo(f)[0] = Unread
         /\ \A n \in 1 .. Len(f) : ReadUpTo(f)[n] = Scanned(ReadUpTo(f)[n - 1], f[n])
<1> DEFINE Scan(g) == [n \in 0 .. Len(f) |-> IF n = 0 THEN Unread ELSE Scanned(g[n - 1], f[n])]
           S == [p \in ReadState \X Byte |-> Scanned(p[1], p[2])]
           R == ReadUpTo(f)
<1>1. Len(f) \in Nat /\ \A n \in 1 .. Len(f) : f[n] \in Byte
  OBVIOUS
<1>2. IsStep(S, ReadState, Byte)
  BY ScannedType DEF IsStep
<1>3. PICK g : IsScan(g, S, Unread, f, ReadState)
  <2> HIDE DEF S
  <2>1. Unread \in ReadState
    BY DEF Unread, ReadState
  <2> QED
    BY <1>2, <2>1, ScanExists
<1>4. g = Scan(g)
  <2>1. ASSUME NEW n \in 1 .. Len(f) PROVE g[n] = Scanned(g[n - 1], f[n])
    <3>1. n - 1 \in 0 .. Len(f)
      BY <1>1
    <3>2. <<g[n - 1], f[n]>> \in ReadState \X Byte
      BY <1>1, <1>3, <3>1 DEF IsScan
    <3> QED
      BY <1>3, <3>2 DEF IsScan
  <2>2. ASSUME NEW n \in 0 .. Len(f) PROVE g[n] = Scan(g)[n]
    <3>1. CASE n = 0
      BY <1>3, <3>1 DEF IsScan
    <3>2. CASE n # 0
      <4>1. n \in 1 .. Len(f)
        BY <1>1, <3>2
      <4> QED
        BY <2>1, <3>2, <4>1
    <3> QED
      BY <3>1, <3>2
  <2> QED
    BY <1>3, <2>2 DEF IsScan
<1>5. R = CHOOSE h : h = Scan(h)
  BY DEF ReadUpTo, Unread
<1>6. R = Scan(R)
  <2> DEFINE P(h) == h = Scan(h)
  <2> HIDE DEF Scan, R
  <2>1. \E h : P(h)
    BY <1>4
  <2> QED
    BY <1>5, <2>1
<1>7. R[0] = Unread
  <2> HIDE DEF R
  <2> QED
    BY <1>1, <1>6
<1>8. ASSUME NEW n \in 1 .. Len(f) PROVE R[n] = Scanned(R[n - 1], f[n])
  <2>1. n \in 0 .. Len(f) /\ n # 0
    BY <1>1
  <2> HIDE DEF R
  <2>2. R[n] = Scan(R)[n]
    BY <1>6
  <2> QED
    BY <2>1, <2>2
<1> QED
  BY <1>7, <1>8

(* A file of whole lines is read to its end, record after record.             *)
LEMMA ReadWhole ==
  ASSUME NEW f \in Seq(Byte), Whole(f)
  PROVE  ~ReadAll(f).err /\ ReadAll(f).out = Lines(f)
<1> DEFINE L == LinesUpTo(f)
           R == ReadUpTo(f)
           At(out) == [line |-> << >>, out |-> out, err |-> FALSE]
<1>1. PICK m \in Nat :
        /\ Len(f) = 3 * m
        /\ \A j \in 1 .. m : \E x \in Execution : \A p \in 1 .. 3 : f[3 * (j - 1) + p] = [of |-> x, part |-> p]
  <2>1. PICK m \in 0 .. Len(f) :
          /\ Len(f) = Newline * m
          /\ \A j \in 1 .. m : \E x \in Execution : \A p \in 1 .. Newline :
               f[Newline * (j - 1) + p] = [of |-> x, part |-> p]
    BY DEF Whole
  <2>2. m \in Nat /\ Len(f) = 3 * m
    BY <2>1 DEF Newline
  <2> QED
    BY <2>1, <2>2 DEF Newline
<1> DEFINE Q == {j \in 0 .. m : R[3 * j] = At(L[3 * j])}
<1>2. 0 \in Q
  BY LinesByByte, ReadByByte DEF Unread
<1>3. ASSUME NEW j \in 0 .. m - 1, j \in Q PROVE j + 1 \in Q
  <2>1. j + 1 \in 1 .. m /\ (j + 1) - 1 = j
    OBVIOUS
  <2>2. PICK x \in Execution : \A p \in 1 .. 3 : f[3 * j + p] = [of |-> x, part |-> p]
    <3>1. \E x \in Execution : \A p \in 1 .. 3 : f[3 * ((j + 1) - 1) + p] = [of |-> x, part |-> p]
      BY <1>1, <2>1
    <3> QED
      BY <2>1, <3>1
  <2> DEFINE i == 3 * j
  <2>3. /\ i \in Nat /\ i + 1 \in 1 .. Len(f) /\ i + 2 \in 1 .. Len(f) /\ i + 3 \in 1 .. Len(f)
        /\ (i + 1) - 1 = i /\ (i + 2) - 1 = i + 1 /\ (i + 3) - 1 = i + 2 /\ 3 * (j + 1) = i + 3
    BY <1>1, <2>1
  <2>4. f[i + 1] = [of |-> x, part |-> 1] /\ f[i + 2] = [of |-> x, part |-> 2] /\ f[i + 3] = [of |-> x, part |-> 3]
    BY <2>2
  <2> HIDE DEF i
  <2>5. R[i] = At(L[i])
    BY <1>3 DEF i
  <2>6. L[i] \in Seq(Execution) /\ L[i + 3] = Append(L[i], x)
    <3>1. L[i] \in Seq(Execution)
      <4>1. i \in 0 .. Len(f)
        BY <2>3
      <4>2. \A n \in 0 .. Len(f) : L[n] \in Seq(Execution)
        BY LinesByByte
      <4> HIDE DEF L
      <4> QED
        BY <4>1, <4>2
    <3> HIDE DEF L
    <3>2. \A n \in 1 .. Len(f) : L[n] = IF f[n].part = 3 THEN Append(L[n - 1], f[n].of) ELSE L[n - 1]
      BY LinesByByte DEF L, Newline
    <3>3. L[i + 1] = L[i]
      <4>1. f[i + 1].part # 3 /\ L[i + 1] = IF f[i + 1].part = 3 THEN Append(L[(i + 1) - 1], f[i + 1].of) ELSE L[(i + 1) - 1]
        BY <2>3, <2>4, <3>2
      <4> QED
        BY <2>3, <4>1
    <3>4. L[i + 2] = L[i + 1]
      <4>1. f[i + 2].part # 3 /\ L[i + 2] = IF f[i + 2].part = 3 THEN Append(L[(i + 2) - 1], f[i + 2].of) ELSE L[(i + 2) - 1]
        BY <2>3, <2>4, <3>2
      <4> QED
        BY <2>3, <4>1
    <3>5. L[i + 3] = Append(L[i + 2], x)
      <4>1. f[i + 3].part = 3 /\ f[i + 3].of = x
        BY <2>4
      <4>2. L[i + 3] = IF f[i + 3].part = 3 THEN Append(L[(i + 3) - 1], f[i + 3].of) ELSE L[(i + 3) - 1]
        BY <2>3, <3>2
      <4> QED
        BY <2>3, <4>1, <4>2
    <3> QED
      BY <3>1, <3>3, <3>4, <3>5
  <2>7. R[i + 1] = Scanned(R[i], f[i + 1]) /\ R[i + 2] = Scanned(R[i + 1], f[i + 2])
        /\ R[i + 3] = Scanned(R[i + 2], f[i + 3])
    <3> HIDE DEF R
    <3>1. \A n \in 1 .. Len(f) : R[n] = Scanned(R[n - 1], f[n])
      BY ReadByByte DEF R
    <3> QED
      BY <2>3, <3>1
  <2> HIDE DEF L, R
  <2>8. f[i + 1] \in Byte /\ f[i + 2] \in Byte
    BY <2>3
  <2> DEFINE b == f[i + 1]
             c == f[i + 2]
             one == Append(<< >>, b)
             two == Append(one, c)
  <2>9. one \in Seq(Byte) /\ two \in Seq(Byte)
    BY <2>8
  <2>10. two = JSON(x)
    <3>1. Len(two) = 2 /\ two[1] = b /\ two[2] = c
      BY <2>8
    <3> QED
      BY <2>4, <2>9, <3>1, JSONType
  <2>11. b.part # Newline /\ c.part # Newline /\ f[i + 3].part = Newline
    BY <2>4 DEF Newline
  <2>12. << >> \in Seq(Byte)
    OBVIOUS
  <2> HIDE DEF one, two
  <2>13. R[i + 1] = [line |-> one, out |-> L[i], err |-> FALSE]
    BY <2>5, <2>6, <2>7, <2>8, <2>11, <2>12, ScannedCases DEF one
  <2>14. R[i + 2] = [line |-> two, out |-> L[i], err |-> FALSE]
    BY <2>6, <2>7, <2>8, <2>9, <2>11, <2>13, ScannedCases DEF two
  <2>15. R[i + 3] = At(Append(L[i], x))
    <3>1. R[i + 3] = Parsed(R[i + 2])
      BY <2>7, <2>11 DEF Scanned
    <3>2. Parsed([line |-> two, out |-> L[i], err |-> FALSE]) = At(Append(L[i], x))
      BY <2>6, <2>9, <2>10, ScannedCases
    <3> QED
      BY <2>14, <3>1, <3>2
  <2>16. R[3 * (j + 1)] = At(L[3 * (j + 1)])
    BY <2>3, <2>6, <2>15
  <2> QED
    BY <2>1, <2>16
<1>4. 0 .. m \subseteq Q
  <2> HIDE DEF Q
  <2> QED
    BY <1>1, <1>2, <1>3, UpTo
<1>5. m \in 0 .. m
  BY <1>1
<1>6. R[Len(f)] = At(L[Len(f)])
  BY <1>1, <1>4, <1>5
<1>7. ReadAll(f) = Parsed(At(Lines(f)))
  BY <1>6 DEF ReadAll, Lines
<1>8. Parsed(At(Lines(f))) = At(Lines(f))
  <2>1. << >> \in Seq(Byte)
    OBVIOUS
  <2>2. Len(f) \in 0 .. Len(f)
    OBVIOUS
  <2>3. Lines(f) \in Seq(Execution)
    BY <2>2, LinesByByte DEF Lines
  <2> QED
    BY <2>1, <2>3, ScannedCases
<1> QED
  BY <1>7, <1>8

------------------------------------------------------------------------------
(* The scars.  What an append of n bytes does to them, and what a rollback to   *)
(* where it began leaves.                                                      *)
LEMMA ScarsType ==
  ASSUME NEW f \in Seq(Byte)
  PROVE  /\ IsFiniteSet(Begun(f)) /\ IsFiniteSet(Ended(f))
         /\ Cardinality(Begun(f)) \in Nat /\ Cardinality(Ended(f)) \in Nat
<1>1. Len(f) \in Int /\ DOMAIN f = 1 .. Len(f)
  OBVIOUS
<1>2. IsFiniteSet(1 .. Len(f))
  BY <1>1, FS_Interval
<1>3. Begun(f) \in SUBSET (1 .. Len(f)) /\ Ended(f) \in SUBSET (1 .. Len(f))
  BY <1>1 DEF Begun, Ended
<1> QED
  BY <1>2, <1>3, FS_Subset, FS_CardinalityType

Grown(f, x, n) == f \o SubSeq(Line(x), 1, n)

LEMMA ScarsOfAppend ==
  ASSUME NEW f \in Seq(Byte), NEW x \in Execution, NEW n \in 0 .. Newline, NEW g, g = Grown(f, x, n)
  PROVE  /\ g \in Seq(Byte) /\ SubSeq(g, 1, Len(f)) = f /\ Len(g) = Len(f) + n
         /\ \A p \in 1 .. n : g[Len(f) + p] = [of |-> x, part |-> p]
         /\ Cardinality(Begun(g)) = Cardinality(Begun(f)) + (IF n = 0 THEN 0 ELSE 1)
         /\ Cardinality(Ended(g)) = Cardinality(Ended(f)) + (IF n = Newline THEN 1 ELSE 0)
<1> DEFINE s == SubSeq(Line(x), 1, n)
<1>1. s \in Seq(Byte) /\ Len(s) = n /\ \A p \in 1 .. n : s[p] = [of |-> x, part |-> p]
  BY LineType
<1>2. g = f \o s
  BY DEF Grown
<1> HIDE DEF s
<1>3. n \in Nat /\ n <= 3
  BY DEF Newline
<1>4. /\ g \in Seq(Byte) /\ Len(g) = Len(f) + n
      /\ \A i \in 1 .. Len(f) : g[i] = f[i]
      /\ \A p \in 1 .. n : g[Len(f) + p] = [of |-> x, part |-> p]
  <2>1. g \in Seq(Byte) /\ Len(g) = Len(f) + n /\ \A i \in 1 .. Len(f) : g[i] = f[i]
    <3>1. f \o s \in Seq(Byte)
      BY <1>1
    <3>2. Len(f \o s) = Len(f) + Len(s)
      BY <1>1
    <3>3. \A i \in 1 .. Len(f) : (f \o s)[i] = f[i]
      BY <1>1
    <3> QED
      BY ONLY <1>1, <1>2, <3>1, <3>2, <3>3
  <2>2. \A p \in 1 .. n : g[Len(f) + p] = s[p]
    BY <1>1, <1>2, <1>3
  <2> QED
    BY <1>1, <2>1, <2>2
<1>5. SubSeq(g, 1, Len(f)) = f
  BY <1>1, <1>2
<1>6. DOMAIN f = 1 .. Len(f) /\ DOMAIN g = 1 .. Len(f) + n /\ Len(f) \in Nat
  BY <1>3, <1>4
<1>7. \A i \in DOMAIN g : \/ i \in DOMAIN f /\ g[i].part = f[i].part
                         \/ \E p \in 1 .. n : i = Len(f) + p /\ g[i].part = p
  <2> TAKE i \in DOMAIN g
  <2>1. CASE i \in DOMAIN f
    BY <1>4, <1>6, <2>1
  <2>2. CASE i \notin DOMAIN f
    <3>1. i - Len(f) \in 1 .. n /\ i = Len(f) + (i - Len(f))
      BY <1>3, <1>6, <2>2
    <3>2. g[i] = [of |-> x, part |-> i - Len(f)]
      BY <1>4, <3>1
    <3>3. g[i].part = i - Len(f)
      BY <3>2
    <3> QED
      BY <3>1, <3>3
  <2> QED
    BY <2>1, <2>2
<1>8. Begun(g) = IF n = 0 THEN Begun(f) ELSE Begun(f) \cup {Len(f) + 1}
  <2>1. ASSUME n # 0 PROVE Len(f) + 1 \in DOMAIN g /\ g[Len(f) + 1].part = 1
    <3>1. 1 \in 1 .. n
      BY <1>3, <2>1
    <3>2. g[Len(f) + 1] = [of |-> x, part |-> 1]
      BY <1>4, <3>1
    <3> QED
      BY <1>3, <1>6, <2>1, <3>2
  <2>2. \A i \in DOMAIN f : i \in DOMAIN g /\ g[i].part = f[i].part
    BY <1>3, <1>4, <1>6
  <2>3. CASE n = 0
    <3>1. DOMAIN g = DOMAIN f
      BY <1>6, <2>3
    <3> QED
      BY <2>2, <2>3, <3>1 DEF Begun
  <2>4. CASE n # 0
    <3>1. \A i \in Begun(g) : i \in Begun(f) \/ i = Len(f) + 1
      BY <1>7 DEF Begun
    <3>2. Begun(f) \subseteq Begun(g) /\ Len(f) + 1 \in Begun(g)
      BY <2>1, <2>2, <2>4 DEF Begun
    <3> QED
      BY <2>4, <3>1, <3>2
  <2> QED
    BY <2>3, <2>4
<1>9. Ended(g) = IF n = Newline THEN Ended(f) \cup {Len(f) + 3} ELSE Ended(f)
  <2>1. ASSUME n = Newline PROVE Len(f) + 3 \in DOMAIN g /\ g[Len(f) + 3].part = 3
    <3>1. 3 \in 1 .. n
      BY <1>3, <2>1 DEF Newline
    <3>2. g[Len(f) + 3] = [of |-> x, part |-> 3]
      BY <1>4, <3>1
    <3> QED
      BY <1>3, <1>6, <2>1, <3>2 DEF Newline
  <2>2. \A i \in DOMAIN f : i \in DOMAIN g /\ g[i].part = f[i].part
    BY <1>3, <1>4, <1>6
  <2> QED
    BY <1>3, <1>6, <1>7, <2>1, <2>2 DEF Ended, Newline
<1>10. Len(f) + 1 \notin Begun(f) /\ Len(f) + 3 \notin Ended(f)
  BY <1>6 DEF Begun, Ended
<1>11. Cardinality(Begun(g)) = Cardinality(Begun(f)) + (IF n = 0 THEN 0 ELSE 1)
  <2>1. IsFiniteSet(Begun(f)) /\ Cardinality(Begun(f)) \in Nat
    BY ScarsType
  <2>2. Cardinality(Begun(f) \cup {Len(f) + 1}) = Cardinality(Begun(f)) + 1
    BY <1>10, <2>1, FS_AddElement
  <2> QED
    BY <1>8, <2>1, <2>2
<1>12. Cardinality(Ended(g)) = Cardinality(Ended(f)) + (IF n = Newline THEN 1 ELSE 0)
  <2>1. IsFiniteSet(Ended(f)) /\ Cardinality(Ended(f)) \in Nat
    BY ScarsType
  <2>2. Cardinality(Ended(f) \cup {Len(f) + 3}) = Cardinality(Ended(f)) + 1
    BY <1>10, <2>1, FS_AddElement
  <2> QED
    BY <1>9, <2>1, <2>2
<1> QED
  BY <1>4, <1>5, <1>11, <1>12

(* A complete append makes whole lines of whole lines.                        *)
LEMMA WholeOfAppend ==
  ASSUME NEW f \in Seq(Byte), NEW x \in Execution, Whole(f), NEW g, g = Grown(f, x, Newline)
  PROVE  Whole(g)
<1>1. PICK m \in 0 .. Len(f) :
        /\ Len(f) = Newline * m
        /\ \A j \in 1 .. m : \E y \in Execution : \A p \in 1 .. Newline :
             f[Newline * (j - 1) + p] = [of |-> y, part |-> p]
  BY DEF Whole
<1>2. m \in Nat /\ Len(f) = 3 * m /\ Newline \in 0 .. Newline
  BY <1>1 DEF Newline
<1>3. /\ Len(g) = Len(f) + 3
      /\ \A p \in 1 .. 3 : g[Len(f) + p] = [of |-> x, part |-> p]
      /\ g \in Seq(Byte) /\ SubSeq(g, 1, Len(f)) = f
  <2>1. PICK n \in 0 .. Newline : n = Newline
    BY <1>2
  <2>2. g = Grown(f, x, n)
    BY <2>1
  <2>3. /\ g \in Seq(Byte) /\ SubSeq(g, 1, Len(f)) = f /\ Len(g) = Len(f) + n
        /\ \A p \in 1 .. n : g[Len(f) + p] = [of |-> x, part |-> p]
    BY <2>2, ScarsOfAppend
  <2> QED
    BY <2>1, <2>3 DEF Newline
<1>4. \A i \in 1 .. Len(f) : g[i] = f[i]
  BY <1>3
<1>5. ASSUME NEW j \in 1 .. m + 1
      PROVE  \E y \in Execution : \A p \in 1 .. 3 : g[3 * (j - 1) + p] = [of |-> y, part |-> p]
  <2>1. CASE j = m + 1
    <3>1. 3 * (j - 1) = Len(f)
      BY <1>2, <2>1
    <3> QED
      BY <1>3, <3>1
  <2>2. CASE j # m + 1
    <3>1. j \in 1 .. m
      BY <1>2, <2>2
    <3>2. PICK y \in Execution : \A p \in 1 .. 3 : f[3 * (j - 1) + p] = [of |-> y, part |-> p]
      BY <1>1, <3>1 DEF Newline
    <3>3. ASSUME NEW p \in 1 .. 3 PROVE g[3 * (j - 1) + p] = f[3 * (j - 1) + p]
      <4>1. 3 * (j - 1) + p \in 1 .. Len(f)
        BY <1>2, <3>1
      <4> QED
        BY <1>4, <4>1
    <3> QED
      BY <3>2, <3>3
  <2> QED
    BY <2>1, <2>2
<1>6. m + 1 \in 0 .. Len(g) /\ Len(g) = 3 * (m + 1)
  BY <1>2, <1>3
<1> QED
  BY <1>5, <1>6 DEF Whole, Newline

(* As long as one append at most is unfinished, and it is the last.           *)
LEMMA DamageStep == Kept /\ InUse /\ Damage /\ [Next]_vars => Damage'
<1> SUFFICES ASSUME Kept, InUse, Damage, [Next]_vars PROVE Damage'
  OBVIOUS
<1>0. TypeOK /\ \A w \in Writer : WriterInv(w)
  BY KeptByWriter
<1>1. file \in Seq(Byte) /\ cut \in Nat /\ pc \in [Writer -> Label] /\ start \in [Writer -> Nat]
  BY <1>0 DEF TypeOK
<1>2. Cardinality(Begun(file)) \in Nat /\ Cardinality(Ended(file)) \in Nat
  BY <1>1, ScarsType
<1>3. ASSUME file' = file, cut' = cut, poisoned' = poisoned,
             \A w \in Writer : /\ pc'[w] = "truncate" <=> pc[w] = "truncate"
                               /\ pc[w] = "truncate" => start'[w] = start[w]
      PROVE  Damage'
  <2>1. Unfinished' <=> Unfinished
    BY <1>3 DEF Unfinished
  <2>2. OneScarPerLife'
    BY <1>3, <2>1 DEF Damage, OneScarPerLife
  <2> QED
    BY <1>3, <2>1, <2>2 DEF Damage, Intact
<1>4. CASE UNCHANGED vars
  BY <1>3, <1>4 DEF vars
<1>5. CASE Close \/ NewJSONL
  BY <1>3, <1>5 DEF Close, NewJSONL
<1>6. ASSUME NEW w \in Writer, Write(w) \/ Refuse(w) \/ Acquire(w) \/ Stat(w) \/ Succeed(w)
      PROVE  Damage'
  <2>1. file' = file /\ cut' = cut /\ poisoned' = poisoned
    BY <1>6 DEF Write, Refuse, Acquire, Stat, Succeed
  <2>2. pc[w] # "truncate" /\ \E label \in Label \ {"truncate"} : pc' = [pc EXCEPT ![w] = label]
    BY <1>6 DEF Write, Refuse, Acquire, Stat, Succeed, Return, GoTo, Label
  <2>3. \A v \in Writer : v # w => start'[v] = start[v]
    BY <1>1, <1>6 DEF Write, Refuse, Acquire, Stat, Succeed, Return
  <2>4. \A v \in Writer : pc'[v] = "truncate" <=> pc[v] = "truncate"
    BY <1>1, <2>2
  <2> QED
    BY <1>3, <2>1, <2>2, <2>3, <2>4
<1>7. ASSUME NEW w \in Writer, AppendLine(w) PROVE Damage'
  <2>1. /\ pc[w] = "append" /\ job[w] \in Execution /\ start[w] = Len(file) /\ mu = w /\ ~poisoned
        /\ start' = start /\ cut' = cut /\ poisoned' = poisoned
    BY <1>0, <1>7 DEF AppendLine, WriterInv, TypeOK, InUse
  <2>2. \A v \in Writer : pc[v] # "truncate"
    BY <1>0, <2>1 DEF WriterInv
  <2>3. ~Unfinished /\ Intact(file)
    BY <2>1, <2>2 DEF Unfinished, Damage
  <2>4. PICK n \in 0 .. Newline : /\ file' = file \o SubSeq(Line(job[w]), 1, n)
                                  /\ pc' = [pc EXCEPT ![w] = IF Complete(n) THEN "stored" ELSE "truncate"]
    BY <1>7 DEF AppendLine, GoTo
  <2>5. /\ file' \in Seq(Byte) /\ SubSeq(file', 1, Len(file)) = file /\ Len(file') = Len(file) + n
        /\ \A p \in 1 .. n : file'[Len(file) + p] = [of |-> job[w], part |-> p]
        /\ Cardinality(Begun(file')) = Cardinality(Begun(file)) + (IF n = 0 THEN 0 ELSE 1)
        /\ Cardinality(Ended(file')) = Cardinality(Ended(file)) + (IF n = Newline THEN 1 ELSE 0)
    <3>1. PICK f \in Seq(Byte), x \in Execution : f = file /\ x = job[w]
      BY <1>1, <2>1
    <3>2. PICK g : g = file'
      OBVIOUS
    <3>3. g = Grown(f, x, n)
      BY <2>4, <3>1, <3>2 DEF Grown
    <3>4. /\ g \in Seq(Byte) /\ SubSeq(g, 1, Len(f)) = f /\ Len(g) = Len(f) + n
          /\ \A p \in 1 .. n : g[Len(f) + p] = [of |-> x, part |-> p]
          /\ Cardinality(Begun(g)) = Cardinality(Begun(f)) + (IF n = 0 THEN 0 ELSE 1)
          /\ Cardinality(Ended(g)) = Cardinality(Ended(f)) + (IF n = Newline THEN 1 ELSE 0)
      BY ONLY <3>3, f \in Seq(Byte), x \in Execution, n \in 0 .. Newline, ScarsOfAppend
    <3> QED
      BY <3>1, <3>2, <3>4
  <2>6. CASE n = Newline
    <3>1. \A v \in Writer : pc'[v] # "truncate"
      BY <1>1, <2>2, <2>4, <2>6 DEF Complete
    <3>2. ~Unfinished'
      BY <2>1, <3>1 DEF Unfinished
    <3>3. Cardinality(Begun(file')) <= Cardinality(Ended(file')) + cut
      BY <1>1, <1>2, <2>3, <2>5, <2>6 DEF Intact, Newline
    <3>4. cut = 0 => Whole(file')
      BY <1>1, <2>1, <2>3, <2>4, <2>6, WholeOfAppend DEF Intact, Grown
    <3>5. Intact(file)'
      BY <2>1, <3>3, <3>4 DEF Intact
    <3>6. OneScarPerLife'
      BY <1>1, <1>2, <2>1, <2>5, <3>2, <3>3, ScarsType DEF OneScarPerLife
    <3> QED
      BY <3>1, <3>5, <3>6 DEF Damage
  <2>7. CASE n # Newline
    <3>1. pc'[w] = "truncate" /\ Unfinished'
      BY <1>1, <2>4, <2>7 DEF Complete, Unfinished
    <3>2. \A v \in Writer : pc'[v] = "truncate" => v = w
      BY <1>1, <2>2, <2>4
    <3>3. Cardinality(Begun(file')) <= Cardinality(Ended(file')) + cut + 1
      BY <1>1, <1>2, <2>3, <2>5, <2>7 DEF Intact, Newline
    <3>4. OneScarPerLife'
      BY <2>1, <3>1, <3>3 DEF OneScarPerLife
    <3>5. Intact(SubSeq(file, 1, start[w]))'
      BY <2>1, <2>3, <2>5 DEF Intact
    <3>6. ASSUME NEW i \in start[w] + 1 .. Len(file') PROVE file'[i].part # Newline
      <4>1. i - Len(file) \in 1 .. n /\ i = Len(file) + (i - Len(file)) /\ i - Len(file) # Newline
        BY <1>1, <2>1, <2>5, <2>7 DEF Newline
      <4>2. file'[i] = [of |-> job[w], part |-> i - Len(file)]
        BY <2>5, <4>1
      <4> QED
        BY <4>1, <4>2
    <3> QED
      BY <2>1, <3>1, <3>2, <3>4, <3>5, <3>6 DEF Damage
  <2> QED
    BY <2>6, <2>7
<1>8. ASSUME NEW w \in Writer, Truncate(w) PROVE Damage'
  <2>1. /\ pc[w] = "truncate" /\ mu = w /\ ~poisoned /\ cut' = cut
        /\ pc' = [pc EXCEPT ![w] = "idle"]
    BY <1>0, <1>8 DEF Truncate, WriterInv, InUse, Return, GoTo
  <2>2. \A v \in Writer : pc'[v] # "truncate"
    BY <1>0, <1>1, <2>1 DEF WriterInv
  <2>3. Unfinished /\ Intact(SubSeq(file, 1, start[w]))
    BY <2>1 DEF Unfinished, Damage
  <2>4. CASE Rollback(w) /\ UNCHANGED poisoned
    <3>1. ~Unfinished' /\ Intact(file)'
      BY <2>1, <2>2, <2>3, <2>4 DEF Unfinished, Rollback, Intact
    <3>2. start[w] \in Nat /\ start[w] <= Len(file)
      BY <1>0, <1>1, <2>1 DEF WriterInv
    <3>3. file' \in Seq(Byte)
      BY <1>1, <2>4, <3>2, RollbackKeeps DEF Rollback
    <3>4. OneScarPerLife'
      BY <1>1, <2>1, <3>1, <3>3, ScarsType DEF OneScarPerLife, Intact
    <3> QED
      BY <2>2, <3>1, <3>4 DEF Damage
  <2>5. CASE UNCHANGED file /\ poisoned' = TRUE
    <3>1. Unfinished'
      BY <2>5 DEF Unfinished
    <3>2. OneScarPerLife'
      BY <2>1, <2>3, <2>5, <3>1 DEF Damage, OneScarPerLife
    <3> QED
      BY <2>2, <3>1, <3>2 DEF Damage
  <2> QED
    BY <1>8, <2>4, <2>5 DEF Truncate
<1>9. CASE Crash
  <2>1. file' = file /\ ~Unfinished' /\ (\A w \in Writer : pc'[w] # "truncate")
        /\ cut' = IF Unfinished THEN cut + 1 ELSE cut
    BY <1>9 DEF Crash, Unfinished
  <2>2. Cardinality(Begun(file)) <= Cardinality(Ended(file)) + cut'
    <3>1. OneScarPerLife
      BY DEF Damage
    <3>2. CASE Unfinished
      BY <1>1, <1>2, <2>1, <3>1, <3>2 DEF OneScarPerLife
    <3>3. CASE ~Unfinished
      BY <1>1, <1>2, <2>1, <3>1, <3>3 DEF OneScarPerLife
    <3> QED
      BY <3>2, <3>3
  <2>3. cut' = 0 => Whole(file)
    BY <1>1, <2>1 DEF Damage, Intact
  <2>4. Intact(file)'
    BY <2>1, <2>2, <2>3 DEF Intact
  <2>5. OneScarPerLife'
    BY <1>1, <1>2, <2>1, <2>2 DEF OneScarPerLife
  <2> QED
    BY <2>1, <2>4, <2>5 DEF Damage
<1> QED
  BY <1>4, <1>5, <1>6, <1>7, <1>8, <1>9 DEF Next

(* The whole invariant.                                                       *)
THEOREM SinkInductive == Spec => []SinkInv
<1>1. Init => Damage
  <2> SUFFICES ASSUME Init PROVE Damage
    OBVIOUS
  <2>1. file = << >> /\ cut = 0 /\ ~Unfinished /\ \A w \in Writer : pc[w] # "truncate"
    BY DEF Init, Unfinished
  <2>2. Begun(file) = {} /\ Ended(file) = {}
    BY <2>1 DEF Begun, Ended
  <2>3. Whole(file)
    BY <2>1 DEF Whole, Newline
  <2>4. Cardinality(Begun(file)) = 0 /\ Cardinality(Ended(file)) = 0
    BY <2>2, FS_EmptySet
  <2> QED
    BY <2>1, <2>3, <2>4 DEF Damage, Intact, OneScarPerLife
<1> QED
  BY <1>1, DamageStep, KeptAlways, InUseAlways, PTL DEF Spec, SinkInv

(* A process damages the file at most once, and only by ending inside an append *)
(* or poisoned: every other short write leaves no trace (jsonl.go, Write).      *)
THEOREM OneScarAtMost == Spec => []OneScarPerLife
<1>1. SinkInv => OneScarPerLife
  BY DEF SinkInv, Damage
<1> QED
  BY <1>1, SinkInductive, PTL

(* As long as no process left an append unfinished, ReadAll reads the file to   *)
(* its end and returns the records that were appended, in their order           *)
(* (jsonl.go, ReadAll), for any number of records.                              *)
THEOREM Readable == Spec => []ReadableUnlessCut
<1>1. SinkInv => ReadableUnlessCut
  BY ReadWhole DEF SinkInv, Kept, TypeOK, Damage, Intact, ReadableUnlessCut
<1> QED
  BY <1>1, SinkInductive, PTL

------------------------------------------------------------------------------
(* The refinement of AppendLog.  Where the calls are, as AppendLog sees them.   *)
Calls == [w \in Writer |-> CallAt(pc[w])]

LEMMA CallsMove ==
  ASSUME NEW w \in Writer, NEW label \in Label, pc \in [Writer -> Label],
         pc' = [pc EXCEPT ![w] = label]
  PROVE  /\ Calls' = [Calls EXCEPT ![w] = CallAt(label)]
         /\ CallAt(label) = CallAt(pc[w]) => Calls' = Calls
BY DEF Calls

(* An append adds the line of its record if it is complete, and no line else;   *)
(* a rollback takes none away.                                                *)
LEMMA LinesOfAppend ==
  ASSUME NEW f \in Seq(Byte), NEW x \in Execution, NEW n \in 0 .. Newline, NEW g, g = Grown(f, x, n)
  PROVE  Lines(g) = IF n = Newline THEN Append(Lines(f), x) ELSE Lines(f)
<1>1. /\ g \in Seq(Byte) /\ SubSeq(g, 1, Len(f)) = f /\ Len(g) = Len(f) + n
      /\ \A p \in 1 .. n : g[Len(f) + p] = [of |-> x, part |-> p]
  BY ScarsOfAppend
<1>2. n \in Nat /\ n <= 3 /\ Len(f) \in Nat /\ Len(f) <= Len(g) /\ Len(g) \in Nat
  BY <1>1 DEF Newline
<1>3. \A i \in 1 .. Len(f) : f[i] = g[i]
  BY <1>1, <1>2
<1>4. LinesUpTo(g)[Len(f)] = LinesUpTo(f)[Len(f)]
  <2>1. PICK k \in Nat : k = Len(f)
    BY <1>2
  <2>2. k <= Len(f) /\ k <= Len(g) /\ \A i \in 1 .. k : g[i] = f[i]
    BY <1>2, <1>3, <2>1
  <2>3. g \in Seq(Byte)
    BY <1>1
  <2>4. LinesUpTo(g)[k] = LinesUpTo(f)[k]
    BY ONLY <2>2, <2>3, f \in Seq(Byte), k \in Nat, LinesOfPrefix
  <2> QED
    BY <2>1, <2>4
<1>5. \A i \in Len(f) + 1 .. Len(g) : g[i].part = i - Len(f) /\ g[i].of = x
  <2> TAKE i \in Len(f) + 1 .. Len(g)
  <2>1. i - Len(f) \in 1 .. n /\ i = Len(f) + (i - Len(f))
    BY <1>1, <1>2
  <2>2. g[i] = [of |-> x, part |-> i - Len(f)]
    BY <1>1, <2>1
  <2> QED
    BY <2>2
<1>6. CASE n # Newline
  <2>1. \A i \in Len(f) + 1 .. Len(g) : g[i].part # Newline
    BY <1>1, <1>2, <1>5, <1>6 DEF Newline
  <2>2. LinesUpTo(g)[Len(g)] = LinesUpTo(g)[Len(f)]
    <3>1. PICK k \in Nat, m \in Nat : k = Len(f) /\ m = Len(g)
      BY <1>2
    <3>2. g \in Seq(Byte) /\ k <= m /\ m <= Len(g) /\ \A i \in k + 1 .. m : g[i].part # Newline
      BY <1>1, <1>2, <2>1, <3>1
    <3>3. LinesUpTo(g)[m] = LinesUpTo(g)[k]
      BY ONLY <3>2, k \in Nat, m \in Nat, LinesUnended
    <3> QED
      BY <3>1, <3>3
  <2> QED
    BY <1>4, <1>6, <2>2 DEF Lines
<1>7. CASE n = Newline
  <2> DEFINE m == Len(f) + 2
  <2>1. m \in Nat /\ m + 1 = Len(g) /\ m + 1 \in 1 .. Len(g) /\ (m + 1) - 1 = m /\ m <= Len(g) /\ Len(f) <= m
    BY <1>1, <1>2, <1>7 DEF Newline
  <2>2. \A i \in Len(f) + 1 .. m : g[i].part # Newline
    BY <1>2, <1>5, <2>1 DEF Newline
  <2>3. LinesUpTo(g)[m] = LinesUpTo(g)[Len(f)]
    BY <1>1, <1>2, <2>1, <2>2, LinesUnended
  <2>4. g[m + 1].part = Newline /\ g[m + 1].of = x
    BY <1>2, <1>5, <2>1 DEF Newline
  <2> HIDE DEF m
  <2>5. LinesUpTo(g)[m + 1] = Append(LinesUpTo(g)[m], x)
    BY <1>1, <2>1, <2>4, LinesByByte
  <2> QED
    BY <1>4, <1>7, <2>1, <2>3, <2>5 DEF Lines
<1> QED
  BY <1>6, <1>7

LEMMA LinesOfRollback ==
  ASSUME NEW f \in Seq(Byte), NEW n \in Nat, n <= Len(f), \A i \in n + 1 .. Len(f) : f[i].part # Newline
  PROVE  Lines(SubSeq(f, 1, n)) = Lines(f)
<1> DEFINE g == SubSeq(f, 1, n)
<1>1. g \in Seq(Byte) /\ Len(g) = n /\ \A i \in 1 .. n : g[i] = f[i]
  OBVIOUS
<1> HIDE DEF g
<1>2. LinesUpTo(g)[n] = LinesUpTo(f)[n]
  BY <1>1, LinesOfPrefix
<1>3. LinesUpTo(f)[Len(f)] = LinesUpTo(f)[n]
  BY LinesUnended
<1> QED
  BY <1>1, <1>2, <1>3 DEF Lines, g

LEMMA PromiseMeans ==
  /\ Promise!vars = <<Lines(file), Calls, job>>
  /\ \A w \in Writer : \A from :
       /\ Calls[w] = from /\ Calls' = [Calls EXCEPT ![w] = "idle"] /\ job' = [job EXCEPT ![w] = None]
         /\ Lines(file)' = Lines(file)
       => Promise!Return(w, from)
BY DEF Promise!vars, Promise!Return, Calls

LEMMA PromiseStep == SinkInv /\ [Next]_vars => [Promise!Next]_(Promise!vars)
<1> SUFFICES ASSUME SinkInv, [Next]_vars
             PROVE  Promise!Next \/ (Lines(file)' = Lines(file) /\ Calls' = Calls /\ job' = job)
  BY DEF Promise!vars, Calls
<1>0. TypeOK /\ (\A w \in Writer : WriterInv(w)) /\ Damage
  BY KeptByWriter DEF SinkInv
<1>1. file \in Seq(Byte) /\ pc \in [Writer -> Label] /\ start \in [Writer -> Nat]
  BY <1>0 DEF TypeOK
<1>2. \A w \in Writer : Calls[w] = CallAt(pc[w])
  BY DEF Calls
<1>3. CASE UNCHANGED vars \/ Close \/ NewJSONL
  BY <1>3 DEF vars, Close, NewJSONL, Calls
<1>4. CASE Crash
  <2>1. /\ [w \in Writer |-> CallAt(pc[w])]' = [w \in Writer |-> "idle"]
        /\ job' = [w \in Writer |-> None] /\ Lines(file)' = Lines(file)
    BY <1>4 DEF Crash, CallAt
  <2> QED
    BY <2>1 DEF Promise!Next, Promise!Crash
<1>5. ASSUME NEW w \in Writer, Write(w) PROVE Promise!Next
  <2>1. pc[w] = "idle" /\ pc' = [pc EXCEPT ![w] = "called"] /\ Lines(file)' = Lines(file)
        /\ \E x \in Execution : job' = [job EXCEPT ![w] = x]
    BY <1>5 DEF Write, GoTo
  <2>2. Calls[w] = "idle" /\ Calls' = [Calls EXCEPT ![w] = "writing"]
    BY <1>1, <1>2, <2>1, CallsMove DEF Label, CallAt
  <2>3. Promise!Call(w)
    BY <2>1, <2>2 DEF Promise!Call, Calls
  <2> QED
    BY <2>3 DEF Promise!Next
<1>6. ASSUME NEW w \in Writer, Refuse(w) \/ Truncate(w) PROVE Promise!Next
  <2>1. pc[w] \in {"called", "locked", "truncate"} /\ pc' = [pc EXCEPT ![w] = "idle"]
        /\ job' = [job EXCEPT ![w] = None]
    BY <1>6 DEF Refuse, Truncate, Return, GoTo
  <2>2. Calls[w] = "writing" /\ Calls' = [Calls EXCEPT ![w] = "idle"]
    BY <1>1, <1>2, <2>1, CallsMove DEF Label, CallAt
  <2>3. Lines(file)' = Lines(file)
    <3>1. CASE file' = file
      BY <3>1
    <3>2. CASE Truncate(w) /\ Rollback(w)
      <4>1. /\ start[w] \in Nat /\ start[w] <= Len(file)
            /\ \A i \in start[w] + 1 .. Len(file) : file[i].part # Newline
        BY <1>0, <1>1, <3>2 DEF Truncate, WriterInv, Damage
      <4>2. Lines(SubSeq(file, 1, start[w])) = Lines(file)
        BY <1>1, <4>1, LinesOfRollback
      <4> QED
        BY <3>2, <4>2 DEF Rollback
    <3> QED
      BY <1>6, <3>1, <3>2 DEF Refuse, Truncate
  <2>4. Promise!Return(w, "writing")
    BY <2>1, <2>2, <2>3, PromiseMeans
  <2> QED
    BY <2>4 DEF Promise!Next, Promise!Fail
<1>7. ASSUME NEW w \in Writer, Acquire(w) \/ Stat(w)
      PROVE  Lines(file)' = Lines(file) /\ Calls' = Calls /\ job' = job
  <2>1. /\ pc[w] \in {"called", "locked"} /\ file' = file /\ job' = job
        /\ \E label \in {"locked", "append"} : pc' = [pc EXCEPT ![w] = label]
    BY <1>7 DEF Acquire, Stat, GoTo
  <2>2. Calls' = Calls
    BY <1>1, <2>1, CallsMove DEF Label, CallAt
  <2> QED
    BY <2>1, <2>2
<1>8. ASSUME NEW w \in Writer, AppendLine(w)
      PROVE  Promise!Next \/ (Lines(file)' = Lines(file) /\ Calls' = Calls /\ job' = job)
  <2>1. pc[w] = "append" /\ job[w] \in Execution /\ job' = job
    BY <1>0, <1>8 DEF AppendLine, WriterInv, TypeOK
  <2>2. PICK n \in 0 .. Newline : /\ file' = file \o SubSeq(Line(job[w]), 1, n)
                                  /\ pc' = [pc EXCEPT ![w] = IF Complete(n) THEN "stored" ELSE "truncate"]
    BY <1>8 DEF AppendLine, GoTo
  <2>3. Lines(file') = IF n = Newline THEN Append(Lines(file), job[w]) ELSE Lines(file)
    <3>1. PICK f \in Seq(Byte), x \in Execution : f = file /\ x = job[w]
      BY <1>1, <2>1
    <3>2. PICK g : g = file'
      OBVIOUS
    <3>3. g = Grown(f, x, n)
      BY <2>2, <3>1, <3>2 DEF Grown
    <3>4. Lines(g) = IF n = Newline THEN Append(Lines(f), x) ELSE Lines(f)
      BY ONLY <3>3, f \in Seq(Byte), x \in Execution, n \in 0 .. Newline, LinesOfAppend
    <3> QED
      BY <3>1, <3>2, <3>4
  <2>4. CASE n = Newline
    <3>1. Calls[w] = "writing" /\ Calls' = [Calls EXCEPT ![w] = "stored"]
      BY <1>1, <1>2, <2>1, <2>2, <2>4, CallsMove DEF Label, CallAt, Complete
    <3>2. Promise!Store(w)
      BY <2>1, <2>3, <2>4, <3>1 DEF Promise!Store, Calls
    <3> QED
      BY <3>2 DEF Promise!Next
  <2>5. CASE n # Newline
    <3>1. Calls' = Calls
      BY <1>1, <2>1, <2>2, <2>5, CallsMove DEF Label, CallAt, Complete
    <3> QED
      BY <2>1, <2>3, <2>5, <3>1
  <2> QED
    BY <2>4, <2>5
<1>9. ASSUME NEW w \in Writer, Succeed(w) PROVE Promise!Next
  <2>1. pc[w] = "stored" /\ pc' = [pc EXCEPT ![w] = "idle"] /\ job' = [job EXCEPT ![w] = None]
        /\ Lines(file)' = Lines(file)
    BY <1>9 DEF Succeed, Return, GoTo
  <2>2. Calls[w] = "stored" /\ Calls' = [Calls EXCEPT ![w] = "idle"]
    BY <1>1, <1>2, <2>1, CallsMove DEF Label, CallAt
  <2>3. Promise!Return(w, "stored")
    BY <2>1, <2>2, PromiseMeans
  <2> QED
    BY <2>3 DEF Promise!Next, Promise!Succeed
<1> QED
  BY <1>3, <1>4, <1>5, <1>6, <1>7, <1>8, <1>9 DEF Next

(* A Write that returns nil has appended one complete line, one that fails none, *)
(* and no line ever changes: the sink is the log the Processor takes it for     *)
(* (jsonl.go; interface Sink of processor.go).                                  *)
THEOREM SinkKeepsPromise == Spec => KeepsPromise
<1>1. Init => Promise!Init
  <2> SUFFICES ASSUME Init PROVE Promise!Init
    OBVIOUS
  <2>1. file = << >> /\ file \in Seq(Byte) /\ Len(file) = 0
    BY DEF Init
  <2>2. Lines(file) = << >>
    BY <2>1, LinesByByte DEF Lines
  <2>3. [w \in Writer |-> CallAt(pc[w])] = [w \in Writer |-> "idle"]
    BY DEF Init, CallAt
  <2> QED
    BY <2>2, <2>3 DEF Init, Promise!Init
<1> QED
  BY <1>1, PromiseStep, SinkInductive, PTL DEF Spec, KeepsPromise, Promise!Spec

==============================================================================
