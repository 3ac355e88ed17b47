----------------------------- MODULE RecordProofs -----------------------------
(***************************************************************************)
(* What the records of the assembler stand for.  A record in the sink was  *)
(* merged from the signals of its own call and says what they say          *)
(* together, however they were ordered, buffered, set aside and rolled     *)
(* back; and the assembler implements the Ledger as long as no two client  *)
(* spans name the same parent.                                             *)
(***************************************************************************)
EXTENDS ProcessorProofs

(* The items a record was merged from, out of those in T.                      *)
Voices(T, e) == {i.ex : i \in {j \in T : j.id \in e.sigs}}

(* The record e says what those items say together.                            *)
Honest(T, e) == Verdict(e, Voices(T, e)) /\ KeepsValues(e, Voices(T, e))

HonestMap(T, m) == \A k \in Key : m[k] # None => Honest(T, m[k])

(* They are items of the key of e or of the parent e names.                    *)
Local(T, e) == \A x \in Voices(T, e) : x.key \in {e.key, e.parent}

Ids(T) == {i.id : i \in T}

Speaking ==
  /\ HonestMap(taken, spans) /\ HonestMap(taken, logs)
  /\ HonestMap(taken, pendingSpans) /\ HonestMap(taken, pendingLogs)
  /\ \A r \in batch : Honest(taken, r.ex) /\ Local(taken, r.ex)
  /\ \A n \in DOMAIN written : Honest(taken, written[n]) /\ Local(taken, written[n])

LEMMA SpeakingMeans == Speaking <=> EntriesSpeak /\ RecordSpeaksForItsCall
<1>1. \A e : /\ Speaks(e) <=> Honest(taken, e)
             /\ OfItsCall(e) <=> Local(taken, e)
  BY DEF Speaks, Honest, OfItsCall, Local, Contributing, Voices
<1>2. EntriesSpeak <=> /\ HonestMap(taken, spans) /\ HonestMap(taken, logs)
                       /\ HonestMap(taken, pendingSpans) /\ HonestMap(taken, pendingLogs)
                       /\ \A r \in batch : Honest(taken, r.ex) /\ Local(taken, r.ex)
  BY <1>1 DEF EntriesSpeak, HonestMap
<1>3. RecordSpeaksForItsCall
        <=> \A n \in DOMAIN written : Honest(taken, written[n]) /\ Local(taken, written[n])
  BY <1>1 DEF RecordSpeaksForItsCall
<1> QED
  BY <1>2, <1>3 DEF Speaking

(* An item as normalize returned it says what it says.                         *)
LEMMA HonestItem ==
  ASSUME NEW T \in SUBSET Telemetry, NEW i \in T
  PROVE  Honest(T, i.ex)
<1>1. i.ex \in Execution /\ i.ex.sigs = {i.id}
  BY ProcessorAssumption DEF ProcessorAssumption, Item
<1>2. Voices(T, i.ex) = {i.ex}
  BY <1>1, ProcessorAssumption DEF ProcessorAssumption, Voices
<1> QED
  BY <1>1, <1>2, VerdictOfOne, KeepsValuesOfOne DEF Honest

(* merge, where it is called on whatever the maps hold, keeps records honest.  *)
LEMMA HonestJoin ==
  ASSUME NEW T \in SUBSET Telemetry,
         NEW a \in Execution \cup {None}, NEW b \in Execution \cup {None},
         a # None => Honest(T, a), b # None => Honest(T, b), NEW e, e = Join(a, b)
  PROVE  e # None => Honest(T, e)
<1>1. CASE a = None
  BY <1>1 DEF Join
<1>2. CASE a # None /\ b = None
  BY <1>2 DEF Join
<1>3. CASE a # None /\ b # None
  <2>1. e = Merge(a, b) /\ a \in Execution /\ b \in Execution
    BY <1>3 DEF Join
  <2>2. e.sigs = a.sigs \cup b.sigs
    BY <2>1, MergeType
  <2>3. Voices(T, e) = Voices(T, a) \cup Voices(T, b)
    BY <2>2 DEF Voices
  <2>4. Voices(T, a) \in SUBSET Execution /\ Voices(T, b) \in SUBSET Execution
    BY Constants DEF Voices, Item
  <2>5. Verdict(e, Voices(T, e))
    BY <1>3, <2>1, <2>3, <2>4, VerdictOfMerge DEF Honest
  <2>6. KeepsValues(e, Voices(T, e))
    BY <1>3, <2>1, <2>3, KeepsValuesOfMerge DEF Honest
  <2> QED
    BY <2>5, <2>6 DEF Honest
<1> QED
  BY <1>1, <1>2, <1>3

(* Items read later change nothing in what a record was merged from.           *)
LEMMA VoicesStay ==
  ASSUME NEW T, NEW U \in SUBSET Telemetry, T \subseteq U, NEW e, e.sigs \subseteq Ids(T)
  PROVE  Voices(U, e) = Voices(T, e)
<1>1. \A j \in U : j.id \in e.sigs => j \in T
  BY ProcessorAssumption DEF ProcessorAssumption, Ids
<1> QED
  BY <1>1 DEF Voices

(* Every record the assembler holds was merged from items it has read.         *)
LEMMA SigsAreTaken ==
  ASSUME TypeOK, AssemblyInv
  PROVE  /\ \A k \in Key : /\ spans[k] # None => spans[k].sigs \subseteq Ids(taken)
                           /\ logs[k] # None => logs[k].sigs \subseteq Ids(taken)
                           /\ pendingSpans[k] # None => pendingSpans[k].sigs \subseteq Ids(taken)
                           /\ pendingLogs[k] # None => pendingLogs[k].sigs \subseteq Ids(taken)
         /\ \A r \in batch : r.ex.sigs \subseteq Ids(taken)
         /\ \A n \in DOMAIN written : written[n].sigs \subseteq Ids(taken)
<1>1. Accepted \subseteq Ids(taken) /\ \A k : AcceptedUnder(k) \subseteq Accepted
  BY AcceptedOnce DEF Accepted, Ids
<1>2. \A k \in Key : ActiveSigs({k}) \cup PendingSigs({k}) \subseteq Ids(taken)
  BY <1>1 DEF AssemblyInv, SignalsInPlace
<1>3. ASSUME NEW k \in Key
      PROVE  /\ spans[k] # None => spans[k].sigs \subseteq ActiveSigs({k})
             /\ logs[k] # None => logs[k].sigs \subseteq ActiveSigs({k})
             /\ pendingSpans[k] # None => pendingSpans[k].sigs \subseteq PendingSigs({k})
             /\ pendingLogs[k] # None => pendingLogs[k].sigs \subseteq PendingSigs({k})
  BY DEF ActiveSigs, PendingSigs, SigsIn
<1>4. Recorded \subseteq Ids(taken)
  BY <1>1 DEF AssemblyInv, SignalsInPlace
<1>5. \A n \in DOMAIN written : written[n].sigs \subseteq Ids(taken)
  BY <1>4 DEF Recorded
<1>6. ActiveSigs(Key) \subseteq Ids(taken)
  BY <1>2, HeldByKey
<1>7. \A r \in batch : r.ex.sigs \subseteq Ids(taken)
  BY <1>4, <1>6 DEF AssemblyInv, SignalsInPlace, Batched
<1> QED
  BY <1>2, <1>3, <1>5, <1>7

(* What is held under a key are items of that key.                             *)
LEMMA KeyOfHeld ==
  ASSUME TypeOK, AssemblyInv, NEW q \in Key, NEW j \in taken,
         j.id \in ActiveSigs({q}) \cup PendingSigs({q})
  PROVE  j.ex.key = q
<1>1. j.id \in AcceptedUnder(q)
  BY DEF AssemblyInv, SignalsInPlace
<1>2. PICK i : AcceptedItem(i) /\ i.ex.key = q /\ j.id = i.id
  BY <1>1, AcceptedByItem
<1>3. i = j
  BY <1>2, ProcessorAssumption DEF ProcessorAssumption, TypeOK, AcceptedItem
<1> QED
  BY <1>2, <1>3

------------------------------------------------------------------------------
(* Steps that keep the maps and the sink and make no record.                   *)
LEMMA SpeakingQuiet ==
  ASSUME TypeOK, AssemblyInv, Speaking, TypeOK',
         UNCHANGED <<spans, logs, pendingSpans, pendingLogs, written>>,
         batch' \subseteq batch, taken \subseteq taken'
  PROVE  Speaking'
<1>1. \A e : e.sigs \subseteq Ids(taken) => Voices(taken', e) = Voices(taken, e)
  BY VoicesStay DEF TypeOK
<1>2. \A e : e.sigs \subseteq Ids(taken) /\ Honest(taken, e) => Honest(taken', e)
  BY <1>1 DEF Honest
<1>3. \A e : e.sigs \subseteq Ids(taken) /\ Local(taken, e) => Local(taken', e)
  BY <1>1 DEF Local
<1>4. /\ HonestMap(taken', spans) /\ HonestMap(taken', logs)
      /\ HonestMap(taken', pendingSpans) /\ HonestMap(taken', pendingLogs)
  BY <1>2, SigsAreTaken DEF Speaking, HonestMap
<1>5. \A r \in batch' : Honest(taken', r.ex) /\ Local(taken', r.ex)
  BY <1>2, <1>3, SigsAreTaken DEF Speaking
<1>6. \A n \in DOMAIN written : Honest(taken', written[n]) /\ Local(taken', written[n])
  BY <1>2, <1>3, SigsAreTaken DEF Speaking
<1> QED
  BY <1>4, <1>5, <1>6 DEF Speaking

(* buffer joins the item to what the map of its signal holds under its key.    *)
LEMMA AddHonest ==
  ASSUME NEW T \in SUBSET Telemetry, NEW s \in Entries, NEW l \in Entries, NEW f, NEW i \in T,
         HonestMap(T, s), HonestMap(T, l)
  PROVE  HonestMap(T, Add(s, l, f, i).spans) /\ HonestMap(T, Add(s, l, f, i).logs)
<1> DEFINE k == i.ex.key
           put(m) == [m EXCEPT ![k] = Join(@, i.ex)]
<1>1. i.ex \in Execution /\ Honest(T, i.ex)
  BY Constants, HonestItem DEF Item
<1>2. ASSUME NEW m \in Entries, HonestMap(T, m)
      PROVE  HonestMap(T, put(m))
  <2>1. ASSUME NEW j \in Key, put(m)[j] # None
        PROVE  Honest(T, put(m)[j])
    <3>1. CASE j # k
      <4>1. put(m)[j] = m[j]
        BY <3>1 DEF Entries
      <4> QED
        BY <1>2, <2>1, <4>1 DEF HonestMap
    <3>2. CASE j = k
      <4>1. put(m)[j] = Join(m[j], i.ex) /\ m[j] \in Execution \cup {None}
        BY <3>2 DEF Entries
      <4>2. m[j] # None => Honest(T, m[j])
        BY <1>2 DEF HonestMap
      <4> QED
        BY <1>1, <2>1, <4>1, <4>2, HonestJoin
    <3> QED
      BY <3>1, <3>2
  <2> QED
    BY <2>1 DEF HonestMap
<1>3. /\ Add(s, l, f, i).spans = IF i.signal = "traces" THEN put(s) ELSE s
      /\ Add(s, l, f, i).logs = IF i.signal = "logs" THEN put(l) ELSE l
  BY DEF Add
<1> QED
  BY <1>2, <1>3

LEMMA SpeakingBuffer ==
  ASSUME TypeOK, AssemblyInv, Speaking, NEW c \in Caller, Buffer(c)
  PROVE  Speaking'
<1>1. PICK i : i = item[c]
  OBVIOUS
<1>2. /\ i \in taken /\ taken \in SUBSET Telemetry
      /\ UNCHANGED <<taken, batch, written>>
      /\ \/ UNCHANGED <<active, pending>>
         \/ AddActive(i)
         \/ AddPending(i)
  BY <1>1 DEF Buffer, Drop, TypeOK, AssemblyInv, EachItemOnce
<1>3. CASE UNCHANGED <<active, pending>>
  BY <1>2, <1>3 DEF Speaking, active, pending
<1>4. CASE AddActive(i)
  <2>1. /\ spans' = Add(spans, logs, firstSeen, i).spans
        /\ logs' = Add(spans, logs, firstSeen, i).logs
        /\ UNCHANGED <<pendingSpans, pendingLogs>>
    BY <1>4 DEF AddActive, pending
  <2>2. HonestMap(taken, spans') /\ HonestMap(taken, logs')
    BY <1>2, <2>1, MapTypes, AddHonest DEF Speaking
  <2> QED
    BY <1>2, <2>1, <2>2 DEF Speaking
<1>5. CASE AddPending(i)
  <2>1. /\ pendingSpans' = Add(pendingSpans, pendingLogs, pendingFirstSeen, i).spans
        /\ pendingLogs' = Add(pendingSpans, pendingLogs, pendingFirstSeen, i).logs
        /\ UNCHANGED <<spans, logs>>
    BY <1>5 DEF AddPending, active
  <2>2. HonestMap(taken, pendingSpans') /\ HonestMap(taken, pendingLogs')
    BY <1>2, <2>1, MapTypes, AddHonest DEF Speaking
  <2> QED
    BY <1>2, <2>1, <2>2 DEF Speaking
<1> QED
  BY <1>2, <1>3, <1>4, <1>5

(* What the client span names as its parent, the assembled record names too.   *)
LEMMA AssembleKeyNames ==
  ASSUME TypeOK, FiledUnderItsKey, NEW k \in Key, spans[k] # None \/ logs[k] # None
  PROVE  /\ AssembleKey(k).ex.key = k
         /\ AssembleKey(k).parent # None => AssembleKey(k).ex.parent = AssembleKey(k).parent
<1> DEFINE p == ParentOf(k)
           parentSpan == IF p = None THEN None ELSE spans[p]
           parentLog  == IF p = None THEN None ELSE logs[p]
<1>1. AssembleKey(k).ex.key = k
  BY AssembleKeyFiled
<1>2. SUFFICES ASSUME AssembleKey(k).parent # None
               PROVE  AssembleKey(k).ex.parent = AssembleKey(k).parent
  BY <1>1
<1>3. AssembleKey(k).parent = p /\ p # None
  BY <1>2 DEF AssembleKey
<1>4. /\ spans[k] \in Execution /\ spans[k].parent = p
      /\ logs[k] \in Execution \cup {None} /\ p \in Key
  BY <1>3 DEF ParentOf, TypeOK, Execution, Record
<1>5. parentSpan \in Execution \cup {None} /\ parentLog \in Execution \cup {None}
  BY <1>4 DEF TypeOK
<1>6. ASSUME NEW a \in Execution, NEW b \in Execution \cup {None}, a.parent = p
      PROVE  Join(a, b) \in Execution /\ Join(a, b).parent = p
  <2>1. CASE b = None
    BY <1>6, <2>1, Constants DEF Join
  <2>2. CASE b # None
    <3>1. Join(a, b) = Merge(a, b) /\ Merge(a, b) \in Execution
      BY <1>6, <2>2, Constants, MergeType DEF Join
    <3>2. Merge(a, b).parent = Either(a.parent, b.parent)
      BY DEF Merge
    <3> QED
      BY <1>3, <1>6, <3>1, <3>2 DEF Either
  <2> QED
    BY <2>1, <2>2
<1>7. AssembleKey(k).ex = Join(Join(Join(spans[k], parentSpan), parentLog), logs[k])
  BY DEF AssembleKey
<1> HIDE DEF p, parentSpan, parentLog
<1>8. Join(spans[k], parentSpan) \in Execution /\ Join(spans[k], parentSpan).parent = p
  BY <1>4, <1>5, <1>6
<1>9. /\ Join(Join(spans[k], parentSpan), parentLog) \in Execution
      /\ Join(Join(spans[k], parentSpan), parentLog).parent = p
  BY <1>5, <1>6, <1>8
<1>10. AssembleKey(k).ex.parent = p
  BY <1>4, <1>6, <1>7, <1>9
<1> QED
  BY <1>3, <1>10

LEMMA AssembleKeyHonest ==
  ASSUME TypeOK, Speaking, NEW k \in Key, spans[k] # None \/ logs[k] # None
  PROVE  Honest(taken, AssembleKey(k).ex)
<1> DEFINE p == ParentOf(k)
           parentSpan == IF p = None THEN None ELSE spans[p]
           parentLog  == IF p = None THEN None ELSE logs[p]
           Fine(e) == e \in Execution \cup {None} /\ (e # None => Honest(taken, e))
<1>1. \A j \in Key : Fine(spans[j]) /\ Fine(logs[j])
  BY DEF TypeOK, Speaking, HonestMap
<1>2. p \in Key \cup {None}
  BY DEF ParentOf, TypeOK, Execution, Record
<1>3. Fine(parentSpan) /\ Fine(parentLog)
  BY <1>1, <1>2
<1>4. taken \in SUBSET Telemetry
  BY DEF TypeOK
<1>5. ASSUME NEW a, NEW b, Fine(a), Fine(b)
      PROVE  Fine(Join(a, b))
  <2>1. Join(a, b) \in Execution \cup {None}
    BY <1>5, JoinType
  <2>2. Join(a, b) # None => Honest(taken, Join(a, b))
    BY <1>4, <1>5, HonestJoin
  <2> QED
    BY <2>1, <2>2
<1>6. AssembleKey(k).ex = Join(Join(Join(spans[k], parentSpan), parentLog), logs[k])
  BY DEF AssembleKey
<1>7. AssembleKey(k).ex # None
  BY AssembleKeyType, Constants DEF Assembled
<1> HIDE DEF Fine, p, parentSpan, parentLog
<1>8. Fine(AssembleKey(k).ex)
  BY <1>1, <1>3, <1>5, <1>6
<1> QED
  BY <1>7, <1>8 DEF Fine

(* assembleKey takes from the key and from the parent it names, nothing else.  *)
LEMMA AssembleKeyLocal ==
  ASSUME TypeOK, AssemblyInv, NEW k \in Key, spans[k] # None \/ logs[k] # None
  PROVE  Local(taken, AssembleKey(k).ex)
<1> DEFINE r == AssembleKey(k)
<1>0. r \in Assembled /\ r.key = k
  BY AssembleKeyType DEF AssembleKey
<1>1. r.ex.sigs = ActiveSigs(Consumed(r))
  BY AssembleKeyCovers
<1>2. r.ex.key = k /\ (r.parent # None => r.ex.parent = r.parent)
  BY AssembleKeyNames DEF AssemblyInv, Discipline
<1> HIDE DEF r
<1>3. Consumed(r) \subseteq Key /\ \A q \in Consumed(r) : q \in {r.ex.key, r.ex.parent}
  BY <1>0, <1>2 DEF Consumed, Assembled
<1>4. ASSUME NEW j \in taken, j.id \in r.ex.sigs
      PROVE  j.ex.key \in {r.ex.key, r.ex.parent}
  <2>0. PICK x : x = j.id
    OBVIOUS
  <2>a. x \in ActiveSigs(Consumed(r))
    BY <1>1, <1>4, <2>0
  <2>b. \E q \in Consumed(r) : x \in ActiveSigs({q})
    BY <2>a, HeldByKey
  <2>1. PICK q \in Consumed(r) : j.id \in ActiveSigs({q})
    BY <2>0, <2>b
  <2>2. j.ex.key = q
    BY <1>3, <2>1, KeyOfHeld
  <2> QED
    BY <1>3, <2>2
<1> QED
  BY <1>4 DEF Local, Voices, r

LEMMA SpeakingClaim ==
  ASSUME TypeOK, AssemblyInv, Speaking, NEW c \in Caller, Claim(c)
  PROVE  Speaking'
<1>1. UNCHANGED <<spans, logs, pendingSpans, pendingLogs, written, taken>>
  BY DEF Claim, active, pending
<1>2. ASSUME NEW r \in batch'
      PROVE  \E k \in Key : r = AssembleKey(k) /\ (spans[k] # None \/ logs[k] # None)
  BY DEF Claim, Ready
<1>3. ASSUME NEW r \in batch'
      PROVE  Honest(taken, r.ex) /\ Local(taken, r.ex)
  BY <1>2, AssembleKeyHonest, AssembleKeyLocal
<1> QED
  BY <1>1, <1>3 DEF Speaking

LEMMA SpeakingWriteOK ==
  ASSUME TypeOK, Speaking, NEW c \in Caller, WriteOK(c)
  PROVE  Speaking'
<1>1. PICK r \in batch : written' = Append(written, r.ex)
  BY DEF WriteOK
<1>2. UNCHANGED <<spans, logs, pendingSpans, pendingLogs, batch, taken>>
  BY DEF WriteOK, active, pending
<1>3. /\ DOMAIN written' = 1 .. Len(written) + 1 /\ DOMAIN written = 1 .. Len(written)
      /\ Len(written) \in Nat
      /\ \A n \in 1 .. Len(written) : written'[n] = written[n]
      /\ written'[Len(written) + 1] = r.ex
  BY <1>1 DEF TypeOK
<1>4. \A n \in DOMAIN written' : Honest(taken, written'[n]) /\ Local(taken, written'[n])
  BY <1>3 DEF Speaking
<1> QED
  BY <1>2, <1>4 DEF Speaking

(* Deleting entries and folding pending ones into active ones.                 *)
LEMMA ClearedHonest ==
  ASSUME NEW T, NEW m, HonestMap(T, m), NEW K
  PROVE  HonestMap(T, Cleared(m, K))
BY DEF HonestMap, Cleared

LEMMA FoldHonest ==
  ASSUME NEW T \in SUBSET Telemetry, NEW m \in Entries, NEW p \in Entries,
         HonestMap(T, m), HonestMap(T, p), NEW K
  PROVE  HonestMap(T, [k \in Key |-> IF k \in K THEN Join(m[k], p[k]) ELSE m[k]])
<1>1. ASSUME NEW k \in Key
      PROVE  Join(m[k], p[k]) # None => Honest(T, Join(m[k], p[k]))
  BY HonestJoin DEF HonestMap, Entries
<1> QED
  BY <1>1 DEF HonestMap

LEMMA SpeakingAck ==
  ASSUME Speaking, NEW c \in Caller, Ack(c)
  PROVE  Speaking'
<1>1. PICK r \in batch :
        /\ batch' = batch \ {r}
        /\ spans' = Cleared(spans, Consumed(r))
        /\ logs' = Cleared(logs, Consumed(r))
        /\ pendingSpans' = Cleared(pendingSpans, Consumed(r))
        /\ pendingLogs' = Cleared(pendingLogs, Consumed(r))
  BY DEF Ack, DiscardPending
<1>2. UNCHANGED <<written, taken>>
  BY DEF Ack
<1>3. /\ HonestMap(taken, spans') /\ HonestMap(taken, logs')
      /\ HonestMap(taken, pendingSpans') /\ HonestMap(taken, pendingLogs')
  BY <1>1, ClearedHonest DEF Speaking
<1> QED
  BY <1>1, <1>2, <1>3 DEF Speaking

LEMMA SpeakingRestore ==
  ASSUME TypeOK, Speaking, NEW c \in Caller, Restore(c)
  PROVE  Speaking'
<1>1. PICK K :
        /\ spans' = [k \in Key |-> IF k \in K THEN Join(spans[k], pendingSpans[k]) ELSE spans[k]]
        /\ logs' = [k \in Key |-> IF k \in K THEN Join(logs[k], pendingLogs[k]) ELSE logs[k]]
        /\ pendingSpans' = Cleared(pendingSpans, K) /\ pendingLogs' = Cleared(pendingLogs, K)
  BY DEF Restore, MergePendingIntoActive
<1>2. UNCHANGED <<written, taken>> /\ batch' = {}
  BY DEF Restore, Return
<1>3. taken \in SUBSET Telemetry
  BY DEF TypeOK
<1>4. HonestMap(taken, spans') /\ HonestMap(taken, logs')
  BY <1>1, <1>3, MapTypes, FoldHonest DEF Speaking
<1>5. HonestMap(taken, pendingSpans') /\ HonestMap(taken, pendingLogs')
  BY <1>1, ClearedHonest DEF Speaking
<1> QED
  BY <1>2, <1>4, <1>5 DEF Speaking

LEMMA SpeakingStep == TypeOK /\ AssemblyInv /\ Speaking /\ [Next]_vars => Speaking'
<1> SUFFICES ASSUME TypeOK, AssemblyInv, Speaking, [Next]_vars PROVE Speaking'
  OBVIOUS
<1>0. TypeOK'
  BY TypeStep
<1>1. CASE UNCHANGED vars
  BY <1>0, <1>1, SpeakingQuiet DEF vars, active, pending
<1>2. CASE Tick
  BY <1>0, <1>2, SpeakingQuiet DEF Tick, active, pending
<1>3. ASSUME NEW c \in Caller, \/ StartConsume(c) \/ EndRequest(c) \/ StartFlush(c) \/ Receive(c)
                               \/ TryEmit(c) \/ WriteFail(c)
      PROVE  Speaking'
  <2>1. /\ UNCHANGED <<spans, logs, pendingSpans, pendingLogs, written, batch>>
        /\ taken \subseteq taken'
    BY <1>3 DEF StartConsume, EndRequest, StartFlush, Receive, TryEmit, WriteFail, active, pending
  <2> QED
    BY <1>0, <2>1, SpeakingQuiet
<1>4. ASSUME NEW c \in Caller, Skip(c) \/ Finish(c)
      PROVE  Speaking'
  <2>1. /\ UNCHANGED <<spans, logs, pendingSpans, pendingLogs, written, taken>>
        /\ batch' \subseteq batch
    BY <1>4 DEF Skip, Finish, Return, active, pending
  <2> QED
    BY <1>0, <2>1, SpeakingQuiet
<1> QED
  BY <1>1, <1>2, <1>3, <1>4, SpeakingBuffer, SpeakingClaim, SpeakingWriteOK, SpeakingAck,
     SpeakingRestore DEF Next, Ingest, Assemble, Sink

LEMMA SpeakingInit == Init => Speaking
BY DEF Init, Nothing, Speaking, HonestMap

(* Every record in the sink was merged from signals of its own call and of the  *)
(* parent it names, and its status, attribution, availability and values are    *)
(* what these say together, for any number of signals, orders of arrival,       *)
(* failed writes and goroutines.                                                *)
THEOREM RecordsSpeakForTheirCalls == Spec => []RecordSpeaksForItsCall
<1>1. Init => Speaking
  BY SpeakingInit
<1>2. TypeOK /\ AssemblyInv /\ Speaking /\ [Next]_vars => Speaking'
  BY SpeakingStep
<1>3. Speaking => RecordSpeaksForItsCall
  BY SpeakingMeans
<1> QED
  BY <1>1, <1>2, <1>3, Inductive, PTL DEF Spec

------------------------------------------------------------------------------
(* The snapshots.  A client span in the map is a client span some exporter     *)
(* sent, and the parent it names is one that such a span names: a merge makes  *)
(* up neither.                                                                 *)
LEMMA ParentIsNamed ==
  ASSUME TypeOK, AssemblyInv, Speaking, NEW k \in Key, NEW p \in Key, ParentOf(k) = p
  PROVE  NamesAsClient(k, p)
<1>1. p # None /\ "client" # None
  BY Constants, ObservationAssumption DEF ObservationAssumption, Kind
<1>2. spans[k] # None /\ spans[k].kind = "client" /\ spans[k].parent = p
  BY <1>1 DEF ParentOf
<1>3. KeepsValues(spans[k], Voices(taken, spans[k]))
  BY <1>2 DEF Speaking, HonestMap, Honest
<1>4. ASSUME NEW f \in {"kind", "parent"}, spans[k][f] # None
      PROVE  \E i \in Joinable : i.ex.key = k /\ i.ex[f] = spans[k][f]
  <2>1. spans[k][f] \in Said(Voices(taken, spans[k]), f)
    BY <1>3, <1>4 DEF KeepsValues
  <2>2. PICK x \in Voices(taken, spans[k]) : x[f] = spans[k][f]
    BY <2>1 DEF Said
  <2>3. PICK j \in taken : j.id \in spans[k].sigs /\ x = j.ex
    BY <2>2 DEF Voices
  <2>4. j.id \in ActiveSigs({k})
    BY <1>2, <2>3 DEF ActiveSigs, SigsIn
  <2>5. j.id \in AcceptedUnder(k)
    BY <2>4 DEF AssemblyInv, SignalsInPlace
  <2>6. PICK i : AcceptedItem(i) /\ i.ex.key = k /\ j.id = i.id
    BY <2>5, AcceptedByItem
  <2>7. i = j /\ i \in Joinable
    BY <2>6, ProcessorAssumption DEF ProcessorAssumption, TypeOK, AcceptedItem, Joinable
  <2> QED
    BY <2>2, <2>3, <2>6, <2>7
<1>5. \E i \in Joinable : i.ex.key = k /\ i.ex.kind = "client"
  BY <1>1, <1>2, <1>4
<1>6. \E i \in Joinable : i.ex.key = k /\ i.ex.parent = p
  BY <1>1, <1>2, <1>4
<1> QED
  BY <1>5, <1>6 DEF NamesAsClient

(* Without a shared parent the records of an assembly take nothing twice.      *)
LEMMA AssembledApart ==
  ASSUME NoSharedParent, TypeOK, AssemblyInv, Speaking,
         NEW childOf \in ChildOf,
         NEW j \in Key, NEW k \in Key, j # k,
         ~ClaimedBy(childOf, j), ~ClaimedBy(childOf, k)
  PROVE  Consumed(AssembleKey(j)) \cap Consumed(AssembleKey(k)) = {}
<1>1. ASSUME NEW a \in Key, NEW b \in Key, NEW p \in Key, ParentOf(a) = p, ParentOf(b) = p
      PROVE  a = b
  BY <1>1, ParentIsNamed DEF NoSharedParent
<1>2. \A a \in Key : /\ AssembleKey(a).key = a
                     /\ AssembleKey(a).parent \in {None, ParentOf(a)}
  BY DEF AssembleKey
<1>3. ASSUME NEW a \in Key, NEW b \in Key, ~ClaimedBy(childOf, a), ParentOf(b) = a
      PROVE  b = a
  <2>1. a \in DOMAIN childOf /\ childOf[a] \in Children(a)
    BY <1>3 DEF ChildOf, Children
  <2>2. childOf[a] = a
    BY <1>3, <2>1 DEF ClaimedBy
  <2>3. ParentOf(a) = a
    BY <2>1, <2>2 DEF Children
  <2> QED
    BY <1>1, <1>3, <2>3
<1>4. \A a \in Key : ParentOf(a) \in Key \cup {None}
  BY DEF ParentOf, TypeOK, Execution, Record
<1>5. None \notin Key
  BY Constants
<1>6. SUFFICES ASSUME NEW q, q \in Consumed(AssembleKey(j)), q \in Consumed(AssembleKey(k))
               PROVE  FALSE
  OBVIOUS
<1>7. /\ q = j \/ (q = ParentOf(j) /\ q # None)
      /\ q = k \/ (q = ParentOf(k) /\ q # None)
  BY <1>2, <1>6 DEF Consumed
<1> QED
  BY <1>1, <1>3, <1>4, <1>5, <1>7

(* A record that says something was merged from something.                     *)
LEMMA HonestIsNotEmpty ==
  ASSUME NEW T, NEW e, Honest(T, e)
  PROVE  e.sigs # {}
<1>1. \E x \in Voices(T, e) : e["args"] = x["args"]
  BY DEF Honest, Verdict
<1> QED
  BY <1>1 DEF Voices

(* Only while a record waits for its acknowledgement are its keys more than     *)
(* what emitted has.                                                           *)
LEMMA FinalQuiet ==
  /\ Acking = {} => Final = emitted
  /\ Acking' = {} => Final' = emitted'
BY DEF Final

LEMMA FinalAcking ==
  ASSUME TypeOK, FiledUnderItsKey, NEW r \in batch, IsFirst(r), Acking # {}
  PROVE  Final = emitted \cup Consumed(r)
<1>1. \A s \in batch : IsFirst(s) => s = r
  BY FirstIsUnique
<1>2. {x \in batch : IsFirst(x) /\ Acking # {}} = {r}
  BY <1>1
<1> QED
  BY <1>2 DEF Final

LEMMA FinalSame ==
  ASSUME UNCHANGED <<batch, emitted>>, Acking' = Acking
  PROVE  Final' = Final
BY DEF Final, IsFirst

(* Nothing is active or pending under a finalized key.                         *)
LEMMA ClosedHoldsNothing ==
  ASSUME TypeOK, FinalizedStaysClosed, NEW k \in emitted
  PROVE  ActiveSigs({k}) = {} /\ PendingSigs({k}) = {}
BY EmptyKey DEF FinalizedStaysClosed, TypeOK

LEMMA HeldSame ==
  ASSUME NEW K, \A k \in K : ActiveSigs({k})' = ActiveSigs({k})
  PROVE  ActiveSigs(K)' = ActiveSigs(K)
<1>1. \A x : x \in ActiveSigs(K) <=> \E k \in K : x \in ActiveSigs({k})
  BY HeldByKey
<1>2. \A x : x \in ActiveSigs(K)' <=> \E k \in K : x \in ActiveSigs({k})'
  BY HeldByKey
<1>3. ASSUME NEW x
      PROVE  x \in ActiveSigs(K)' <=> x \in ActiveSigs(K)
  <2>1. (\E k \in K : x \in ActiveSigs({k})') <=> \E k \in K : x \in ActiveSigs({k})
    OBVIOUS
  <2>2. /\ x \in ActiveSigs(K) <=> \E k \in K : x \in ActiveSigs({k})
        /\ x \in ActiveSigs(K)' <=> \E k \in K : x \in ActiveSigs({k})'
    BY <1>1, <1>2
  <2> QED
    BY <2>1, <2>2
<1> QED
  BY <1>3

(* Steps that keep the active maps and the sink and finalize nothing.          *)
LEMMA ExclusiveQuiet ==
  ASSUME Exclusive, UNCHANGED <<spans, logs, emitted, written>>, batch' \subseteq batch,
         Final' = Final
  PROVE  Exclusive'
<1>1. Recorded' = Recorded /\ \A K : ActiveSigs(K)' = ActiveSigs(K)
  BY SameActive, SameRecorded
<1> QED
  BY <1>1 DEF Exclusive, SnapshotIsCurrent

(* A signal buffered during a write goes to another key than those written.    *)
LEMMA ExclusiveAddActive ==
  ASSUME TypeOK, AssemblyInv, Exclusive, NEW i \in Telemetry, AddActive(i), i.id \notin Accepted,
         ~Finalized(i.ex.key), ~UsePending(i.ex.key),
         UNCHANGED <<batch, emitted, written, pc>>
  PROVE  Exclusive'
<1>1. /\ \A k \in Key : ActiveSigs({k})' = IF k = i.ex.key THEN ActiveSigs({k}) \cup {i.id}
                                                          ELSE ActiveSigs({k})
      /\ i.ex.key \in Key
  BY AddActiveUnder
<1>2. Recorded' = Recorded /\ i.id \notin Recorded
  BY SameRecorded DEF AssemblyInv, SignalsInPlace
<1>3. Final' = Final
  BY FinalSame DEF Acking
<1>4. ASSUME NEW r \in batch
      PROVE  r.ex.sigs = ActiveSigs(Consumed(r))'
  <2>1. Consumed(r) \subseteq Key
    BY DEF TypeOK, Assembled, Consumed
  <2>2. i.ex.key \notin Consumed(r)
    BY DEF Exclusive, AssemblyInv, ReservationsAreTheBatch, Unwritten, UsePending
  <2>3. \A k \in Consumed(r) : ActiveSigs({k})' = ActiveSigs({k})
    BY <1>1, <2>1, <2>2
  <2>4. ActiveSigs(Consumed(r))' = ActiveSigs(Consumed(r))
    BY <2>3, HeldSame
  <2> QED
    BY <2>4 DEF Exclusive, SnapshotIsCurrent
<1>5. \A k \in Key \ Final' : ActiveSigs({k})' \cap Recorded' = {}
  BY <1>1, <1>2, <1>3 DEF Exclusive
<1>6. /\ \A r, s \in batch' : r # s => Consumed(r) \cap Consumed(s) = {}
      /\ \A r \in batch' : Consumed(r) \cap emitted' = {}
      /\ \A r \in batch' : r.ex.sigs = ActiveSigs(Consumed(r))'
  BY <1>4 DEF Exclusive
<1> QED
  BY <1>5, <1>6 DEF Exclusive, SnapshotIsCurrent

LEMMA ExclusiveBuffer ==
  ASSUME TypeOK, AssemblyInv, Exclusive, NEW c \in Caller, Buffer(c)
  PROVE  Exclusive'
<1>0. PICK i : i = item[c]
  OBVIOUS
<1>1. i \in Telemetry /\ i.id \notin Accepted
  <2>1. EachItemOnce
    BY DEF AssemblyInv
  <2> QED
    BY <1>0, <2>1, AcceptedBuffer
<1>2. /\ UNCHANGED <<batch, emitted, written, pc>>
      /\ \/ UNCHANGED <<spans, logs>>
         \/ ~Finalized(i.ex.key) /\ ~UsePending(i.ex.key) /\ AddActive(i)
  BY <1>0 DEF Buffer, Drop, AddPending, active
<1>3. Final' = Final
  BY <1>2, FinalSame DEF Acking
<1>4. CASE UNCHANGED <<spans, logs>>
  BY <1>2, <1>3, <1>4, ExclusiveQuiet
<1>5. CASE ~Finalized(i.ex.key) /\ ~UsePending(i.ex.key) /\ AddActive(i)
  BY <1>1, <1>2, <1>5, ExclusiveAddActive
<1> QED
  BY <1>2, <1>4, <1>5

LEMMA ExclusiveClaim ==
  ASSUME NoSharedParent, TypeOK, AssemblyInv, Speaking, Exclusive, NEW c \in Caller, Claim(c)
  PROVE  Exclusive'
<1>0. PICK childOf \in ChildOf :
        batch' = {AssembleKey(k) : k \in {j \in Ready(cutoff[c]) :
                    ~ClaimedBy(childOf, j) /\ (spans[j] # None \/ logs[j] # None)}}
  BY DEF Claim
<1>1. /\ assembleMu = None /\ pc[c] = "assemble" /\ pc' = [pc EXCEPT ![c] = "emit"]
      /\ UNCHANGED <<spans, logs, emitted, written>>
  BY DEF Claim, Lock, GoTo, active
<1>2. Acking = {} /\ Acking' = {}
  <2>1. Acking = {}
    BY <1>1, LockFreeMeansQuiet
  <2> QED
    BY <1>1, <2>1 DEF Acking, TypeOK
<1>3. ASSUME NEW r \in batch'
      PROVE  \E k \in Key : /\ r = AssembleKey(k)
                            /\ ~ClaimedBy(childOf, k)
                            /\ spans[k] # None \/ logs[k] # None
  BY <1>0 DEF Ready
<1>4. ASSUME NEW r \in batch', NEW s \in batch', r # s
      PROVE  Consumed(r) \cap Consumed(s) = {}
  <2>1. PICK j \in Key : r = AssembleKey(j) /\ ~ClaimedBy(childOf, j)
    BY <1>3
  <2>2. PICK k \in Key : s = AssembleKey(k) /\ ~ClaimedBy(childOf, k)
    BY <1>3
  <2>3. j # k
    BY <1>4, <2>1, <2>2
  <2> QED
    BY <2>1, <2>2, <2>3, AssembledApart
<1>5. ASSUME NEW r \in batch'
      PROVE  Consumed(r) \cap emitted' = {}
  BY <1>1, <1>3, ClosedConsumed DEF AssemblyInv, Discipline
<1>6. \A K : ActiveSigs(K)' = ActiveSigs(K)
  BY <1>1, SameActive
<1>7. ASSUME NEW r \in batch'
      PROVE  r.ex.sigs = ActiveSigs(Consumed(r))'
  <2>1. r.ex.sigs = ActiveSigs(Consumed(r))
    BY <1>3, AssembleKeyCovers
  <2> QED
    BY <1>6, <2>1
<1>8. Final' = Final /\ Recorded' = Recorded
  BY <1>1, <1>2, FinalQuiet, SameRecorded
<1>9. \A k \in Key \ Final' : ActiveSigs({k})' \cap Recorded' = {}
  BY <1>6, <1>8 DEF Exclusive
<1> QED
  BY <1>4, <1>5, <1>7, <1>9 DEF Exclusive, SnapshotIsCurrent

(* With the write, the keys of the record become final.                        *)
LEMMA FinalAtWrite ==
  ASSUME TypeOK, AssemblyInv, NEW c \in Caller, pc[c] = "write", pc' = [pc EXCEPT ![c] = "ack"],
         NEW r \in batch, IsFirst(r), UNCHANGED <<batch, emitted>>
  PROVE  Final = emitted /\ Final' = emitted \cup Consumed(r)
<1>1. Acking = {} /\ Acking' # {}
  BY NoOtherAck DEF Holding, Acking, TypeOK
<1>2. IsFirst(r)'
  BY DEF IsFirst
<1>3. \A s \in batch : IsFirst(s)' => s = r
  BY FirstIsUnique DEF IsFirst, AssemblyInv, Discipline
<1>4. {x \in batch' : IsFirst(x)' /\ Acking' # {}} = {r}
  BY <1>1, <1>2, <1>3
<1>5. Final' = emitted' \cup UNION {Consumed(x) : x \in {y \in batch' : IsFirst(y)' /\ Acking' # {}}}
  BY DEF Final, Consumed
<1> QED
  BY <1>1, <1>4, <1>5, FinalQuiet

(* The write puts into the sink what is active under the keys of the record,   *)
(* and nothing of what is active elsewhere.                                    *)
LEMMA ExclusiveWriteOK ==
  ASSUME TypeOK, AssemblyInv, Exclusive, NEW c \in Caller, WriteOK(c)
  PROVE  Exclusive'
<1>1. PICK r \in batch : IsFirst(r) /\ written' = Append(written, r.ex)
  BY DEF WriteOK
<1>2. /\ pc[c] = "write" /\ pc' = [pc EXCEPT ![c] = "ack"]
      /\ UNCHANGED <<spans, logs, batch, emitted>>
  BY DEF WriteOK, GoTo, active
<1>4. Final = emitted /\ Final' = emitted \cup Consumed(r)
  BY <1>1, <1>2, FinalAtWrite
<1>5. \A K : ActiveSigs(K)' = ActiveSigs(K)
  BY <1>2, SameActive
<1>6. Recorded' = Recorded \cup r.ex.sigs
  BY <1>1, RecordedAppend DEF TypeOK, Assembled
<1>7. r.ex.sigs = ActiveSigs(Consumed(r)) /\ Consumed(r) \subseteq Key
  BY DEF Exclusive, SnapshotIsCurrent, TypeOK, Assembled, Consumed
<1>8. ASSUME NEW k \in Key \ Final'
      PROVE  ActiveSigs({k})' \cap Recorded' = {}
  <2>1. ActiveSigs({k}) \cap Recorded = {}
    BY <1>4 DEF Exclusive
  <2>2. ASSUME NEW x \in ActiveSigs({k}), x \in ActiveSigs(Consumed(r))
        PROVE  FALSE
    <3>1. PICK j \in Consumed(r) : x \in ActiveSigs({j})
      BY <2>2, HeldByKey
    <3>2. x \in AcceptedUnder(j) /\ x \in AcceptedUnder(k)
      BY <1>7, <2>2, <3>1 DEF AssemblyInv, SignalsInPlace
    <3>3. j = k
      BY <3>2, AcceptedOnce
    <3> QED
      BY <1>4, <3>1, <3>3
  <2> QED
    BY <1>5, <1>6, <1>7, <2>1, <2>2
<1>9. /\ \A s, t \in batch' : s # t => Consumed(s) \cap Consumed(t) = {}
      /\ \A s \in batch' : Consumed(s) \cap emitted' = {}
      /\ \A s \in batch' : s.ex.sigs = ActiveSigs(Consumed(s))'
  BY <1>2, <1>5 DEF Exclusive, SnapshotIsCurrent
<1> QED
  BY <1>8, <1>9 DEF Exclusive, SnapshotIsCurrent

LEMMA ExclusiveAck ==
  ASSUME TypeOK, AssemblyInv, Exclusive, NEW c \in Caller, Ack(c)
  PROVE  Exclusive'
<1>1. PICK r \in batch :
        /\ IsFirst(r)
        /\ batch' = batch \ {r}
        /\ spans' = Cleared(spans, Consumed(r))
        /\ logs' = Cleared(logs, Consumed(r))
        /\ DiscardPending(Consumed(r))
        /\ emitted' = emitted \cup Consumed(r)
  BY DEF Ack
<1>2. /\ pc[c] = "ack" /\ pc' = [pc EXCEPT ![c] = "emit"] /\ UNCHANGED written
  BY DEF Ack, GoTo
<1>3. Acking # {} /\ Acking' = {}
  <2>1. \A d \in Caller : d # c => pc[d] # "ack"
    BY <1>2, OnlyHolder DEF AssemblyInv, Discipline, Holding
  <2> QED
    BY <1>2, <2>1 DEF Acking, TypeOK
<1>4. Final' = Final /\ Final = emitted \cup Consumed(r)
  BY <1>1, <1>3, FinalAcking, FinalQuiet DEF AssemblyInv, Discipline
<1>5. \A k \in Key : ActiveSigs({k})' = IF k \in Consumed(r) THEN {} ELSE ActiveSigs({k})
  BY <1>1, AckUnder
<1>6. Recorded' = Recorded
  BY <1>2, SameRecorded
<1>7. ASSUME NEW s \in batch'
      PROVE  s.ex.sigs = ActiveSigs(Consumed(s))' /\ Consumed(s) \cap emitted' = {}
  <2>1. s \in batch /\ s # r /\ Consumed(s) \cap Consumed(r) = {}
    BY <1>1 DEF Exclusive
  <2>2. Consumed(s) \subseteq Key
    BY <2>1 DEF TypeOK, Assembled, Consumed
  <2>3. \A k \in Consumed(s) : ActiveSigs({k})' = ActiveSigs({k})
    BY <1>5, <2>1, <2>2
  <2>4. ActiveSigs(Consumed(s))' = ActiveSigs(Consumed(s))
    BY <2>3, HeldSame
  <2>5. s.ex.sigs = ActiveSigs(Consumed(s)) /\ Consumed(s) \cap emitted = {}
    BY <2>1 DEF Exclusive, SnapshotIsCurrent
  <2> QED
    BY <1>1, <2>1, <2>4, <2>5
<1>8. \A k \in Key \ Final' : ActiveSigs({k})' \cap Recorded' = {}
  BY <1>4, <1>5, <1>6 DEF Exclusive
<1>9. \A s, t \in batch' : s # t => Consumed(s) \cap Consumed(t) = {}
  BY <1>1 DEF Exclusive
<1> QED
  BY <1>7, <1>8, <1>9 DEF Exclusive, SnapshotIsCurrent

LEMMA ExclusiveRestore ==
  ASSUME TypeOK, AssemblyInv, Exclusive, NEW c \in Caller, Restore(c)
  PROVE  Exclusive'
<1>1. PICK K : K = {k \in Unwritten : HasPending(k)}
  OBVIOUS
<1>2. /\ pc[c] = "restore" /\ pc' = [pc EXCEPT ![c] = "idle"] /\ batch' = {}
      /\ UNCHANGED <<emitted, written>> /\ MergePendingIntoActive(K)
  BY <1>1 DEF Restore, Return, GoTo
<1>3. Acking = {} /\ Acking' = {}
  <2>1. Acking = {}
    BY <1>2, NoOtherAck DEF Holding
  <2> QED
    BY <1>2, <2>1 DEF Acking, TypeOK
<1>4. Final' = Final
  BY <1>2, <1>3, FinalQuiet
<1>5. \A k \in Key : ActiveSigs({k})' \subseteq ActiveSigs({k}) \cup PendingSigs({k})
  BY <1>2, RestoreUnder
<1>6. \A k \in Key : PendingSigs({k}) \cap Recorded = {}
  BY DEF AssemblyInv, SignalsInPlace
<1>7. Recorded' = Recorded
  BY <1>2, SameRecorded
<1>8. \A k \in Key \ Final' : ActiveSigs({k})' \cap Recorded' = {}
  BY <1>4, <1>5, <1>6, <1>7 DEF Exclusive
<1> QED
  BY <1>2, <1>8 DEF Exclusive, SnapshotIsCurrent

LEMMA ExclusiveStep ==
  ASSUME NoSharedParent, TypeOK, AssemblyInv, Speaking, Exclusive, [Next]_vars
  PROVE  Exclusive'
<1>1. CASE UNCHANGED vars \/ Tick
  <2>1. UNCHANGED <<spans, logs, emitted, written, batch, pc>>
    BY <1>1 DEF vars, Tick, active
  <2>2. Final' = Final
    BY <2>1, FinalSame DEF Acking
  <2> QED
    BY <2>1, <2>2, ExclusiveQuiet
<1>2. ASSUME NEW c \in Caller, \/ StartConsume(c) \/ EndRequest(c) \/ StartFlush(c) \/ Receive(c)
                               \/ TryEmit(c) \/ WriteFail(c)
      PROVE  Exclusive'
  <2>1. UNCHANGED <<spans, logs, emitted, written, batch>>
    BY <1>2 DEF StartConsume, EndRequest, StartFlush, Receive, TryEmit, WriteFail, active
  <2>2. /\ pc[c] # "ack"
        /\ pc' = pc \/ pc' \in {[pc EXCEPT ![c] = l] : l \in {"idle", "loop", "assemble", "write", "restore"}}
    BY <1>2 DEF StartConsume, EndRequest, StartFlush, Receive, TryEmit, WriteFail, GoTo
  <2>3. Acking' = Acking
    BY <2>2 DEF Acking, TypeOK
  <2>4. Final' = Final
    BY <2>1, <2>3, FinalSame
  <2> QED
    BY <2>1, <2>4, ExclusiveQuiet
<1>3. ASSUME NEW c \in Caller, Skip(c) \/ Finish(c)
      PROVE  Exclusive'
  <2>1. /\ UNCHANGED <<spans, logs, emitted, written>> /\ batch' \subseteq batch
        /\ pc[c] = "emit" /\ pc' \in {pc, [pc EXCEPT ![c] = "idle"]}
    BY <1>3 DEF Skip, Finish, Return, GoTo, active
  <2>2. Acking = {} /\ Acking' = {}
    <3>1. pc[c] \in Holding \ {"ack"}
      BY <2>1 DEF Holding
    <3>2. Acking = {}
      BY <3>1, NoOtherAck
    <3> QED
      BY <2>1, <3>2 DEF Acking, TypeOK
  <2>3. Final' = Final
    BY <2>1, <2>2, FinalQuiet
  <2> QED
    BY <2>1, <2>3, ExclusiveQuiet
<1> QED
  BY <1>1, <1>2, <1>3, ExclusiveBuffer, ExclusiveClaim, ExclusiveWriteOK, ExclusiveAck,
     ExclusiveRestore DEF Next, Ingest, Assemble, Sink

LEMMA ExclusiveInit == Init => Exclusive
<1> SUFFICES ASSUME Init PROVE Exclusive
  OBVIOUS
<1>1. batch = {} /\ \A k \in Key : spans[k] = None /\ logs[k] = None
  BY DEF Init, Nothing
<1> QED
  BY <1>1, EmptyKey DEF Exclusive, SnapshotIsCurrent

(* Without a shared parent, the records of an assembly share no key, and each   *)
(* stands for exactly what is active under the keys it will delete.             *)
THEOREM SnapshotsAreExclusive ==
  ASSUME NoSharedParent
  PROVE  Spec => [](TypeOK /\ AssemblyInv /\ Speaking /\ Exclusive)
<1>1. Init => Speaking /\ Exclusive
  BY SpeakingInit, ExclusiveInit
<1>2. TypeOK /\ AssemblyInv /\ Speaking /\ Exclusive /\ [Next]_vars => Speaking' /\ Exclusive'
  BY SpeakingStep, ExclusiveStep
<1> QED
  BY <1>1, <1>2, Inductive, PTL DEF Spec

(* emit deletes active entries that it read before it released mu: nothing was  *)
(* added to them meanwhile, so an acknowledgement deletes nothing unwritten.    *)
THEOREM SnapshotsAreCurrent ==
  ASSUME NoSharedParent
  PROVE  Spec => []SnapshotIsCurrent
<1>1. Exclusive => SnapshotIsCurrent
  BY DEF Exclusive
<1> QED
  BY <1>1, SnapshotsAreExclusive, PTL

(* No signal is merged into two records of the sink: an operation is not seen   *)
(* twice because a write failed, a rollback followed or a signal came late      *)
(* (assemble and emit).                                                        *)
RecordedOnce == \A m, n \in DOMAIN written : m # n => written[m].sigs \cap written[n].sigs = {}

LEMMA RecordedOnceStep == TypeOK /\ AssemblyInv /\ Exclusive /\ RecordedOnce /\ [Next]_vars => RecordedOnce'
<1> SUFFICES ASSUME TypeOK, AssemblyInv, Exclusive, RecordedOnce, [Next]_vars PROVE RecordedOnce'
  OBVIOUS
<1>1. ASSUME UNCHANGED written PROVE RecordedOnce'
  BY <1>1 DEF RecordedOnce
<1>2. ASSUME NEW c \in Caller, WriteOK(c) PROVE RecordedOnce'
  <2>1. PICK r \in batch : IsFirst(r) /\ written' = Append(written, r.ex)
    BY <1>2 DEF WriteOK
  <2>2. Final = emitted
    BY <1>2, <2>1, FinalAtWrite DEF WriteOK, GoTo
  <2>3. r.ex.sigs = ActiveSigs(Consumed(r)) /\ Consumed(r) \subseteq Key \ Final
    BY <2>2 DEF Exclusive, SnapshotIsCurrent, TypeOK, Assembled, Consumed
  <2>4. r.ex.sigs \cap Recorded = {}
    <3> SUFFICES ASSUME NEW x \in r.ex.sigs, x \in Recorded PROVE FALSE
      OBVIOUS
    <3>1. x \in ActiveSigs(Consumed(r))
      BY <2>3
    <3>2. \E k \in Consumed(r) : x \in ActiveSigs({k})
      BY ONLY <3>1, HeldByKey
    <3>3. PICK k \in Consumed(r) : x \in ActiveSigs({k})
      BY <3>2
    <3> QED
      BY <2>3, <3>3 DEF Exclusive
  <2>5. /\ Len(written) \in Nat /\ DOMAIN written = 1 .. Len(written)
        /\ DOMAIN written' = 1 .. Len(written) + 1 /\ written'[Len(written) + 1] = r.ex
        /\ \A n \in DOMAIN written : written'[n] = written[n]
    BY <2>1 DEF TypeOK, Assembled
  <2>6. \A n \in DOMAIN written : written[n].sigs \cap r.ex.sigs = {}
    BY <2>4 DEF Recorded
  <2> QED
    BY <2>5, <2>6 DEF RecordedOnce
<1>3. UNCHANGED written \/ \E c \in Caller : WriteOK(c)
  BY DEF Next, Tick, Ingest, Assemble, Sink, StartConsume, Receive, Buffer, EndRequest, StartFlush, Claim,
         Finish, Skip, TryEmit, WriteFail, Ack, Restore, vars
<1> QED
  BY <1>1, <1>2, <1>3

(* RecordedOnce in every reachable state, when no two client spans name one    *)
(* parent: otherwise mergeParent copies the parent into both records.          *)
THEOREM NoSignalTwice ==
  ASSUME NoSharedParent
  PROVE  Spec => []RecordedOnce
<1>1. Init => RecordedOnce
  BY DEF Init, RecordedOnce
<1> QED
  BY <1>1, RecordedOnceStep, SnapshotsAreExclusive, PTL DEF Spec

(* A flush reserves everything that is buffered when it gets the lock, provided  *)
(* that no client span names one as its parent that names a parent itself        *)
(* (assemble with a zero cutoff; Flush).                                        *)
THEOREM FlushReservesAll ==
  ASSUME NoChain
  PROVE  Spec => FlushReservesEverything
<1> DEFINE Reserves ==
      \A c \in Caller : Claim(c) /\ cutoff[c] = None => {k \in Key : firstSeen[k] # None} \subseteq inFlight'
<1>1. TypeOK /\ AssemblyInv /\ Speaking /\ [Next]_vars => [Reserves]_vars
  <2> SUFFICES ASSUME TypeOK, AssemblyInv, Speaking, NEW c \in Caller, Claim(c), cutoff[c] = None,
                      NEW k \in Key, firstSeen[k] # None
               PROVE  k \in inFlight'
    OBVIOUS
  <2>1. ASSUME NEW child \in Children(k) PROVE child \in Ready(cutoff[c])
    <3>1. child \in Key /\ spans[child] # None
      BY Constants DEF Children, ParentOf
    <3> QED
      BY <3>1 DEF AssemblyInv, BufferIndexed, Ready
  <2>2. \/ k \in inFlight'
        \/ \E child \in Children(k) \ {k} : Children(child) \ {child} # {}
    BY <2>1, ClaimReserves DEF Ready
  <2>3. ASSUME NEW child \in Children(k) \ {k}, NEW other \in Children(child) \ {child} PROVE FALSE
    <3>1. child \in Key /\ ParentOf(child) = k /\ other \in Key /\ ParentOf(other) = child
      BY DEF Children
    <3>2. NamesAsClient(child, k) /\ NamesAsClient(other, child)
      BY <3>1, ParentIsNamed
    <3> QED
      BY <3>1, <3>2, NoChain DEF NoChain
  <2> QED
    BY <2>2, <2>3
<1>2. Spec => [](TypeOK /\ AssemblyInv /\ Speaking)
  BY SpeakingInit, SpeakingStep, Inductive, PTL DEF Spec
<1>3. Spec => [][Reserves]_vars
  BY <1>1, <1>2, PTL DEF Spec
<1> QED
  BY <1>3 DEF FlushReservesEverything

------------------------------------------------------------------------------
(* The refinement of Ledger, step by step.                                     *)
(* What waits, item by item and key by key.                                    *)
LEMMA WaitingByKey ==
  /\ \A x : x \in Waiting <=>
       /\ x \notin Recorded
       /\ \E k \in Key : x \in ActiveSigs({k}) \/ (k \notin Final /\ x \in PendingSigs({k}))
  /\ \A x : x \in Waiting' <=>
       /\ x \notin Recorded'
       /\ \E k \in Key : x \in ActiveSigs({k})' \/ (k \notin Final' /\ x \in PendingSigs({k})')
<1>1. \A x : x \in Waiting <=> /\ x \notin Recorded
                               /\ x \in ActiveSigs(Key) \/ x \in PendingSigs(Key \ Final)
  BY DEF Waiting
<1>2. \A x : /\ x \in ActiveSigs(Key) <=> \E k \in Key : x \in ActiveSigs({k})
             /\ x \in PendingSigs(Key \ Final) <=> \E k \in Key \ Final : x \in PendingSigs({k})
  BY HeldByKey
<1>3. \A x : x \in Waiting' <=> /\ x \notin Recorded'
                                /\ \/ x \in Under(spans', logs', Key)
                                   \/ x \in Under(pendingSpans', pendingLogs', Key \ Final')
  BY DEF Waiting, ActiveSigs, PendingSigs, Under, SigsIn
<1>4. \A x : /\ x \in Under(spans', logs', Key) <=> \E k \in Key : x \in ActiveSigs({k})'
             /\ x \in Under(pendingSpans', pendingLogs', Key \ Final')
                  <=> \E k \in Key \ Final' : x \in PendingSigs({k})'
  BY UnderByKey, UnderIsSigs
<1> QED
  BY <1>1, <1>2, <1>3, <1>4

(* Ledger's functions and sets, as this mapping gives them.                    *)
LEMMA LedgerMeans ==
  /\ L!InRecords = Recorded
  /\ L!Held = Waiting \cup Late \cup Recorded
  /\ \A S, K, x : x \in L!Under(S, K) <=> x \in S /\ KeyOfId[x] \in K
  /\ \A i \in Joinable : KeyOfId[i.id] = i.ex.key
<1>1. L!InRecords = Recorded
  BY DEF L!InRecords, Recorded
<1>2. L!Held = Waiting \cup Late \cup Recorded
  BY <1>1 DEF L!Held
<1>3. \A S, K, x : x \in L!Under(S, K) <=> x \in S /\ KeyOfId[x] \in K
  BY DEF L!Under
<1>4. ASSUME NEW i \in Joinable
      PROVE  KeyOfId[i.id] = i.ex.key
  <2>1. \A j \in Joinable : j.id = i.id => j = i
    BY ProcessorAssumption DEF ProcessorAssumption, Joinable
  <2>2. (CHOOSE j \in Joinable : j.id = i.id) = i
    BY <2>1
  <2>3. i.id \in {j.id : j \in Joinable}
    OBVIOUS
  <2> QED
    BY <2>2, <2>3 DEF KeyOfId
<1> QED
  BY <1>1, <1>2, <1>3, <1>4

(* What is accepted are items of Ledger, and whatever waits or is recorded was *)
(* accepted.                                                                   *)
LEMMA HeldAccepted ==
  ASSUME TypeOK, AssemblyInv
  PROVE  /\ Waiting \subseteq Accepted /\ Recorded \subseteq Accepted /\ Late \subseteq Accepted
         /\ \A k \in Key : \A x : x \in ActiveSigs({k}) \cup PendingSigs({k})
              => x \in Accepted /\ x \in {i.id : i \in Joinable} /\ KeyOfId[x] = k
<1>1. Recorded \subseteq Accepted
  BY DEF AssemblyInv, SignalsInPlace
<1>2. ASSUME NEW k \in Key, NEW x, x \in ActiveSigs({k}) \cup PendingSigs({k})
      PROVE  x \in Accepted /\ x \in {i.id : i \in Joinable} /\ KeyOfId[x] = k
  <2>1. x \in AcceptedUnder(k)
    BY <1>2 DEF AssemblyInv, SignalsInPlace
  <2>2. PICK i : AcceptedItem(i) /\ i.ex.key = k /\ x = i.id
    BY <2>1, AcceptedByItem
  <2>3. i \in Joinable
    BY <2>2 DEF AcceptedItem, Joinable, TypeOK
  <2>4. x \in Accepted
    BY <2>1, AcceptedOnce
  <2> QED
    BY <2>2, <2>3, <2>4, LedgerMeans
<1>3. \A x \in Waiting : x \in Accepted
  BY <1>2, WaitingByKey
<1> QED
  BY <1>1, <1>2, <1>3 DEF Late

(* A step that moves nothing in the ledger.                                    *)
LEMMA LedgerStutter ==
  ASSUME UNCHANGED written, Accepted' = Accepted, Final' = Final,
         \A x : x \in Waiting' <=> x \in Waiting
  PROVE  UNCHANGED L!ledger
<1>1. Waiting' = Waiting
  OBVIOUS
<1>2. Late' = Late
  BY <1>1, SameRecorded DEF Late
<1> QED
  BY <1>1, <1>2 DEF L!ledger

(* Steps that do not touch the maps at all.                                    *)
LEMMA LedgerQuiet ==
  ASSUME UNCHANGED <<active, pending, written>>, Accepted' = Accepted, Final' = Final
  PROVE  UNCHANGED L!ledger
<1>1. /\ \A K : ActiveSigs(K)' = ActiveSigs(K)
      /\ \A K : PendingSigs(K)' = PendingSigs(K)
      /\ Recorded' = Recorded
  BY SameActive, SamePending, SameRecorded DEF active, pending
<1>2. ASSUME NEW x
      PROVE  x \in Waiting' <=> x \in Waiting
  BY <1>1, WaitingByKey
<1> QED
  BY <1>2, LedgerStutter

(* An item a request lets go of: late if its key is final, waiting otherwise.  *)
LEMMA LedgerOffer ==
  ASSUME TypeOK, AssemblyInv, NEW i \in Joinable, i.id \notin Accepted, Accepted' = Accepted \cup {i.id},
         UNCHANGED written, Final' = Final,
         \A x : x \in Waiting' <=> x \in Waiting \/ (x = i.id /\ i.ex.key \notin Final)
  PROVE  L!Next
<1>1. Recorded' = Recorded
  BY SameRecorded
<1>2. i.id \in {j.id : j \in Joinable} /\ KeyOfId[i.id] = i.ex.key
  BY LedgerMeans
<1>3. i.id \notin Waiting /\ i.id \notin Late /\ i.id \notin Recorded
  BY HeldAccepted
<1>4. i.id \in {j.id : j \in Joinable} \ L!Held
  BY <1>2, <1>3, LedgerMeans
<1>5. CASE i.ex.key \in Final
  <2>1. Waiting' = Waiting
    BY <1>5
  <2>2. Late' = Late \cup {i.id}
    BY <1>1, <1>3, <2>1 DEF Late
  <2>3. L!Offer(i.id)
    BY <1>2, <1>4, <1>5, <2>1, <2>2 DEF L!Offer
  <2> QED
    BY <1>2, <2>3 DEF L!Next
<1>6. CASE i.ex.key \notin Final
  <2>1. Waiting' = Waiting \cup {i.id}
    BY <1>6
  <2>2. Late' = Late
    BY <1>1, <1>3, <2>1 DEF Late
  <2>3. L!Offer(i.id)
    BY <1>2, <1>4, <1>6, <2>1, <2>2 DEF L!Offer
  <2> QED
    BY <1>2, <2>3 DEF L!Next
<1> QED
  BY <1>5, <1>6

LEMMA LedgerBuffer ==
  ASSUME TypeOK, AssemblyInv, Exclusive, NEW c \in Caller, Buffer(c)
  PROVE  L!Next \/ UNCHANGED L!ledger
<1>0. PICK i : i = item[c]
  OBVIOUS
<1>1. /\ i \in Telemetry /\ i.id \notin Accepted
      /\ Accepted' = IF Joins(i) THEN Accepted \cup {i.id} ELSE Accepted
  <2>1. EachItemOnce
    BY DEF AssemblyInv
  <2> QED
    BY <1>0, <2>1, AcceptedBuffer
<1>2. /\ UNCHANGED <<batch, emitted, written, pc>>
      /\ \/ ~Joins(i) /\ UNCHANGED <<active, pending>>
         \/ Joins(i) /\ Finalized(i.ex.key) /\ UNCHANGED <<active, pending>>
         \/ Joins(i) /\ ~Finalized(i.ex.key) /\ UsePending(i.ex.key) /\ AddPending(i)
         \/ Joins(i) /\ ~Finalized(i.ex.key) /\ ~UsePending(i.ex.key) /\ AddActive(i)
  BY <1>0 DEF Buffer, Drop, Joins
<1>3. Final' = Final /\ Recorded' = Recorded
  BY <1>2, FinalSame, SameRecorded DEF Acking
<1>4. CASE ~Joins(i) /\ UNCHANGED <<active, pending>>
  BY <1>1, <1>2, <1>3, <1>4, LedgerQuiet
<1>5. CASE Joins(i) /\ Finalized(i.ex.key) /\ UNCHANGED <<active, pending>>
  <2>1. i.ex.key \in Final
    BY <1>5 DEF Finalized, Final
  <2>2. /\ \A K : ActiveSigs(K)' = ActiveSigs(K)
        /\ \A K : PendingSigs(K)' = PendingSigs(K)
    BY <1>5, SameActive, SamePending DEF active, pending
  <2>3. ASSUME NEW x
        PROVE  x \in Waiting' <=> x \in Waiting \/ (x = i.id /\ i.ex.key \notin Final)
    BY <1>3, <2>1, <2>2, WaitingByKey
  <2>4. i \in Joinable
    BY <1>1, <1>5 DEF Joins, Joinable
  <2> QED
    BY <1>1, <1>2, <1>3, <1>5, <2>3, <2>4, LedgerOffer
<1>6. CASE Joins(i) /\ UsePending(i.ex.key) /\ AddPending(i)
  <2>1. /\ \A k \in Key : PendingSigs({k})' = IF k = i.ex.key THEN PendingSigs({k}) \cup {i.id}
                                                             ELSE PendingSigs({k})
        /\ i.ex.key \in Key
    BY <1>1, <1>6, AddPendingUnder, Constants DEF Item, Execution, Record
  <2>2. \A K : ActiveSigs(K)' = ActiveSigs(K)
    BY <1>6, SameActive DEF AddPending, active
  <2>3. i.id \notin Recorded
    BY <1>1, HeldAccepted
  <2>4. ASSUME NEW x
        PROVE  x \in Waiting' <=> x \in Waiting \/ (x = i.id /\ i.ex.key \notin Final)
    <3>1. x \in Waiting' <=>
            /\ x \notin Recorded
            /\ \E k \in Key : x \in ActiveSigs({k}) \/ (k \notin Final /\ x \in PendingSigs({k})')
      BY <1>3, <2>2, WaitingByKey
    <3>2. \A k \in Key : x \in PendingSigs({k})' <=> x \in PendingSigs({k}) \/ (k = i.ex.key /\ x = i.id)
      BY <2>1
    <3>3. x \in Waiting <=>
            /\ x \notin Recorded
            /\ \E k \in Key : x \in ActiveSigs({k}) \/ (k \notin Final /\ x \in PendingSigs({k}))
      BY WaitingByKey
    <3> QED
      BY <2>1, <2>3, <3>1, <3>2, <3>3
  <2>5. i \in Joinable
    BY <1>1, <1>6 DEF Joins, Joinable
  <2> QED
    BY <1>1, <1>2, <1>3, <1>6, <2>4, <2>5, LedgerOffer
<1>7. CASE Joins(i) /\ ~Finalized(i.ex.key) /\ ~UsePending(i.ex.key) /\ AddActive(i)
  <2>1. /\ \A k \in Key : ActiveSigs({k})' = IF k = i.ex.key THEN ActiveSigs({k}) \cup {i.id}
                                                            ELSE ActiveSigs({k})
        /\ i.ex.key \in Key
    BY <1>1, <1>7, AddActiveUnder
  <2>2. \A K : PendingSigs(K)' = PendingSigs(K)
    BY <1>7, SamePending DEF AddActive, pending
  <2>3. i.id \notin Recorded
    BY <1>1, HeldAccepted
  <2>4. i.ex.key \notin Final
    <3>1. i.ex.key \notin emitted /\ i.ex.key \notin inFlight
      BY <1>7 DEF Finalized, UsePending
    <3>2. \A r \in batch : i.ex.key \notin Consumed(r)
      BY <3>1 DEF AssemblyInv, ReservationsAreTheBatch, Unwritten
    <3> QED
      BY <3>1, <3>2 DEF Final
  <2>5. ASSUME NEW x
        PROVE  x \in Waiting' <=> x \in Waiting \/ (x = i.id /\ i.ex.key \notin Final)
    BY <1>3, <2>1, <2>2, <2>3, <2>4, WaitingByKey
  <2>6. i \in Joinable
    BY <1>1, <1>7 DEF Joins, Joinable
  <2> QED
    BY <1>1, <1>2, <1>3, <1>7, <2>5, <2>6, LedgerOffer
<1> QED
  BY <1>2, <1>4, <1>5, <1>6, <1>7

(* The sink's records as Ledger sees them, after one more.                     *)
LEMMA LedgerAppend ==
  ASSUME TypeOK, NEW e \in Execution, written' = Append(written, e)
  PROVE  [n \in DOMAIN written' |-> written'[n].sigs]
           = Append([n \in DOMAIN written |-> written[n].sigs], e.sigs)
<1> DEFINE old == [n \in DOMAIN written |-> written[n].sigs]
           new == [n \in DOMAIN written' |-> written'[n].sigs]
<1>1. PICK len \in Nat : len = Len(written) /\ DOMAIN written = 1 .. len
  BY DEF TypeOK
<1>2. /\ DOMAIN written' = 1 .. len + 1
      /\ \A n \in 1 .. len : written'[n] = written[n]
      /\ written'[len + 1] = e
  BY <1>1 DEF TypeOK
<1>3. old \in [1 .. len -> SUBSET SigId]
  <2>1. \A n \in 1 .. len : written[n] \in Execution
    BY <1>1 DEF TypeOK
  <2>2. \A x \in Execution : x.sigs \in SUBSET SigId
    BY DEF Execution, Record
  <2> QED
    BY <1>1, <2>1, <2>2
<1>4. old \in Seq(SUBSET SigId) /\ Len(old) = len
  BY <1>3
<1>5. /\ Append(old, e.sigs) \in Seq(SUBSET SigId)
      /\ Len(Append(old, e.sigs)) = len + 1
      /\ \A n \in 1 .. len : Append(old, e.sigs)[n] = old[n]
      /\ Append(old, e.sigs)[len + 1] = e.sigs
  <2>1. e.sigs \in SUBSET SigId
    BY DEF Execution, Record
  <2> HIDE DEF old
  <2> QED
    BY <1>4, <2>1, AppendProperties
<1>6. new \in [1 .. len + 1 -> SUBSET SigId] /\ \A n \in 1 .. len + 1 : new[n] = Append(old, e.sigs)[n]
  <2>1. \A n \in 1 .. len : old[n] = written[n].sigs
    BY <1>1
  <2>2. ASSUME NEW n \in 1 .. len + 1
        PROVE  new[n] = Append(old, e.sigs)[n] /\ new[n] \in SUBSET SigId
    <3> HIDE DEF old
    <3>1. new[n] = written'[n].sigs
      BY <1>2
    <3>2. CASE n = len + 1
      BY <1>2, <1>5, <3>1, <3>2 DEF Execution, Record
    <3>3. CASE n # len + 1
      <4>1. n \in 1 .. len
        BY <3>3
      <4>2. written[n] \in Execution
        BY <1>1, <4>1 DEF TypeOK
      <4> QED
        BY <1>2, <1>5, <2>1, <3>1, <4>1, <4>2 DEF Execution, Record
    <3> QED
      BY <3>2, <3>3
  <2>3. DOMAIN new = 1 .. len + 1
    BY <1>2
  <2> QED
    BY <2>2, <2>3
<1> HIDE DEF old, new
<1>7. DOMAIN Append(old, e.sigs) = 1 .. len + 1
  BY <1>5
<1>8. new = Append(old, e.sigs)
  BY <1>5, <1>6, <1>7
<1> QED
  BY <1>8 DEF old, new

(* A record finalizes one key or two.                                          *)
LEMMA OneOrTwoKeys ==
  ASSUME NEW r \in Assembled
  PROVE  \E j, k \in Key : Consumed(r) = {j, k}
<1>1. CASE r.parent = None
  <2>1. r.key \in Key /\ Consumed(r) = {r.key, r.key}
    BY <1>1 DEF Consumed, Assembled
  <2> QED
    BY <2>1
<1>2. CASE r.parent # None
  <2>1. r.key \in Key /\ r.parent \in Key /\ Consumed(r) = {r.key, r.parent}
    BY <1>2 DEF Consumed, Assembled
  <2> QED
    BY <2>1
<1> QED
  BY <1>1, <1>2

(* The write is where a record takes effect: it finalizes its keys, takes what *)
(* is active under them and makes what is pending under them late.             *)
LEMMA LedgerWriteOK ==
  ASSUME TypeOK, AssemblyInv, Speaking, Exclusive, Exclusive', NEW c \in Caller, WriteOK(c)
  PROVE  L!Next
<1>1. PICK r \in batch : IsFirst(r) /\ written' = Append(written, r.ex)
  BY DEF WriteOK
<1>2. /\ pc[c] = "write" /\ pc' = [pc EXCEPT ![c] = "ack"]
      /\ UNCHANGED <<spans, logs, pendingSpans, pendingLogs, batch, emitted, taken, item>>
  BY DEF WriteOK, GoTo, active, pending
<1> DEFINE K == Consumed(r)
           S == r.ex.sigs
<1>3. Final = emitted /\ Final' = emitted \cup K /\ K \cap emitted = {}
  BY <1>1, <1>2, FinalAtWrite DEF Exclusive
<1>4. /\ \A Q : ActiveSigs(Q)' = ActiveSigs(Q)
      /\ \A Q : PendingSigs(Q)' = PendingSigs(Q)
  BY <1>2, SameActive, SamePending
<1>5. Recorded' = Recorded \cup S /\ Accepted' = Accepted
  BY <1>1, <1>2, RecordedAppend, AcceptedSame DEF TypeOK, Assembled
<1>6. r \in Assembled /\ r.ex \in Execution /\ K \subseteq Key /\ S = ActiveSigs(K)
  BY DEF TypeOK, Assembled, Consumed, Exclusive, SnapshotIsCurrent
<1>7. S # {}
  BY HonestIsNotEmpty DEF Speaking
<1> HIDE DEF K, S
<1>8. \A x : x \in S <=> \E k \in K : x \in ActiveSigs({k})
  BY <1>6, HeldByKey
<1>9. \A x \in S : x \notin Recorded
  BY <1>3, <1>6, <1>8 DEF Exclusive
<1>10. ASSUME NEW x \in Waiting
       PROVE  KeyOfId[x] \in K <=> \E k \in K : x \in ActiveSigs({k}) \cup PendingSigs({k})
  <2>1. PICK j \in Key : x \in ActiveSigs({j}) \cup PendingSigs({j})
    BY WaitingByKey
  <2>2. KeyOfId[x] = j /\ \A k \in Key : x \in ActiveSigs({k}) \cup PendingSigs({k}) => KeyOfId[x] = k
    BY <2>1, HeldAccepted
  <2> QED
    BY <1>6, <2>1, <2>2
<1> DEFINE U == L!Under(Waiting, K)
<1>11. \A x : x \in U <=> x \in Waiting /\ \E k \in K : x \in ActiveSigs({k}) \cup PendingSigs({k})
  BY <1>10, LedgerMeans
<1> HIDE DEF U
<1>12. S \subseteq U
  <2> SUFFICES ASSUME NEW x \in S PROVE x \in U
    OBVIOUS
  <2>1. x \in Waiting
    BY <1>6, <1>8, <1>9, WaitingByKey
  <2> QED
    BY <1>8, <1>11, <2>1
<1>13. ASSUME NEW x
       PROVE  x \in Waiting' <=> x \in Waiting \ U
  <2>1. x \in Waiting' <=>
          /\ x \notin Recorded'
          /\ \E k \in Key : x \in ActiveSigs({k})' \/ (k \notin Final' /\ x \in PendingSigs({k})')
    BY WaitingByKey
  <2>2. x \in Waiting <=>
          /\ x \notin Recorded
          /\ \E k \in Key : x \in ActiveSigs({k}) \/ (k \notin Final /\ x \in PendingSigs({k}))
    BY WaitingByKey
  <2>3. ASSUME NEW j \in Key, NEW k \in Key,
               x \in ActiveSigs({j}) \cup PendingSigs({j}),
               x \in ActiveSigs({k}) \cup PendingSigs({k})
        PROVE  j = k
    <3>1. \A q \in Key : x \in ActiveSigs({q}) \cup PendingSigs({q}) => KeyOfId[x] = q
      BY HeldAccepted
    <3> QED
      BY <2>3, <3>1
  <2>4. \A k \in Key : /\ x \in ActiveSigs({k})' <=> x \in ActiveSigs({k})
                       /\ x \in PendingSigs({k})' <=> x \in PendingSigs({k})
                       /\ k \notin Final' <=> k \notin Final /\ k \notin K
    BY <1>3, <1>4
  <2>5. x \notin Recorded' <=> x \notin Recorded /\ ~\E k \in K : x \in ActiveSigs({k})
    BY <1>5, <1>8
  <2>6. x \in U <=> x \in Waiting /\ \E k \in K : x \in ActiveSigs({k}) \cup PendingSigs({k})
    BY <1>11
  <2>7. \A k \in K : k \in Key /\ k \notin Final
    BY <1>3, <1>6
  <2> QED
    BY <2>1, <2>2, <2>3, <2>4, <2>5, <2>6, <2>7
<1>14. Waiting' = Waiting \ U
  BY <1>13
<1>15. U \subseteq Waiting /\ Waiting \subseteq Accepted /\ \A x \in Waiting : x \notin Recorded
  BY <1>11, HeldAccepted, WaitingByKey
<1>16. Late' = Late \cup (U \ S)
  BY <1>5, <1>12, <1>14, <1>15 DEF Late
<1>17. [n \in DOMAIN written' |-> written'[n].sigs]
         = Append([n \in DOMAIN written |-> written[n].sigs], S)
  BY <1>1, <1>6, LedgerAppend DEF S
<1>18. L!Record(K, S)
  BY <1>3, <1>7, <1>12, <1>14, <1>16, <1>17 DEF L!Record, U
<1>19. PICK j \in Key, k \in Key : K = {j, k}
  BY <1>6, OneOrTwoKeys DEF K
<1>20. S \in SUBSET Waiting
  BY <1>12, <1>15
<1>21. \E p, q \in Key, R \in SUBSET Waiting : L!Record({p, q}, R)
  BY <1>18, <1>19, <1>20
<1> QED
  BY <1>21 DEF L!Next

(* The acknowledgement tells the maps what the sink already has.               *)
LEMMA LedgerAck ==
  ASSUME TypeOK, AssemblyInv, NEW c \in Caller, Ack(c)
  PROVE  UNCHANGED L!ledger
<1>1. PICK r \in batch :
        /\ IsFirst(r)
        /\ spans' = Cleared(spans, Consumed(r))
        /\ logs' = Cleared(logs, Consumed(r))
        /\ DiscardPending(Consumed(r))
        /\ emitted' = emitted \cup Consumed(r)
  BY DEF Ack
<1>2. /\ pc[c] = "ack" /\ pc' = [pc EXCEPT ![c] = "emit"] /\ UNCHANGED <<written, taken, item>>
  BY DEF Ack, GoTo
<1>3. Acking # {} /\ Acking' = {}
  <2>1. \A d \in Caller : d # c => pc[d] # "ack"
    BY <1>2, OnlyHolder DEF AssemblyInv, Discipline, Holding
  <2> QED
    BY <1>2, <2>1 DEF Acking, TypeOK
<1>4. Final' = Final /\ Final = emitted \cup Consumed(r)
  BY <1>1, <1>3, FinalAcking, FinalQuiet DEF AssemblyInv, Discipline
<1>5. /\ \A k \in Key : ActiveSigs({k})' = IF k \in Consumed(r) THEN {} ELSE ActiveSigs({k})
      /\ \A k \in Key : PendingSigs({k})' = IF k \in Consumed(r) THEN {} ELSE PendingSigs({k})
  BY <1>1, AckUnder
<1>6. Recorded' = Recorded /\ Accepted' = Accepted
  BY <1>2, SameRecorded, AcceptedSame
<1>7. \A k \in Consumed(r) : ActiveSigs({k}) \subseteq Recorded
  <2>1. written # << >> /\ r.ex = written[Len(written)]
    BY <1>1, <1>3 DEF AssemblyInv, SnapshotCovers
  <2>2. Len(written) \in DOMAIN written
    BY <2>1 DEF TypeOK
  <2>3. r.ex.sigs \subseteq Recorded
    BY <2>1, <2>2 DEF Recorded
  <2>4. ActiveSigs(Consumed(r)) \subseteq Recorded
    BY <2>3 DEF AssemblyInv, SnapshotCovers
  <2>5. \A k \in Consumed(r) : \A x : x \in ActiveSigs({k}) => x \in ActiveSigs(Consumed(r))
    BY HeldByKey
  <2> QED
    BY <2>4, <2>5
<1>8. ASSUME NEW x
      PROVE  x \in Waiting' <=> x \in Waiting
  <2>1. x \in Waiting' <=>
          /\ x \notin Recorded
          /\ \E k \in Key : x \in ActiveSigs({k})' \/ (k \notin Final /\ x \in PendingSigs({k})')
    BY <1>4, <1>6, WaitingByKey
  <2>2. \A k \in Key : /\ x \in ActiveSigs({k})' <=> k \notin Consumed(r) /\ x \in ActiveSigs({k})
                       /\ x \in PendingSigs({k})' <=> k \notin Consumed(r) /\ x \in PendingSigs({k})
    BY <1>5
  <2>3. x \in Waiting <=>
          /\ x \notin Recorded
          /\ \E k \in Key : x \in ActiveSigs({k}) \/ (k \notin Final /\ x \in PendingSigs({k}))
    BY WaitingByKey
  <2> QED
    BY <1>4, <1>7, <2>1, <2>2, <2>3
<1> QED
  BY <1>2, <1>4, <1>6, <1>8, LedgerStutter

(* A rollback moves what is pending into the active maps and nothing else.     *)
LEMMA LedgerRestore ==
  ASSUME TypeOK, AssemblyInv, NEW c \in Caller, Restore(c)
  PROVE  UNCHANGED L!ledger
<1>1. PICK K : K = {k \in Unwritten : HasPending(k)}
  OBVIOUS
<1>2. /\ pc[c] = "restore" /\ pc' = [pc EXCEPT ![c] = "idle"]
      /\ UNCHANGED <<emitted, written, taken, item>> /\ MergePendingIntoActive(K)
  BY <1>1 DEF Restore, Return, GoTo
<1>3. Acking = {} /\ Acking' = {}
  <2>1. pc[c] \in Holding \ {"ack"}
    BY <1>2 DEF Holding
  <2>2. Acking = {}
    BY <2>1, NoOtherAck
  <2> QED
    BY <1>2, <2>2 DEF Acking, TypeOK
<1>4. Final' = Final /\ Final = emitted
  BY <1>2, <1>3, FinalQuiet
<1>5. /\ \A k \in Key : ActiveSigs({k})' = IF k \in K THEN ActiveSigs({k}) \cup PendingSigs({k})
                                                   ELSE ActiveSigs({k})
      /\ \A k \in Key : PendingSigs({k})' = IF k \in K THEN {} ELSE PendingSigs({k})
  BY <1>2, RestoreUnder
<1>6. Recorded' = Recorded /\ Accepted' = Accepted
  BY <1>2, SameRecorded, AcceptedSame
<1>7. \A k \in emitted : PendingSigs({k}) = {}
  BY ClosedHoldsNothing DEF AssemblyInv, Discipline
<1>8. ASSUME NEW x
      PROVE  x \in Waiting' <=> x \in Waiting
  <2>1. x \in Waiting' <=>
          /\ x \notin Recorded
          /\ \E k \in Key : x \in ActiveSigs({k})' \/ (k \notin emitted /\ x \in PendingSigs({k})')
    BY <1>4, <1>6, WaitingByKey
  <2>2. \A k \in Key : /\ x \in ActiveSigs({k})' <=> \/ x \in ActiveSigs({k})
                                                     \/ k \in K /\ x \in PendingSigs({k})
                       /\ x \in PendingSigs({k})' <=> k \notin K /\ x \in PendingSigs({k})
    BY <1>5
  <2>3. x \in Waiting <=>
          /\ x \notin Recorded
          /\ \E k \in Key : x \in ActiveSigs({k}) \/ (k \notin emitted /\ x \in PendingSigs({k}))
    BY <1>4, WaitingByKey
  <2> QED
    BY <1>7, <2>1, <2>2, <2>3
<1> QED
  BY <1>2, <1>4, <1>6, <1>8, LedgerStutter

LEMMA LedgerStep ==
  ASSUME TypeOK, AssemblyInv, Speaking, Exclusive, Exclusive', [Next]_vars
  PROVE  L!Next \/ UNCHANGED L!ledger
<1>1. CASE UNCHANGED vars \/ Tick
  <2>1. UNCHANGED <<active, pending, emitted, written, batch, pc, taken, item>>
    BY <1>1 DEF vars, Tick
  <2>2. Final' = Final /\ Accepted' = Accepted
    BY <2>1, FinalSame, AcceptedSame DEF Acking
  <2> QED
    BY <2>1, <2>2, LedgerQuiet
<1>2. ASSUME NEW c \in Caller, \/ StartConsume(c) \/ EndRequest(c) \/ StartFlush(c) \/ Receive(c)
                               \/ TryEmit(c) \/ WriteFail(c)
      PROVE  UNCHANGED L!ledger
  <2>1. UNCHANGED <<active, pending, emitted, written, batch>>
    BY <1>2 DEF StartConsume, EndRequest, StartFlush, Receive, TryEmit, WriteFail
  <2>2. /\ pc[c] # "ack"
        /\ pc' = pc \/ pc' \in {[pc EXCEPT ![c] = l] : l \in {"idle", "loop", "assemble", "write", "restore"}}
    BY <1>2 DEF StartConsume, EndRequest, StartFlush, Receive, TryEmit, WriteFail, GoTo
  <2>3. Acking' = Acking
    BY <2>2 DEF Acking, TypeOK
  <2>4. Accepted' = Accepted
    <3>1. EachItemOnce
      BY DEF AssemblyInv
    <3>2. CASE Receive(c)
      BY <3>1, <3>2, AcceptedReceive
    <3>3. CASE ~Receive(c)
      <4>1. UNCHANGED <<taken, item>>
        BY <1>2, <3>3 DEF StartConsume, EndRequest, StartFlush, TryEmit, WriteFail
      <4> QED
        BY <4>1, AcceptedSame
    <3> QED
      BY <3>2, <3>3
  <2>5. Final' = Final
    BY <2>1, <2>3, FinalSame
  <2> QED
    BY <2>1, <2>4, <2>5, LedgerQuiet
<1>3. ASSUME NEW c \in Caller, Skip(c) \/ Finish(c)
      PROVE  UNCHANGED L!ledger
  <2>1. /\ UNCHANGED <<active, pending, emitted, written, taken, item>>
        /\ pc[c] = "emit" /\ pc' \in {pc, [pc EXCEPT ![c] = "idle"]}
    BY <1>3 DEF Skip, Finish, Return, GoTo
  <2>2. Acking = {} /\ Acking' = {}
    <3>1. pc[c] \in Holding \ {"ack"}
      BY <2>1 DEF Holding
    <3>2. Acking = {}
      BY <3>1, NoOtherAck
    <3> QED
      BY <2>1, <3>2 DEF Acking, TypeOK
  <2>3. Final' = Final /\ Accepted' = Accepted
    BY <2>1, <2>2, FinalQuiet, AcceptedSame
  <2> QED
    BY <2>1, <2>3, LedgerQuiet
<1>4. ASSUME NEW c \in Caller, Claim(c)
      PROVE  UNCHANGED L!ledger
  <2>1. /\ UNCHANGED <<active, pending, emitted, written, taken, item>> /\ assembleMu = None
        /\ pc[c] = "assemble" /\ pc' = [pc EXCEPT ![c] = "emit"]
    BY <1>4 DEF Claim, Lock, GoTo
  <2>2. Acking = {} /\ Acking' = {}
    <3>1. Acking = {}
      BY <2>1, LockFreeMeansQuiet
    <3> QED
      BY <2>1, <3>1 DEF Acking, TypeOK
  <2>3. Final' = Final /\ Accepted' = Accepted
    BY <2>1, <2>2, FinalQuiet, AcceptedSame
  <2> QED
    BY <2>1, <2>3, LedgerQuiet
<1> QED
  BY <1>1, <1>2, <1>3, <1>4, LedgerBuffer, LedgerWriteOK, LedgerAck, LedgerRestore
     DEF Next, Ingest, Assemble, Sink

LEMMA LedgerInit == Init => L!Init
<1> SUFFICES ASSUME Init PROVE L!Init
  OBVIOUS
<1>1. /\ emitted = {} /\ batch = {} /\ taken = {} /\ written = << >>
      /\ \A k \in Key : /\ spans[k] = None /\ logs[k] = None
                        /\ pendingSpans[k] = None /\ pendingLogs[k] = None
  BY DEF Init, Nothing
<1>2. Final = {} /\ Accepted = {}
  BY <1>1 DEF Final, Accepted
<1>3. \A k \in Key : ActiveSigs({k}) = {} /\ PendingSigs({k}) = {}
  BY <1>1, EmptyKey
<1>4. Waiting = {}
  BY <1>3, WaitingByKey
<1>5. Late = {}
  BY <1>2 DEF Late
<1>6. [n \in DOMAIN written |-> written[n].sigs] = << >>
  BY <1>1
<1> QED
  BY <1>2, <1>4, <1>5, <1>6 DEF L!Init

(* The assembler implements Ledger: behind locks, generations, retries and      *)
(* rollbacks, a signal waits until a record of its call is in the sink, the     *)
(* record closes its one or two keys for good, and what it left under them or   *)
(* came later is late - provided that no two client spans name one parent.      *)
THEOREM KeepsThePromise ==
  ASSUME NoSharedParent
  PROVE  Spec => KeepsLedger
<1>1. Init => L!Init
  BY LedgerInit
<1>2. TypeOK /\ AssemblyInv /\ Speaking /\ Exclusive /\ Exclusive' /\ [Next]_vars => [L!Next]_(L!ledger)
  BY LedgerStep
<1> QED
  BY <1>1, <1>2, SnapshotsAreExclusive, PTL DEF Spec, KeepsLedger, L!Spec
==============================================================================
