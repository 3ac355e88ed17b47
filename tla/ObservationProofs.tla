-------------------------- MODULE ObservationProofs --------------------------
(***************************************************************************)
(* Facts about the merge family for every set of ids, texts and keys: the  *)
(* merge of two executions is an execution filed under the same key, and   *)
(* the verdict fields do not depend on the order of the merge.             *)
(***************************************************************************)
EXTENDS Observation, TLAPS

(* firstNonEmpty returns one of its arguments, so it stays in their type.      *)
LEMMA EitherType ==
  ASSUME NEW S, NEW a \in S, NEW b \in S
  PROVE  Either(a, b) \in S
BY DEF Either

(* ClassifyOperation never returns an id without "correlated", nor the reverse *)
(* (execution.go: an empty id and a missing attribution cannot drift apart).   *)
LEMMA ClassifyType ==
  ASSUME NEW found \in SUBSET OpId
  PROVE  /\ ClassifyOperation(found) \in [correlation : Correlation, op : OpId \cup {None}]
         /\ ClassifyOperation(found).op # None
              <=> ClassifyOperation(found).correlation = "correlated"
<1>0. None \notin OpId
  BY ObservationAssumption DEF ObservationAssumption
<1>1. CASE found = {}
  BY <1>1 DEF ClassifyOperation, Correlation
<1>2. CASE \E id \in OpId : found = {id}
  <2> DEFINE only == CHOOSE id \in OpId : found = {id}
  <2>1. found # {}
    BY <1>2
  <2>2. ClassifyOperation(found) = [correlation |-> "correlated", op |-> only]
    BY <1>2, <2>1 DEF ClassifyOperation
  <2>3. only \in OpId
    BY <1>2
  <2> HIDE DEF only
  <2> QED
    BY <1>0, <2>2, <2>3 DEF Correlation
<1>3. CASE found # {} /\ ~\E id \in OpId : found = {id}
  <2>1. ClassifyOperation(found) = [correlation |-> "ambiguous", op |-> None]
    BY <1>3 DEF ClassifyOperation
  <2> QED
    BY <2>1 DEF Correlation
<1> QED
  BY <1>1, <1>2, <1>3

(* The same of mergeCorrelation: a conflict clears the id.                     *)
LEMMA MergeCorrelationType ==
  ASSUME NEW a \in Execution, NEW b \in Execution
  PROVE  /\ MergeCorrelation(a, b) \in [correlation : Correlation, op : OpId \cup {None}]
         /\ MergeCorrelation(a, b).op # None
              <=> MergeCorrelation(a, b).correlation = "correlated"
<1>1. {a.op, b.op} \ {None} \in SUBSET OpId
  BY DEF Execution, Record
<1>2. CASE "ambiguous" \in {a.correlation, b.correlation}
  BY <1>2 DEF MergeCorrelation, Correlation
<1>3. CASE "ambiguous" \notin {a.correlation, b.correlation}
  BY <1>1, <1>3, ClassifyType DEF MergeCorrelation
<1> QED
  BY <1>2, <1>3

(* mergeStatus stays within the four terminal states.                          *)
LEMMA MergeStatusType ==
  ASSUME NEW a \in Status, NEW b \in Status
  PROVE  MergeStatus(a, b) \in Status
BY DEF MergeStatus, Status

(* mergeStatus does not depend on which signal came first.                     *)
LEMMA MergeStatusCommutes ==
  ASSUME NEW a \in Status, NEW b \in Status
  PROVE  MergeStatus(a, b) = MergeStatus(b, a)
BY DEF MergeStatus, Status

(* mergeStatus does not depend on how the signals were grouped.                *)
LEMMA MergeStatusAssociates ==
  ASSUME NEW a \in Status, NEW b \in Status, NEW c \in Status
  PROVE  MergeStatus(a, MergeStatus(b, c)) = MergeStatus(MergeStatus(a, b), c)
BY DEF MergeStatus, Status

(* strongerAvailability returns one of its arguments.                         *)
LEMMA StrongerAvailabilityType ==
  ASSUME NEW a \in Availability, NEW b \in Availability
  PROVE  StrongerAvailability(a, b) \in Availability
BY DEF StrongerAvailability

(* merge fills a missing duration by an integer.                              *)
LEMMA MergeDurationType ==
  ASSUME NEW a \in Execution, NEW b \in Execution
  PROVE  MergeDuration(a, b) \in Int
<1> DEFINE started == Either(a.startedAt, b.startedAt)
           finished == Either(a.finishedAt, b.finishedAt)
<1>1. /\ a.duration \in Int /\ b.duration \in Int
      /\ started \in Int \cup {None} /\ finished \in Int \cup {None}
  BY EitherType DEF Execution, Record
<1>2. CASE a.duration # 0
  BY <1>1, <1>2 DEF MergeDuration
<1>3. CASE a.duration = 0 /\ b.duration # 0
  BY <1>1, <1>3 DEF MergeDuration
<1>4. CASE a.duration = 0 /\ b.duration = 0 /\ None \notin {started, finished}
  <2>1. MergeDuration(a, b) = finished - started
    BY <1>4 DEF MergeDuration
  <2> HIDE DEF started, finished
  <2> QED
    BY <1>1, <1>4, <2>1
<1>5. CASE a.duration = 0 /\ b.duration = 0 /\ None \in {started, finished}
  BY <1>5 DEF MergeDuration
<1> QED
  BY <1>2, <1>3, <1>4, <1>5

(* The merge of two executions is an execution, filed under the key of the     *)
(* record it was merged into.                                                  *)
THEOREM MergeType ==
  ASSUME NEW a \in Execution, NEW b \in Execution
  PROVE  /\ Merge(a, b) \in Execution
         /\ Merge(a, b).key = a.key
         /\ Merge(a, b).sigs = a.sigs \cup b.sigs
<1> USE DEF Execution, Record
<1>1. /\ Either(a.parent, b.parent) \in Key \cup {None}
      /\ Either(a.kind, b.kind) \in Kind \cup {None}
      /\ Either(a.tool, b.tool) \in Text \cup {None}
      /\ Either(a.target, b.target) \in Text \cup {None}
      /\ Either(a.startedAt, b.startedAt) \in Int \cup {None}
      /\ Either(a.finishedAt, b.finishedAt) \in Int \cup {None}
      /\ Either(a.errorType, b.errorType) \in Text \cup {None}
      /\ Either(a.errorCode, b.errorCode) \in Text \cup {None}
      /\ Either(a.source, b.source) \in Text \cup {None}
  BY EitherType
<1>2. /\ MergeStatus(a.status, b.status) \in Status
      /\ StrongerAvailability(a.args, b.args) \in Availability
      /\ StrongerAvailability(a.result, b.result) \in Availability
      /\ MergeDuration(a, b) \in Int
  BY MergeStatusType, StrongerAvailabilityType, MergeDurationType
<1>3. /\ MergeCorrelation(a, b).correlation \in Correlation
      /\ MergeCorrelation(a, b).op \in OpId \cup {None}
      /\ MergeCorrelation(a, b).op # None
           <=> MergeCorrelation(a, b).correlation = "correlated"
  BY MergeCorrelationType
<1>4. /\ a.seenFrom \cup b.seenFrom \in SUBSET Signal
      /\ a.disagreements \cup Objections(a, b) \in SUBSET Field
      /\ a.sigs \cup b.sigs \in SUBSET SigId
      /\ a.key \in Key
  BY DEF Objections, Field
<1> QED
  BY <1>1, <1>2, <1>3, <1>4 DEF Merge

(* A map entry stays a map entry, and stays under its key.                     *)
LEMMA JoinType ==
  ASSUME NEW a \in Execution \cup {None}, NEW b \in Execution \cup {None}
  PROVE  /\ Join(a, b) \in Execution \cup {None}
         /\ Join(a, b) = None <=> a = None /\ b = None
         /\ a # None => Join(a, b).key = a.key
         /\ a = None => Join(a, b) = b
<1>0. None \notin Execution
  BY NoneIsNoExecution DEF NoneIsNoExecution
<1>1. CASE a = None
  BY <1>1 DEF Join
<1>2. CASE a # None /\ b = None
  BY <1>2 DEF Join
<1>3. CASE a # None /\ b # None
  BY <1>0, <1>3, MergeType DEF Join
<1> QED
  BY <1>1, <1>2, <1>3

(* The items a map entry was merged from.                                     *)
SigsOf(e) == IF e = None THEN {} ELSE e.sigs

(* No item of a record merged into a map entry is lost from its history.      *)
LEMMA JoinSigs ==
  ASSUME NEW a \in Execution \cup {None}, NEW b \in Execution \cup {None}
  PROVE  SigsOf(Join(a, b)) = SigsOf(a) \cup SigsOf(b)
<1>0. None \notin Execution
  BY NoneIsNoExecution DEF NoneIsNoExecution
<1>1. CASE a = None
  BY <1>1 DEF Join, SigsOf
<1>2. CASE a # None /\ b = None
  BY <1>2 DEF Join, SigsOf
<1>3. CASE a # None /\ b # None
  <2>1. Join(a, b) = Merge(a, b) /\ Merge(a, b) # None /\ Merge(a, b).sigs = a.sigs \cup b.sigs
    BY <1>0, <1>3, MergeType DEF Join
  <2> QED
    BY <1>3, <2>1 DEF SigsOf
<1> QED
  BY <1>1, <1>2, <1>3

------------------------------------------------------------------------------
(* What the reference StrongestStatus returns, case by case: error before      *)
(* cancelled before success before unknown.                                    *)
LEMMA StrongestSays ==
  ASSUME NEW S \in SUBSET Execution
  PROVE  /\ (\E x \in S : x.status = "error") => StrongestStatus(S) = "error"
         /\ (/\ ~\E x \in S : x.status = "error"
             /\ \E x \in S : x.status = "cancelled") => StrongestStatus(S) = "cancelled"
         /\ (/\ ~\E x \in S : x.status = "error"
             /\ ~\E x \in S : x.status = "cancelled"
             /\ \E x \in S : x.status = "success") => StrongestStatus(S) = "success"
         /\ (\A x \in S : x.status = "unknown") => StrongestStatus(S) = "unknown"
<1> DEFINE asserted == {x.status : x \in S} \ {"unknown"}
<1>0. /\ asserted \subseteq {"success", "error", "cancelled"}
      /\ \A s : s \in asserted <=> s # "unknown" /\ \E x \in S : x.status = s
  BY DEF Execution, Record, Status
<1>d. StrongestStatus(S) = CASE "error" \in asserted   -> "error"
                             [] asserted = {"success"} -> "success"
                             [] asserted = {}          -> "unknown"
                             [] OTHER                  -> "cancelled"
  BY DEF StrongestStatus
<1> HIDE DEF asserted
<1>1. CASE "error" \in asserted
  <2>1. StrongestStatus(S) = "error"
    BY <1>d, <1>1
  <2> QED
    BY <1>0, <1>1, <2>1
<1>2. CASE "error" \notin asserted /\ "cancelled" \in asserted
  <2>1. StrongestStatus(S) = "cancelled"
    BY <1>d, <1>2
  <2> QED
    BY <1>0, <1>2, <2>1
<1>3. CASE asserted = {"success"}
  <2>1. StrongestStatus(S) = "success"
    BY <1>d, <1>3
  <2> QED
    BY <1>0, <1>3, <2>1
<1>4. CASE asserted = {}
  <2>1. StrongestStatus(S) = "unknown"
    BY <1>d, <1>4
  <2> QED
    BY <1>0, <1>4, <2>1
<1> QED
  BY <1>0, <1>1, <1>2, <1>3, <1>4

(* mergeStatus computes the strongest status of a union from those of its      *)
(* parts: pairwise merging agrees with the reference that sees all signals.    *)
LEMMA StatusOfUnion ==
  ASSUME NEW S \in SUBSET Execution, NEW T \in SUBSET Execution
  PROVE  StrongestStatus(S \cup T) = MergeStatus(StrongestStatus(S), StrongestStatus(T))
<1> DEFINE Says(U, s) == \E x \in U : x.status = s
<1>0. \A x \in S \cup T : x.status \in {"success", "error", "cancelled", "unknown"}
  BY DEF Execution, Record, Status
<1>1. \A s : Says(S \cup T, s) <=> Says(S, s) \/ Says(T, s)
  OBVIOUS
<1>2. \A U \in {S, T, S \cup T} :
        /\ Says(U, "error") => StrongestStatus(U) = "error"
        /\ ~Says(U, "error") /\ Says(U, "cancelled") => StrongestStatus(U) = "cancelled"
        /\ ~Says(U, "error") /\ ~Says(U, "cancelled") /\ Says(U, "success")
             => StrongestStatus(U) = "success"
        /\ ~Says(U, "error") /\ ~Says(U, "cancelled") /\ ~Says(U, "success")
             => StrongestStatus(U) = "unknown"
  <2> TAKE U \in {S, T, S \cup T}
  <2>1. U \in SUBSET Execution /\ \A x \in U : x \in S \cup T
    OBVIOUS
  <2> QED
    BY <1>0, <2>1, StrongestSays
<1> HIDE DEF Says
<1> QED
  BY <1>1, <1>2 DEF MergeStatus

(* What ClassifyOperation says of a set of ids, and the set it must have seen  *)
(* to say it.                                                                  *)
LEMMA ClassifySays ==
  ASSUME NEW found \in SUBSET OpId
  PROVE  /\ ClassifyOperation(found).correlation = "unattributed"
              => found = {} /\ ClassifyOperation(found).op = None
         /\ ClassifyOperation(found).correlation = "correlated"
              => found = {ClassifyOperation(found).op}
         /\ ClassifyOperation(found).correlation = "ambiguous"
              => /\ ClassifyOperation(found) = [correlation |-> "ambiguous", op |-> None]
                 /\ found # {} /\ ~\E id \in OpId : found = {id}
         /\ (found # {} /\ ~\E id \in OpId : found = {id})
              => ClassifyOperation(found) = [correlation |-> "ambiguous", op |-> None]
<1>1. CASE found = {}
  <2>1. ClassifyOperation(found) = [correlation |-> "unattributed", op |-> None]
    BY <1>1 DEF ClassifyOperation
  <2> QED
    BY <1>1, <2>1
<1>2. CASE \E id \in OpId : found = {id}
  <2> DEFINE only == CHOOSE id \in OpId : found = {id}
  <2>1. found # {}
    BY <1>2
  <2>2. ClassifyOperation(found) = [correlation |-> "correlated", op |-> only]
    BY <1>2, <2>1 DEF ClassifyOperation
  <2>3. only \in OpId /\ found = {only}
    BY <1>2
  <2> HIDE DEF only
  <2> QED
    BY <1>2, <2>2, <2>3
<1>3. CASE found # {} /\ ~\E id \in OpId : found = {id}
  <2>1. ClassifyOperation(found) = [correlation |-> "ambiguous", op |-> None]
    BY <1>3 DEF ClassifyOperation
  <2> QED
    BY <1>3, <2>1
<1> QED
  BY <1>1, <1>2, <1>3

(* mergeCorrelation computes the attribution of a union of signals from the    *)
(* attributions of its parts: an ambiguity is never undone, and two parts      *)
(* agree exactly if all ids of both are one id.                                *)
LEMMA AttributionOfUnion ==
  ASSUME NEW a, NEW b, NEW S \in SUBSET Execution, NEW T \in SUBSET Execution,
         [correlation |-> a.correlation, op |-> a.op] = Attribution(S),
         [correlation |-> b.correlation, op |-> b.op] = Attribution(T)
  PROVE  MergeCorrelation(a, b) = Attribution(S \cup T)
<1> DEFINE Mixed(U) == \E x \in U : x.correlation = "ambiguous"
<1>0. None \notin OpId
  BY ObservationAssumption DEF ObservationAssumption
<1>1. /\ Said(S, "op") \in SUBSET OpId
      /\ Said(T, "op") \in SUBSET OpId
      /\ Said(S \cup T, "op") = Said(S, "op") \cup Said(T, "op")
  BY DEF Said, Execution, Record
<1>2. Mixed(S \cup T) <=> Mixed(S) \/ Mixed(T)
  OBVIOUS
<1>3. \A U : Attribution(U) = IF Mixed(U) THEN [correlation |-> "ambiguous", op |-> None]
                              ELSE ClassifyOperation(Said(U, "op"))
  BY DEF Attribution
<1>4. /\ a.correlation = Attribution(S).correlation /\ a.op = Attribution(S).op
      /\ b.correlation = Attribution(T).correlation /\ b.op = Attribution(T).op
  <2>1. /\ [correlation |-> a.correlation, op |-> a.op].correlation = Attribution(S).correlation
        /\ [correlation |-> a.correlation, op |-> a.op].op = Attribution(S).op
        /\ [correlation |-> b.correlation, op |-> b.op].correlation = Attribution(T).correlation
        /\ [correlation |-> b.correlation, op |-> b.op].op = Attribution(T).op
    OBVIOUS
  <2> QED
    BY <2>1
<1> HIDE DEF Mixed
<1>5. CASE Mixed(S) \/ Mixed(T)
  <2>1. Attribution(S \cup T) = [correlation |-> "ambiguous", op |-> None]
    BY <1>2, <1>3, <1>5
  <2>2. "ambiguous" \in {a.correlation, b.correlation}
    BY <1>3, <1>4, <1>5
  <2> QED
    BY <2>1, <2>2 DEF MergeCorrelation
<1>6. CASE ~Mixed(S) /\ ~Mixed(T)
  <2>1. /\ a.correlation = ClassifyOperation(Said(S, "op")).correlation
        /\ a.op = ClassifyOperation(Said(S, "op")).op
        /\ b.correlation = ClassifyOperation(Said(T, "op")).correlation
        /\ b.op = ClassifyOperation(Said(T, "op")).op
        /\ Attribution(S \cup T) = ClassifyOperation(Said(S, "op") \cup Said(T, "op"))
    BY <1>1, <1>2, <1>3, <1>4, <1>6
  <2>2. CASE "ambiguous" \in {a.correlation, b.correlation}
    <3>1. \E U \in {Said(S, "op"), Said(T, "op")} : U # {} /\ ~\E id \in OpId : U = {id}
      BY <1>1, <2>1, <2>2, ClassifySays
    <3>2. /\ Said(S, "op") \cup Said(T, "op") # {}
          /\ ~\E id \in OpId : Said(S, "op") \cup Said(T, "op") = {id}
      BY <1>1, <3>1
    <3>3. Said(S, "op") \cup Said(T, "op") \in SUBSET OpId
      BY <1>1
    <3>4. Attribution(S \cup T) = [correlation |-> "ambiguous", op |-> None]
      BY <2>1, <3>2, <3>3, ClassifySays
    <3> QED
      BY <2>2, <3>4 DEF MergeCorrelation
  <2>3. CASE "ambiguous" \notin {a.correlation, b.correlation}
    <3>1. Said(S, "op") = {a.op} \ {None}
      <4>1. a.correlation \in {"correlated", "unattributed"}
        BY <1>1, <2>1, <2>3, ClassifyType DEF Correlation
      <4> QED
        BY <1>0, <1>1, <2>1, <4>1, ClassifySays
    <3>2. Said(T, "op") = {b.op} \ {None}
      <4>1. b.correlation \in {"correlated", "unattributed"}
        BY <1>1, <2>1, <2>3, ClassifyType DEF Correlation
      <4> QED
        BY <1>0, <1>1, <2>1, <4>1, ClassifySays
    <3>3. Said(S, "op") \cup Said(T, "op") = {a.op, b.op} \ {None}
      BY <3>1, <3>2
    <3> QED
      BY <2>1, <2>3, <3>3 DEF MergeCorrelation
  <2> QED
    BY <2>2, <2>3
<1> QED
  BY <1>5, <1>6

(* strongerAvailability computes the most informative availability of a union  *)
(* of signals from those of its parts, and makes none up.                      *)
LEMMA AvailabilityOfUnion ==
  ASSUME NEW f \in {"args", "result"}, NEW a \in Availability, NEW b \in Availability,
         NEW S \in SUBSET Execution, NEW T \in SUBSET Execution,
         \E x \in S : a = x[f], \A x \in S : Rank[a] >= Rank[x[f]],
         \E x \in T : b = x[f], \A x \in T : Rank[b] >= Rank[x[f]]
  PROVE  /\ \E x \in S \cup T : StrongerAvailability(a, b) = x[f]
         /\ \A x \in S \cup T : Rank[StrongerAvailability(a, b)] >= Rank[x[f]]
<1>1. \A s \in Availability : Rank[s] \in Int
  BY DEF Rank, Availability
<1>2. \A x \in S \cup T : x[f] \in Availability
  BY DEF Execution, Record
<1>3. CASE Rank[a] >= Rank[b]
  <2>1. StrongerAvailability(a, b) = a
    BY <1>3 DEF StrongerAvailability
  <2> QED
    BY <1>1, <1>2, <1>3, <2>1
<1>4. CASE ~(Rank[a] >= Rank[b])
  <2>1. StrongerAvailability(a, b) = b
    BY <1>4 DEF StrongerAvailability
  <2>2. Rank[b] >= Rank[a]
    BY <1>1, <1>4
  <2> QED
    BY <1>1, <1>2, <2>1, <2>2
<1> QED
  BY <1>3, <1>4

(* The verdict of a merged record is the verdict over all signals of both      *)
(* sides: status, attribution, availability and seen_from of merge(base, add)  *)
(* can be computed pairwise, in any order and grouping, with the same result.  *)
THEOREM VerdictOfMerge ==
  ASSUME NEW a \in Execution, NEW b \in Execution,
         NEW S \in SUBSET Execution, NEW T \in SUBSET Execution,
         Verdict(a, S), Verdict(b, T)
  PROVE  Verdict(Merge(a, b), S \cup T)
<1> DEFINE m == Merge(a, b)
<1>f. /\ m.status = MergeStatus(a.status, b.status)
      /\ m.correlation = MergeCorrelation(a, b).correlation
      /\ m.op = MergeCorrelation(a, b).op
      /\ m["args"] = StrongerAvailability(a.args, b.args)
      /\ m["result"] = StrongerAvailability(a.result, b.result)
      /\ m.seenFrom = a.seenFrom \cup b.seenFrom
  BY DEF Merge
<1>v. /\ a.status = StrongestStatus(S) /\ b.status = StrongestStatus(T)
      /\ [correlation |-> a.correlation, op |-> a.op] = Attribution(S)
      /\ [correlation |-> b.correlation, op |-> b.op] = Attribution(T)
      /\ \A f \in {"args", "result"} :
           /\ \E x \in S : a[f] = x[f]
           /\ \A x \in S : Rank[a[f]] >= Rank[x[f]]
           /\ \E x \in T : b[f] = x[f]
           /\ \A x \in T : Rank[b[f]] >= Rank[x[f]]
      /\ a.seenFrom = UNION {x.seenFrom : x \in S}
      /\ b.seenFrom = UNION {x.seenFrom : x \in T}
  BY DEF Verdict
<1> HIDE DEF m
<1>1. m.status = StrongestStatus(S \cup T)
  BY <1>f, <1>v, StatusOfUnion
<1>2. [correlation |-> m.correlation, op |-> m.op] = Attribution(S \cup T)
  <2>1. MergeCorrelation(a, b) = Attribution(S \cup T)
    BY <1>v, AttributionOfUnion
  <2>2. MergeCorrelation(a, b) = [correlation |-> MergeCorrelation(a, b).correlation,
                                  op |-> MergeCorrelation(a, b).op]
    BY MergeCorrelationType
  <2> QED
    BY <1>f, <2>1, <2>2
<1>3. \A f \in {"args", "result"} :
        /\ \E x \in S \cup T : m[f] = x[f]
        /\ \A x \in S \cup T : Rank[m[f]] >= Rank[x[f]]
  <2> TAKE f \in {"args", "result"}
  <2>1. m[f] = StrongerAvailability(a[f], b[f])
    BY <1>f
  <2>2. a[f] \in Availability /\ b[f] \in Availability
    BY DEF Execution, Record
  <2>3. /\ \E x \in S : a[f] = x[f]
        /\ \A x \in S : Rank[a[f]] >= Rank[x[f]]
        /\ \E x \in T : b[f] = x[f]
        /\ \A x \in T : Rank[b[f]] >= Rank[x[f]]
    BY <1>v
  <2>4. /\ \E x \in S \cup T : StrongerAvailability(a[f], b[f]) = x[f]
        /\ \A x \in S \cup T : Rank[StrongerAvailability(a[f], b[f])] >= Rank[x[f]]
    BY <2>2, <2>3, AvailabilityOfUnion
  <2> QED
    BY <2>1, <2>4
<1>4. m.seenFrom = UNION {x.seenFrom : x \in S \cup T}
  BY <1>f, <1>v
<1> QED
  BY <1>1, <1>2, <1>3, <1>4 DEF Verdict, m

(* A record as normalize returns it speaks for itself.                         *)
LEMMA VerdictOfOne ==
  ASSUME NEW x \in Execution
  PROVE  Verdict(x, {x})
<1>0. None \notin OpId
  BY ObservationAssumption DEF ObservationAssumption
<1>t. /\ x.status \in {"success", "error", "cancelled", "unknown"}
      /\ x.correlation \in {"correlated", "unattributed", "ambiguous"}
      /\ x.op \in OpId \cup {None}
      /\ x.op # None <=> x.correlation = "correlated"
      /\ x.args \in Availability /\ x.result \in Availability
  BY DEF Execution, Record, Status, Correlation
<1>1. x.status = StrongestStatus({x})
  <2>1. {x} \in SUBSET Execution /\ \A y \in {x} : y.status = x.status
    OBVIOUS
  <2> QED
    BY <1>t, <2>1, StrongestSays
<1>2. [correlation |-> x.correlation, op |-> x.op] = Attribution({x})
  <2>1. CASE x.correlation = "ambiguous"
    BY <1>t, <2>1 DEF Attribution
  <2>2. CASE x.correlation # "ambiguous"
    <3>1. Said({x}, "op") = {x.op} \ {None}
      BY DEF Said
    <3>2. Attribution({x}) = ClassifyOperation({x.op} \ {None})
      BY <2>2, <3>1 DEF Attribution
    <3>3. CASE x.op = None
      <4>1. ClassifyOperation({}) = [correlation |-> "unattributed", op |-> None]
        BY DEF ClassifyOperation
      <4>2. {x.op} \ {None} = {}
        BY <3>3
      <4> QED
        BY <1>t, <2>2, <3>2, <3>3, <4>1, <4>2
    <3>4. CASE x.op # None
      <4>1. {x.op} \ {None} = {x.op} /\ x.op \in OpId
        BY <1>t, <3>4
      <4>2. ClassifyOperation({x.op}) = [correlation |-> "correlated",
                                         op |-> CHOOSE id \in OpId : {x.op} = {id}]
        BY <4>1 DEF ClassifyOperation
      <4>3. (CHOOSE id \in OpId : {x.op} = {id}) = x.op
        BY <4>1
      <4> QED
        BY <1>t, <3>2, <3>4, <4>1, <4>2, <4>3
    <3> QED
      BY <3>3, <3>4
  <2> QED
    BY <2>1, <2>2
<1>3. \A f \in {"args", "result"} :
        /\ \E y \in {x} : x[f] = y[f]
        /\ \A y \in {x} : Rank[x[f]] >= Rank[y[f]]
  BY <1>t DEF Rank, Availability
<1>4. x.seenFrom = UNION {y.seenFrom : y \in {x}}
  OBVIOUS
<1> QED
  BY <1>1, <1>2, <1>3, <1>4 DEF Verdict

(* Every field KeepsValues speaks of is merged by "take the base, else add".   *)
LEMMA MergeTakesEither ==
  ASSUME NEW a, NEW b,
         NEW f \in {"parent", "kind", "tool", "target", "startedAt", "finishedAt",
                    "errorType", "errorCode", "source"}
  PROVE  Merge(a, b)[f] = Either(a[f], b[f])
BY DEF Merge

(* No value of either side turns into an absence in merge(base, add), and none *)
(* is made up.                                                                 *)
THEOREM KeepsValuesOfMerge ==
  ASSUME NEW a, NEW b, NEW S, NEW T, KeepsValues(a, S), KeepsValues(b, T)
  PROVE  KeepsValues(Merge(a, b), S \cup T)
<1> DEFINE Kept == {"parent", "kind", "tool", "target", "startedAt", "finishedAt",
                    "errorType", "errorCode", "source"}
<1>1. ASSUME NEW f \in Kept
      PROVE  IF Said(S \cup T, f) = {} THEN Merge(a, b)[f] = None
                                       ELSE Merge(a, b)[f] \in Said(S \cup T, f)
  <2>1. Merge(a, b)[f] = Either(a[f], b[f])
    BY MergeTakesEither
  <2>2. /\ IF Said(S, f) = {} THEN a[f] = None ELSE a[f] \in Said(S, f)
        /\ IF Said(T, f) = {} THEN b[f] = None ELSE b[f] \in Said(T, f)
    BY DEF KeepsValues
  <2>3. Said(S \cup T, f) = Said(S, f) \cup Said(T, f)
    BY DEF Said
  <2>4. None \notin Said(S, f) /\ None \notin Said(T, f)
    BY DEF Said
  <2> QED
    BY <2>1, <2>2, <2>3, <2>4 DEF Either
<1> QED
  BY <1>1 DEF KeepsValues

LEMMA KeepsValuesOfOne ==
  ASSUME NEW x
  PROVE  KeepsValues(x, {x})
BY DEF KeepsValues, Said
=============================================================================
