--------------------------- MODULE MergeTreeProofs ---------------------------
(***************************************************************************)
(* What holds of every tree of merges, for every set of records normalize  *)
(* can return and every number of signals a call is observed by.  TLC      *)
(* builds all trees over seven records; the proof goes by the one fact     *)
(* that a record knows the signals it was merged from, WellFounded, and by *)
(* the merge algebra of ObservationProofs.                                 *)
(***************************************************************************)
EXTENDS MergeTree, ObservationProofs

(* A part was merged from the signals it names and from no part of one: the    *)
(* contributors of a record cover it.                                          *)
WellFounded == \A r \in parts : r.sigs = UNION {x.sigs : x \in Contributors(r)}

MInv == WellFounded /\ VerdictIgnoresOrder /\ MergingKeepsValues

(* A record normalize returned was merged from itself alone.                   *)
LEMMA ContributorsOfOne ==
  ASSUME NEW x \in Input
  PROVE  Contributors(x) = {x}
<1>1. x \in Contributors(x)
  BY DEF Contributors
<1>2. ASSUME NEW y \in Contributors(x)
      PROVE  y = x
  <2>1. y \in Input /\ y.sigs \subseteq x.sigs /\ y.sigs # {}
    BY MergeTreeAssumption DEF Contributors, MergeTreeAssumption
  <2>2. y.sigs \cap x.sigs # {}
    BY <2>1
  <2> QED
    BY <2>1, <2>2, MergeTreeAssumption DEF MergeTreeAssumption
<1> QED
  BY <1>1, <1>2

(* merge(base, add) is merged from what either side was merged from.           *)
LEMMA ContributorsOfMerge ==
  ASSUME NEW a \in Execution, NEW b \in Execution,
         a.sigs = UNION {x.sigs : x \in Contributors(a)},
         b.sigs = UNION {x.sigs : x \in Contributors(b)}
  PROVE  /\ Contributors(Merge(a, b)) = Contributors(a) \cup Contributors(b)
         /\ Merge(a, b).sigs = UNION {x.sigs : x \in Contributors(Merge(a, b))}
<1>1. Merge(a, b).sigs = a.sigs \cup b.sigs
  BY MergeType
<1>2. ASSUME NEW x \in Contributors(a) \cup Contributors(b)
      PROVE  x \in Contributors(Merge(a, b))
  BY <1>1 DEF Contributors
<1>3. ASSUME NEW x \in Contributors(Merge(a, b))
      PROVE  x \in Contributors(a) \cup Contributors(b)
  <2>1. x \in Input /\ x.sigs \subseteq a.sigs \cup b.sigs
    BY <1>1 DEF Contributors
  <2>2. PICK s \in x.sigs : TRUE
    BY <2>1, MergeTreeAssumption DEF MergeTreeAssumption
  <2>3. PICK y \in Contributors(a) \cup Contributors(b) : s \in y.sigs
    BY <2>1, <2>2
  <2>4. y \in Input /\ s \in x.sigs \cap y.sigs
    BY <2>2, <2>3 DEF Contributors
  <2>5. x = y
    BY <2>1, <2>4, MergeTreeAssumption DEF MergeTreeAssumption
  <2> QED
    BY <2>3, <2>5
<1>4. Contributors(Merge(a, b)) = Contributors(a) \cup Contributors(b)
  BY <1>2, <1>3
<1> QED
  BY <1>1, <1>4

LEMMA MergeTreeInit == Init => TypeOK /\ MInv
<1> SUFFICES ASSUME Init
             PROVE  TypeOK /\ MInv
  OBVIOUS
<1>1. parts \subseteq Input
  BY DEF Init
<1>2. TypeOK
  BY <1>1, MergeTreeAssumption DEF TypeOK, MergeTreeAssumption
<1>3. ASSUME NEW r \in parts
      PROVE  /\ r.sigs = UNION {x.sigs : x \in Contributors(r)}
             /\ Verdict(r, Contributors(r))
             /\ KeepsValues(r, Contributors(r))
  <2>1. r \in Execution /\ Contributors(r) = {r}
    BY <1>1, <1>2, ContributorsOfOne DEF TypeOK
  <2>2. Verdict(r, {r}) /\ KeepsValues(r, {r})
    BY <2>1, VerdictOfOne, KeepsValuesOfOne
  <2> QED
    BY <2>1, <2>2
<1> QED
  BY <1>2, <1>3 DEF MInv, WellFounded, VerdictIgnoresOrder, MergingKeepsValues

LEMMA MergeTreeStep == TypeOK /\ MInv /\ [Next]_parts => TypeOK' /\ MInv'
<1> SUFFICES ASSUME TypeOK, MInv, [Next]_parts
             PROVE  TypeOK' /\ MInv'
  OBVIOUS
<1>1. CASE UNCHANGED parts
  <2>1. TypeOK'
    BY <1>1 DEF TypeOK
  <2>2. WellFounded' /\ VerdictIgnoresOrder' /\ MergingKeepsValues'
    BY <1>1 DEF MInv, WellFounded, VerdictIgnoresOrder, MergingKeepsValues
  <2> QED
    BY <2>1, <2>2 DEF MInv
<1>2. CASE Combine
  <2>1. PICK a \in parts, b \in parts : parts' = (parts \ {a, b}) \cup {Merge(a, b)}
    BY <1>2 DEF Combine
  <2>2. /\ a \in Execution /\ b \in Execution
        /\ a.sigs = UNION {x.sigs : x \in Contributors(a)}
        /\ b.sigs = UNION {x.sigs : x \in Contributors(b)}
        /\ Verdict(a, Contributors(a)) /\ Verdict(b, Contributors(b))
        /\ KeepsValues(a, Contributors(a)) /\ KeepsValues(b, Contributors(b))
    BY DEF TypeOK, MInv, WellFounded, VerdictIgnoresOrder, MergingKeepsValues
  <2>3. /\ Contributors(Merge(a, b)) = Contributors(a) \cup Contributors(b)
        /\ Merge(a, b).sigs = UNION {x.sigs : x \in Contributors(Merge(a, b))}
    BY <2>2, ContributorsOfMerge
  <2>4. Contributors(a) \in SUBSET Execution /\ Contributors(b) \in SUBSET Execution
    BY MergeTreeAssumption DEF Contributors, MergeTreeAssumption
  <2>5. Verdict(Merge(a, b), Contributors(Merge(a, b)))
    BY <2>2, <2>3, <2>4, VerdictOfMerge
  <2>6. KeepsValues(Merge(a, b), Contributors(Merge(a, b)))
    BY <2>2, <2>3, KeepsValuesOfMerge
  <2>7. Merge(a, b) \in Execution
    BY <2>2, MergeType
  <2>8. TypeOK'
    BY <2>1, <2>7 DEF TypeOK
  <2>9. ASSUME NEW r \in parts'
        PROVE  /\ r.sigs = UNION {x.sigs : x \in Contributors(r)}
               /\ Verdict(r, Contributors(r))
               /\ KeepsValues(r, Contributors(r))
    <3>1. r \in parts \/ r = Merge(a, b)
      BY <2>1
    <3> QED
      BY <2>3, <2>5, <2>6, <3>1 DEF MInv, WellFounded, VerdictIgnoresOrder, MergingKeepsValues
  <2> QED
    BY <2>8, <2>9 DEF MInv, WellFounded, VerdictIgnoresOrder, MergingKeepsValues
<1> QED
  BY <1>1, <1>2 DEF Next

(* Whatever is merged with whatever, every part of the tree is an execution    *)
(* that names the signals it came from.                                        *)
THEOREM TreeInductive == Spec => [](TypeOK /\ MInv)
<1>1. Init => TypeOK /\ MInv
  BY MergeTreeInit
<1>2. TypeOK /\ MInv /\ [Next]_parts => TypeOK' /\ MInv'
  BY MergeTreeStep
<1> QED
  BY <1>1, <1>2, PTL DEF Spec

(* The status, the attribution, the availability and seen_from of an assembled *)
(* record are those of the set of its signals: mergeStatus, mergeCorrelation   *)
(* and strongerAvailability make no difference of order or grouping.           *)
THEOREM OrderMakesNoVerdict == Spec => []VerdictIgnoresOrder
BY TreeInductive, PTL DEF MInv

(* merge drops no value of a signal and makes none up, in every tree.          *)
THEOREM NoValueIsLost == Spec => []MergingKeepsValues
BY TreeInductive, PTL DEF MInv

------------------------------------------------------------------------------
(* The reference status of a set of signals is one a signal of it asserted,    *)
(* or "unknown".                                                               *)
LEMMA StrongestIsAsserted ==
  ASSUME NEW S \in SUBSET Execution, StrongestStatus(S) # "unknown"
  PROVE  \E x \in S : x.status = StrongestStatus(S)
<1>1. \A x \in S : x.status \in {"success", "error", "cancelled", "unknown"}
  BY DEF Execution, Record, Status
<1> QED
  BY <1>1, StrongestSays

(* A merge of a record with a single signal writes down every contradiction    *)
(* the signal brings in, on top of the ones it already names.                  *)
LEMMA MergeNames ==
  ASSUME NEW a \in Execution, NEW b \in Execution, NEW S \in SUBSET Execution,
         Verdict(a, S), KeepsValues(a, S), Contradicted(S) \subseteq a.disagreements
  PROVE  Contradicted(S \cup {b}) \subseteq Merge(a, b).disagreements
<1>1. Merge(a, b).disagreements = a.disagreements \cup Objections(a, b)
  BY DEF Merge
<1>2. ASSUME NEW f \in {"tool", "target"}, f \in Contradicted(S \cup {b})
      PROVE  f \in Merge(a, b).disagreements
  <2>1. PICK u \in Said(S \cup {b}, f), v \in Said(S \cup {b}, f) : u # v
    BY <1>2 DEF Contradicted
  <2>2. Said(S \cup {b}, f) = Said(S, f) \cup ({b[f]} \ {None}) /\ None \notin Said(S, f)
    BY DEF Said
  <2>3. CASE \E x, y \in Said(S, f) : x # y
    BY <1>1, <2>3 DEF Contradicted
  <2>4. CASE ~\E x, y \in Said(S, f) : x # y
    <3>1. PICK w \in Said(S, f) : w # b[f]
      BY <2>1, <2>2, <2>4
    <3>2. b[f] # None
      BY <2>1, <2>2, <2>4
    <3>3. a[f] \in Said(S, f)
      BY <3>1 DEF KeepsValues
    <3>4. a[f] = w /\ a[f] # None
      BY <2>2, <2>4, <3>1, <3>3
    <3> QED
      BY <1>1, <3>1, <3>2, <3>4 DEF Objections
  <2> QED
    BY <2>3, <2>4
<1>3. ASSUME "status" \in Contradicted(S \cup {b})
      PROVE  "status" \in Merge(a, b).disagreements
  <2> DEFINE Clash(U) == \E x, y \in U : /\ x.status # "unknown" /\ y.status # "unknown"
                                         /\ x.status # y.status
  <2>1. Clash(S \cup {b})
    BY <1>3 DEF Contradicted
  <2>2. CASE Clash(S)
    BY <1>1, <2>2 DEF Contradicted
  <2>3. CASE ~Clash(S)
    <3>1. /\ b.status # "unknown"
          /\ \E x \in S : x.status # "unknown" /\ x.status # b.status
      BY <2>1, <2>3
    <3>2. PICK x \in S : x.status # "unknown" /\ x.status # b.status
      BY <3>1
    <3>3. a.status = StrongestStatus(S)
      BY DEF Verdict
    <3>4. a.status # "unknown"
      <4>1. x.status \in {"success", "error", "cancelled"}
        BY <3>2 DEF Execution, Record, Status
      <4> QED
        BY <3>3, <4>1, StrongestSays
    <3>5. PICK y \in S : y.status = a.status
      BY <3>3, <3>4, StrongestIsAsserted
    <3>6. a.status = x.status
      BY <2>3, <3>2, <3>4, <3>5
    <3> QED
      BY <1>1, <3>1, <3>2, <3>4, <3>6 DEF Objections
  <2> QED
    BY <2>2, <2>3
<1>4. Contradicted(S \cup {b}) \subseteq {"tool", "target", "status"}
  BY DEF Contradicted
<1> QED
  BY <1>2, <1>3, <1>4

(* Folding single signals into a record leaves no contradiction between them   *)
(* out of correlation_detail, for any number of signals.                       *)
THEOREM EveryContradictionNamed == Spec => ContradictionNamed
<1>1. ASSUME TypeOK, MInv, [Next]_parts,
             NEW a \in parts, NEW b \in parts, SingleSignal(b),
             Contradicted(Contributors(a)) \subseteq a.disagreements,
             parts' = (parts \ {a, b}) \cup {Merge(a, b)}
      PROVE  \E r \in parts' : /\ r.sigs = a.sigs \cup b.sigs
                              /\ Contradicted(Contributors(r)) \subseteq r.disagreements
  <2>1. /\ a \in Execution /\ b \in Execution
        /\ a.sigs = UNION {x.sigs : x \in Contributors(a)}
        /\ b.sigs = UNION {x.sigs : x \in Contributors(b)}
        /\ Verdict(a, Contributors(a)) /\ KeepsValues(a, Contributors(a))
    BY <1>1 DEF TypeOK, MInv, WellFounded, VerdictIgnoresOrder, MergingKeepsValues
  <2>2. Contributors(b) = {b}
    BY <1>1, ContributorsOfOne DEF SingleSignal
  <2>3. Contributors(Merge(a, b)) = Contributors(a) \cup {b}
    BY <2>1, <2>2, ContributorsOfMerge
  <2>4. Contributors(a) \in SUBSET Execution
    BY MergeTreeAssumption DEF Contributors, MergeTreeAssumption
  <2>5. Contradicted(Contributors(Merge(a, b))) \subseteq Merge(a, b).disagreements
    BY <1>1, <2>1, <2>3, <2>4, MergeNames
  <2>6. Merge(a, b) \in parts' /\ Merge(a, b).sigs = a.sigs \cup b.sigs
    BY <1>1, <2>1, MergeType
  <2> QED
    BY <2>5, <2>6
<1>2. TypeOK /\ MInv /\ [Next]_parts
      => \A a, b \in parts :
           (/\ SingleSignal(b)
            /\ Contradicted(Contributors(a)) \subseteq a.disagreements
            /\ parts' = (parts \ {a, b}) \cup {Merge(a, b)})
           => \E r \in parts' : /\ r.sigs = a.sigs \cup b.sigs
                                /\ Contradicted(Contributors(r)) \subseteq r.disagreements
  BY <1>1
<1> QED
  BY <1>2, TreeInductive, PTL DEF Spec, ContradictionNamed
==============================================================================
