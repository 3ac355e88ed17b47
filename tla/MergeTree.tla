------------------------------ MODULE MergeTree ------------------------------
(***************************************************************************)
(* The partial records of one tool call, merged two by two in any order    *)
(* and grouping.  buffer merges a repeated signal into the entry of its    *)
(* key, mergePendingIntoActive a pending generation into the active one,   *)
(* assembleKey and mergeParent the span, the parent and the logs: which    *)
(* of these meet first depends on the order of arrival and on the sink, so *)
(* a statement about the merged record has to hold for every tree.         *)
(***************************************************************************)
EXTENDS Observation

CONSTANTS
  Input,   \* records normalize can return, each of signals of its own
  MaxParts \* bound: the records of one call

ASSUME MergeTreeAssumption ==
  /\ Input \subseteq Execution
  /\ \A x \in Input : x.sigs # {}
  /\ \A x, y \in Input : x.sigs \cap y.sigs # {} => x = y
  /\ MaxParts \in Nat

VARIABLE parts

TypeOK == parts \subseteq Execution

Init == parts \in {S \in SUBSET Input : Cardinality(S) \in 2 .. MaxParts}

Combine ==
  \E a, b \in parts :
    /\ a # b
    /\ parts' = (parts \ {a, b}) \cup {Merge(a, b)}

Next == Combine

Spec == Init /\ [][Next]_parts

Contributors(r) == {x \in Input : x.sigs \subseteq r.sigs}

(* The verdict of a record depends on the set of signals merged into it and on *)
(* nothing else: the strongest terminal state any of them asserted, the        *)
(* attribution that follows from all their operation ids, the most informative *)
(* availability, every signal kind.  mergeStatus, mergeCorrelation,            *)
(* strongerAvailability and union are called pairwise in an order that depends *)
(* on the exporters, so each must be insensitive to it.                        *)
VerdictIgnoresOrder == \A r \in parts : Verdict(r, Contributors(r))

(* No value a signal carried turns into an absence, and none is made up: each   *)
(* optional field is empty only if every contributor left it empty.            *)
MergingKeepsValues == \A r \in parts : KeepsValues(r, Contributors(r))

(* As long as no record with objections of its own stands on the right of a     *)
(* merge, which here means that only single signals do, every contradiction    *)
(* between contributors is named in disagreements.                             *)
SingleSignal(r) == r \in Input
ContradictionNamed ==
  [][ \A a, b \in parts :
        (/\ SingleSignal(b)
         /\ Contradicted(Contributors(a)) \subseteq a.disagreements
         /\ parts' = (parts \ {a, b}) \cup {Merge(a, b)})
        => \E r \in parts' : /\ r.sigs = a.sigs \cup b.sigs
                             /\ Contradicted(Contributors(r)) \subseteq r.disagreements ]_parts

==============================================================================
