-------------------------------- MODULE Ledger --------------------------------
(***************************************************************************)
(* What the assembler promises the rest of the bridge, without locks,      *)
(* generations or retries: a signal waits until a record of its call is    *)
(* written; the record finalizes one or two keys for good; what waited     *)
(* under them without being in it, and what comes after it, is late.       *)
(* Processor implements this (KeepsLedger), Bridge builds on it.           *)
(***************************************************************************)
EXTENDS Naturals, Sequences

CONSTANTS
  Item,   \* signals with a join key, each offered at most once
  Key,    \* join keys
  KeyOf   \* the key of each item, a function from Item to Key

VARIABLES
  waiting,    \* buffered, not yet in a record
  late,       \* counted and dropped
  records,    \* the records in the sink, as the items they were merged from
  finalized   \* keys that have their record

ledger == <<waiting, late, records, finalized>>

Under(S, K) == {i \in S : KeyOf[i] \in K}
InRecords   == UNION {records[n] : n \in DOMAIN records}
Held        == waiting \cup late \cup InRecords

Init ==
  /\ waiting = {} /\ late = {} /\ finalized = {}
  /\ records = << >>

Offer(i) ==
  /\ i \in Item \ Held
  /\ IF KeyOf[i] \in finalized
     THEN late' = late \cup {i} /\ UNCHANGED waiting
     ELSE waiting' = waiting \cup {i} /\ UNCHANGED late
  /\ UNCHANGED <<records, finalized>>

Record(K, S) ==
  /\ K \cap finalized = {}
  /\ S # {} /\ S \subseteq Under(waiting, K)
  /\ records' = Append(records, S)
  /\ finalized' = finalized \cup K
  /\ waiting' = waiting \ Under(waiting, K)
  /\ late' = late \cup (Under(waiting, K) \ S)

Next ==
  \/ \E i \in Item : Offer(i)
  \/ \E j, k \in Key, S \in SUBSET waiting : Record({j, k}, S)

Spec == Init /\ [][Next]_ledger

==============================================================================
