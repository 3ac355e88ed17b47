----------------------------- MODULE Observation -----------------------------
(***************************************************************************)
(* The normalized record of one observed tools/call and the algebra that   *)
(* combines partial records of it: observation.Execution,                  *)
(* observation.ClassifyOperation and the merge family of                   *)
(* internal/bridge/processor.go.                                           *)
(*                                                                         *)
(* An absent value (an empty string, a zero time, a nil map entry) is      *)
(* None.  The wording of correlation_detail and of the disagreement        *)
(* strings is left out: a disagreement is the name of the field that the   *)
(* signals disagreed on.  The field source stands for every provenance     *)
(* text of observation.Source, all merged by the same first-non-empty      *)
(* rule; the transport is a function of seenFrom.  The read-only           *)
(* annotation is left out, as nothing in the repository ever sets it.      *)
(***************************************************************************)
EXTENDS Integers, FiniteSets

CONSTANTS
  Key,    \* JoinKeys (trace id and span id), numbered in the order sort.Strings puts them
  OpId,   \* well-formed Evidra operation ids (operationIDPattern)
  BadId,  \* values found under an operation-id attribute that are not well formed
  Text,   \* tool names, targets, error types, error codes, provenance texts
  SigId,  \* identities of telemetry items, to say which of them a record was merged from
  None    \* absence

Signal       == {"logs", "traces"}
Kind         == {"client", "server", "internal", "producer", "consumer"}
Status       == {"success", "error", "cancelled", "unknown"}
Correlation  == {"correlated", "unattributed", "ambiguous"}
Availability == {"refused_raw", "omitted_oversize", "present", "absent", "not_emitted"}
Field        == {"tool", "target", "status"}

ASSUME ObservationAssumption ==
  /\ Key \subseteq Nat
  /\ OpId \cap BadId = {}
  /\ None \notin Key \cup OpId \cup BadId \cup Text \cup Int /\ None \notin Kind

(* One partial or assembled record.                                           *)
Record ==
  [ key           : Key,
    parent        : Key \cup {None},
    kind          : Kind \cup {None},
    tool          : Text \cup {None},
    target        : Text \cup {None},
    startedAt     : Int \cup {None},
    finishedAt    : Int \cup {None},
    duration      : Int,
    status        : Status,
    errorType     : Text \cup {None},
    errorCode     : Text \cup {None},
    correlation   : Correlation,
    op            : OpId \cup {None},
    args          : Availability,
    result        : Availability,
    source        : Text \cup {None},
    seenFrom      : SUBSET Signal,
    disagreements : SUBSET Field,
    sigs          : SUBSET SigId ]     \* history: the items merged into this record

(* An operation id and the attribution that allows it never drift apart.       *)
Execution == {e \in Record : e.op # None <=> e.correlation = "correlated"}

ASSUME NoneIsNoExecution == None \notin Execution

------------------------------------------------------------------------------
(* ClassifyOperation: the distinct operation ids found decide alone.          *)
ClassifyOperation(found) ==
  CASE found = {}                      -> [correlation |-> "unattributed", op |-> None]
    [] \E id \in OpId : found = {id}   -> [correlation |-> "correlated",
                                           op |-> CHOOSE id \in OpId : found = {id}]
    [] OTHER                           -> [correlation |-> "ambiguous", op |-> None]

(* Mutant: base's value is kept even when it is empty.                         *)
EitherBaseOnly(a, b) == a

(* firstNonEmpty, and every "if out.X is empty take add.X" of merge.           *)
Either(a, b) == IF a # None THEN a ELSE b

(* Mutant: the signal merged last decides.                                     *)
MergeStatusLastWins(a, b) == IF b # "unknown" THEN b ELSE a

MergeStatus(a, b) ==
  LET asserted == {a, b} \ {"unknown"}
  IN  CASE asserted = {}             -> "unknown"
        [] "error" \in asserted      -> "error"
        [] "error" \notin asserted /\ "cancelled" \in asserted -> "cancelled"
        [] OTHER                     -> "success"

(* Mutant: the ids are re-classified, but the first one stays in the record.   *)
MergeCorrelationKeepsId(base, add) ==
  LET ambiguous == "ambiguous" \in {base.correlation, add.correlation}
  IN  [ correlation |-> IF ambiguous THEN "ambiguous"
                        ELSE ClassifyOperation({base.op, add.op} \ {None}).correlation,
        op          |-> Either(base.op, add.op) ]

MergeCorrelation(base, add) ==
  IF "ambiguous" \in {base.correlation, add.correlation}
  THEN [correlation |-> "ambiguous", op |-> None]
  ELSE ClassifyOperation({base.op, add.op} \ {None})

Rank == [ refused_raw |-> 4, omitted_oversize |-> 3, present |-> 2, absent |-> 1,
          not_emitted |-> 0 ]

StrongerAvailability(a, b) == IF Rank[a] >= Rank[b] THEN a ELSE b

(* Mutant: contradicting terminal states are reconciled without a word.        *)
ObjectionsOnNamesOnly(base, add) ==
  {f \in {"tool", "target"} : base[f] # None /\ add[f] # None /\ base[f] # add[f]}

(* The fields both records assert, with different values: what mergeField and *)
(* mergeStatus append to the disagreements.                                   *)
Objections(base, add) ==
  {f \in {"tool", "target"} : base[f] # None /\ add[f] # None /\ base[f] # add[f]}
  \cup {f \in {"status"} : "unknown" \notin {base[f], add[f]} /\ base[f] # add[f]}

MergeDuration(base, add) ==
  LET started  == Either(base.startedAt, add.startedAt)
      finished == Either(base.finishedAt, add.finishedAt)
  IN  CASE base.duration # 0                       -> base.duration
        [] base.duration = 0 /\ add.duration # 0   -> add.duration
        [] base.duration = 0 /\ add.duration = 0 /\ None \notin {started, finished}
                                                   -> finished - started
        [] OTHER                                   -> 0

(* merge(base, add).  The disagreements start from base's alone, as they do   *)
(* in the code: those add already carried are not copied.                     *)
Merge(base, add) ==
  [ key           |-> base.key,
    parent        |-> Either(base.parent, add.parent),
    kind          |-> Either(base.kind, add.kind),
    tool          |-> Either(base.tool, add.tool),
    target        |-> Either(base.target, add.target),
    startedAt     |-> Either(base.startedAt, add.startedAt),
    finishedAt    |-> Either(base.finishedAt, add.finishedAt),
    duration      |-> MergeDuration(base, add),
    status        |-> MergeStatus(base.status, add.status),
    errorType     |-> Either(base.errorType, add.errorType),
    errorCode     |-> Either(base.errorCode, add.errorCode),
    correlation   |-> MergeCorrelation(base, add).correlation,
    op            |-> MergeCorrelation(base, add).op,
    args          |-> StrongerAvailability(base.args, add.args),
    result        |-> StrongerAvailability(base.result, add.result),
    source        |-> Either(base.source, add.source),
    seenFrom      |-> base.seenFrom \cup add.seenFrom,
    disagreements |-> base.disagreements \cup Objections(base, add),
    sigs          |-> base.sigs \cup add.sigs ]

(* A map entry combined with one more record: merge where both exist.         *)
Join(a, b) ==
  CASE a = None            -> b
    [] b = None            -> a
    [] OTHER               -> Merge(a, b)

------------------------------------------------------------------------------
(* The reference a merged record is compared with: what the set S of records  *)
(* merged into it says, computed from the whole set and in no order.          *)
Said(S, f) == {x[f] : x \in S} \ {None}

StrongestStatus(S) ==
  LET asserted == {x.status : x \in S} \ {"unknown"}
  IN  CASE "error" \in asserted     -> "error"
        [] asserted = {"success"}   -> "success"
        [] asserted = {}            -> "unknown"
        [] OTHER                    -> "cancelled"

Attribution(S) ==
  IF \E x \in S : x.correlation = "ambiguous"
  THEN [correlation |-> "ambiguous", op |-> None]
  ELSE ClassifyOperation(Said(S, "op"))

Verdict(r, S) ==
  /\ r.status = StrongestStatus(S)
  /\ [correlation |-> r.correlation, op |-> r.op] = Attribution(S)
  /\ \A f \in {"args", "result"} :
       /\ \E x \in S : r[f] = x[f]
       /\ \A x \in S : Rank[r[f]] >= Rank[x[f]]
  /\ r.seenFrom = UNION {x.seenFrom : x \in S}

KeepsValues(r, S) ==
  \A f \in {"parent", "kind", "tool", "target", "startedAt", "finishedAt",
            "errorType", "errorCode", "source"} :
    IF Said(S, f) = {} THEN r[f] = None ELSE r[f] \in Said(S, f)

(* Every field on which two members of S contradict each other.               *)
Contradicted(S) ==
  {f \in {"tool", "target"} : \E u, v \in Said(S, f) : u # v}
  \cup {f \in {"status"} : \E x, y \in S : "unknown" \notin {x[f], y[f]} /\ x[f] # y[f]}

==============================================================================
