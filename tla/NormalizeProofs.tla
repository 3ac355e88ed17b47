--------------------------- MODULE NormalizeProofs ---------------------------
(***************************************************************************)
(* What a record says of an exchange follows from the evidence in all the  *)
(* signals it was merged from, for any set of raw records, attributes in   *)
(* any order and number, and any number of signals per exchange.           *)
(***************************************************************************)
EXTENDS Normalize, ObservationProofs, WellFoundedInduction

(* The constants as the proofs use them.                                      *)
LEMMA Constants ==
  /\ None \notin Key /\ None \notin OpId /\ None \notin Text /\ None \notin Int /\ None \notin Kind
  /\ Half \in Nat
  /\ KeyAt \in [TraceId \X SpanId -> Key]
  /\ DOMAIN ClassOf \subseteq Text /\ ClassOf \in [DOMAIN ClassOf -> Text]
  /\ ParsedMS \in [DOMAIN ParsedMS -> SUBSET Int]
  /\ ToolsCall # None
  /\ SpanError \in Text /\ Other \in Text /\ Cancelling \subseteq Text \ {Other}
  /\ \A raw \in Raw : WellFormed(raw)
BY ObservationAssumption, NormalizeAssumption DEF ObservationAssumption, NormalizeAssumption

(* A set of positions in a list has a last one.                               *)
LEMMA LastPosition ==
  ASSUME NEW n \in Nat, NEW S \in SUBSET (1 .. n), S # {}
  PROVE  Max(S) \in S
<1> DEFINE Below   == {ss \in Nat \X Nat : ss[1] < ss[2]}
           FromEnd == {n - i : i \in S}
<1>1. IsWellFoundedOn(Below, Nat)
  BY NatLessThanWellFounded DEF OpToRel
<1>2. FromEnd \subseteq Nat /\ FromEnd # {}
  <2>1. \A i \in S : n - i \in Nat
    OBVIOUS
  <2> QED
    BY <2>1
<1>3. PICK x \in FromEnd : \A y \in FromEnd : ~ (<<y, x>> \in Below)
  <2> HIDE DEF Below, FromEnd
  <2> QED
    BY <1>1, <1>2, WFMin
<1>4. \A y \in FromEnd : x <= y
  <2> TAKE y \in FromEnd
  <2>1. x \in Nat /\ y \in Nat
    BY <1>2
  <2>2. ~ (y < x)
    BY <1>3, <2>1
  <2> QED
    BY <2>1, <2>2
<1>5. PICK i \in S : x = n - i
  OBVIOUS
<1>6. \A j \in S : i >= j
  <2> TAKE j \in S
  <2>1. n - i <= n - j
    BY <1>4, <1>5
  <2>2. i \in 1 .. n /\ j \in 1 .. n
    OBVIOUS
  <2> HIDE DEF FromEnd
  <2> QED
    BY <2>1, <2>2
<1> QED
  BY <1>6 DEF Max

(* What counts of several attributes of one name is one of their values.       *)
LEMMA AttributeIsHeld ==
  ASSUME NEW raw \in Raw, NEW name, At(AttributeMap(raw.attrs), name) # None
  PROVE  \E i \in DOMAIN raw.attrs : /\ raw.attrs[i].name = name
                                     /\ raw.attrs[i].value \notin {Nil, Composite}
                                     /\ At(AttributeMap(raw.attrs), name) = raw.attrs[i].value
<1> PICK list : list = raw.attrs
  OBVIOUS
<1> DEFINE last == {i \in DOMAIN list : list[i].name = name /\ list[i].value # Nil}
<1>1. /\ name \in {list[i].name : i \in DOMAIN list}
      /\ At(AttributeMap(list), name)
           = IF last = {} \/ list[Max(last)].value = Composite THEN None ELSE list[Max(last)].value
  BY DEF At, AttributeMap
<1>2. list \in Seq(Range(list))
  BY Constants DEF WellFormed
<1>3. Len(list) \in Nat /\ DOMAIN list = 1 .. Len(list)
  BY <1>2
<1>4. last # {} /\ list[Max(last)].value # Composite
  BY <1>1
<1>5. last \in SUBSET (1 .. Len(list))
  BY <1>3
<1>6. Max(last) \in last
  <2> HIDE DEF last
  <2> QED
    BY <1>3, <1>4, <1>5, LastPosition
<1> QED
  BY <1>1, <1>4, <1>6

(* So it is of the kind that the name may hold.                               *)
LEMMA AttributeType ==
  ASSUME NEW raw \in Raw, NEW h \in DOMAIN HeldUnder, NEW name \in HeldUnder[h][1]
  PROVE  At(AttributeMap(raw.attrs), name) \in HeldUnder[h][2] \cup {None}
<1> SUFFICES ASSUME At(AttributeMap(raw.attrs), name) # None
             PROVE  At(AttributeMap(raw.attrs), name) \in HeldUnder[h][2]
  OBVIOUS
<1>1. PICK i \in DOMAIN raw.attrs : /\ raw.attrs[i].name = name
                                    /\ raw.attrs[i].value \notin {Nil, Composite}
                                    /\ At(AttributeMap(raw.attrs), name) = raw.attrs[i].value
  BY AttributeIsHeld
<1>2. raw.attrs[i].value \in HeldUnder[h][2] \cup {Nil, Composite}
  BY <1>1, Constants DEF WellFormed
<1> QED
  BY <1>1, <1>2

(* What the attributes of a record are, name by name.                         *)
TextName == {"gen_ai.tool.name", "mcp.tool.name", "mcp.resource.name", "mcp.session.id", "mcp.session_id",
             "mcp.target", "error.type"}

LEMMA AttributeTypes ==
  ASSUME NEW raw \in Raw
  PROVE  LET attrs == AttributeMap(raw.attrs)
         IN  /\ \A name \in TextName : At(attrs, name) \in Text \cup {None}
             /\ \A name \in {"rpc.response.status_code", "mcp.error.code"} :
                  At(attrs, name) \in DOMAIN ClassOf \cup {None}
             /\ \A name \in OperationIDKeys : At(attrs, name) \in (SUBSET (OpId \cup BadId)) \cup {None}
             /\ At(attrs, "trace.id") \in TraceId \cup {None}
             /\ At(attrs, "span.id") \in SpanId \cup {None}
             /\ \A name \in {"duration", "duration_ms"} : At(attrs, name) \in DOMAIN ParsedMS \cup {None}
<1>1. /\ DOMAIN HeldUnder = 1 .. 6
      /\ TextName \subseteq HeldUnder[1][1] /\ HeldUnder[1][2] = Text
      /\ {"rpc.response.status_code", "mcp.error.code"} \subseteq HeldUnder[2][1]
      /\ HeldUnder[2][2] = DOMAIN ClassOf
      /\ HeldUnder[3] = <<OperationIDKeys, SUBSET (OpId \cup BadId)>>
      /\ HeldUnder[4] = <<{"trace.id"}, TraceId>>
      /\ HeldUnder[5] = <<{"span.id"}, SpanId>>
      /\ HeldUnder[6] = <<{"duration", "duration_ms"}, DOMAIN ParsedMS>>
  <2>1. /\ {SemconvOf["tool"][i] : i \in DOMAIN SemconvOf["tool"]}
             = {"gen_ai.tool.name", "mcp.tool.name", "mcp.resource.name"}
        /\ {SemconvOf["session"][i] : i \in DOMAIN SemconvOf["session"]}
             = {"mcp.session.id", "mcp.session_id"}
        /\ {SemconvOf["code"][i] : i \in DOMAIN SemconvOf["code"]}
             = {"rpc.response.status_code", "mcp.error.code"}
    BY DEF SemconvOf
  <2> QED
    BY <2>1 DEF HeldUnder, TextName
<1>2. \A h \in 1 .. 6 : \A name \in HeldUnder[h][1] :
        At(AttributeMap(raw.attrs), name) \in HeldUnder[h][2] \cup {None}
  BY <1>1, AttributeType
<1>3. \A name \in TextName : At(AttributeMap(raw.attrs), name) \in Text \cup {None}
  BY <1>1, <1>2
<1>4. \A name \in {"rpc.response.status_code", "mcp.error.code"} :
        At(AttributeMap(raw.attrs), name) \in DOMAIN ClassOf \cup {None}
  BY <1>1, <1>2
<1>5. \A name \in OperationIDKeys : At(AttributeMap(raw.attrs), name) \in (SUBSET (OpId \cup BadId)) \cup {None}
  <2> PICK idSets : idSets = SUBSET (OpId \cup BadId)
    OBVIOUS
  <2>1. HeldUnder[3][1] = OperationIDKeys /\ HeldUnder[3][2] = idSets
    BY <1>1
  <2>2. \A name \in OperationIDKeys : At(AttributeMap(raw.attrs), name) \in idSets \cup {None}
    BY <1>2, <2>1
  <2> QED
    BY <2>2
<1>6. /\ At(AttributeMap(raw.attrs), "trace.id") \in TraceId \cup {None}
      /\ At(AttributeMap(raw.attrs), "span.id") \in SpanId \cup {None}
  <2>1. "trace.id" \in HeldUnder[4][1] /\ HeldUnder[4][2] = TraceId
    BY <1>1
  <2>2. "span.id" \in HeldUnder[5][1] /\ HeldUnder[5][2] = SpanId
    BY <1>1
  <2> QED
    BY <1>2, <2>1, <2>2
<1>7. \A name \in {"duration", "duration_ms"} : At(AttributeMap(raw.attrs), name) \in DOMAIN ParsedMS \cup {None}
  <2>1. HeldUnder[6][1] = {"duration", "duration_ms"} /\ HeldUnder[6][2] = DOMAIN ParsedMS
    BY <1>1
  <2> QED
    BY <1>2, <2>1
<1> QED
  BY <1>3, <1>4, <1>5, <1>6, <1>7


(* attr finds a value if any spelling of the attribute has one, and no other;   *)
(* of two spellings of the method the canonical one counts.                    *)
LEMMA AttrSpellings ==
  ASSUME NEW attrs
  PROVE  /\ Attr(attrs, "tool") # None
              <=> \E name \in {"gen_ai.tool.name", "mcp.tool.name", "mcp.resource.name"} : At(attrs, name) # None
         /\ Attr(attrs, "tool") # None
              => \E name \in {"gen_ai.tool.name", "mcp.tool.name", "mcp.resource.name"} :
                   Attr(attrs, "tool") = At(attrs, name)
         /\ Attr(attrs, "code") # None
              <=> \E name \in {"rpc.response.status_code", "mcp.error.code"} : At(attrs, name) # None
         /\ Attr(attrs, "code") # None
              => \E name \in {"rpc.response.status_code", "mcp.error.code"} :
                   Attr(attrs, "code") = At(attrs, name)
         /\ Attr(attrs, "session") # None
              => \E name \in {"mcp.session.id", "mcp.session_id"} : Attr(attrs, "session") = At(attrs, name)
         /\ Attr(attrs, "method") = IF At(attrs, "mcp.method.name") # None
                                    THEN At(attrs, "mcp.method.name") ELSE At(attrs, "mcp.method")
<1>1. ASSUME NEW n \in {2, 3}, NEW spelling, DOMAIN spelling = 1 .. n,
             NEW set, set = {i \in DOMAIN spelling : At(attrs, spelling[i]) # None}, set # {}
      PROVE  Min(set) \in set /\ (1 \in set => Min(set) = 1)
  <2>1. set \subseteq {1, 2, 3}
    BY <1>1
  <2>2. \E x \in set : \A y \in set : x =< y
    <3>1. CASE 1 \in set
      BY <2>1, <3>1
    <3>2. CASE 1 \notin set /\ 2 \in set
      BY <2>1, <3>2
    <3>3. CASE 1 \notin set /\ 2 \notin set
      BY <1>1, <2>1, <3>3
    <3> QED
      BY <3>1, <3>2, <3>3
  <2>3. Min(set) \in set /\ \A y \in set : Min(set) =< y
    BY <2>2 DEF Min
  <2>4. Min(set) \in {1, 2, 3} /\ (1 \in set => Min(set) =< 1)
    BY <2>1, <2>3
  <2>5. \A m \in {1, 2, 3} : m =< 1 => m = 1
    OBVIOUS
  <2> QED
    BY <2>3, <2>4, <2>5
<1>2. ASSUME NEW meaning, NEW n \in {2, 3}, DOMAIN SemconvOf[meaning] = 1 .. n
      PROVE  /\ Attr(attrs, meaning) # None
                  <=> \E i \in 1 .. n : At(attrs, SemconvOf[meaning][i]) # None
             /\ Attr(attrs, meaning) # None
                  => \E i \in 1 .. n : Attr(attrs, meaning) = At(attrs, SemconvOf[meaning][i])
             /\ At(attrs, SemconvOf[meaning][1]) # None
                  => Attr(attrs, meaning) = At(attrs, SemconvOf[meaning][1])
  <2> PICK set : set = {i \in DOMAIN SemconvOf[meaning] : At(attrs, SemconvOf[meaning][i]) # None}
    OBVIOUS
  <2>1. Attr(attrs, meaning) = IF set = {} THEN None ELSE At(attrs, SemconvOf[meaning][Min(set)])
    BY DEF Attr
  <2>2. CASE set = {}
    BY <1>2, <2>1, <2>2
  <2>3. CASE set # {}
    <3>1. Min(set) \in set /\ (1 \in set => Min(set) = 1)
      BY <1>1, <1>2, <2>3
    <3>2. 1 \in 1 .. n
      OBVIOUS
    <3> QED
      BY <1>2, <2>1, <2>3, <3>1, <3>2
  <2> QED
    BY <2>2, <2>3
<1>3. /\ DOMAIN SemconvOf["tool"] = 1 .. 3 /\ DOMAIN SemconvOf["method"] = 1 .. 2
      /\ DOMAIN SemconvOf["code"] = 1 .. 2 /\ DOMAIN SemconvOf["session"] = 1 .. 2
  BY DEF SemconvOf
<1>4. /\ SemconvOf["tool"][1] = "gen_ai.tool.name" /\ SemconvOf["tool"][2] = "mcp.tool.name"
      /\ SemconvOf["tool"][3] = "mcp.resource.name"
      /\ SemconvOf["method"][1] = "mcp.method.name" /\ SemconvOf["method"][2] = "mcp.method"
      /\ SemconvOf["code"][1] = "rpc.response.status_code" /\ SemconvOf["code"][2] = "mcp.error.code"
      /\ SemconvOf["session"][1] = "mcp.session.id" /\ SemconvOf["session"][2] = "mcp.session_id"
  BY DEF SemconvOf
<1>5. /\ Attr(attrs, "tool") # None
           <=> \E name \in {"gen_ai.tool.name", "mcp.tool.name", "mcp.resource.name"} : At(attrs, name) # None
      /\ Attr(attrs, "tool") # None
           => \E name \in {"gen_ai.tool.name", "mcp.tool.name", "mcp.resource.name"} :
                Attr(attrs, "tool") = At(attrs, name)
  <2>1. /\ Attr(attrs, "tool") # None <=> \E i \in 1 .. 3 : At(attrs, SemconvOf["tool"][i]) # None
        /\ Attr(attrs, "tool") # None => \E i \in 1 .. 3 : Attr(attrs, "tool") = At(attrs, SemconvOf["tool"][i])
    BY <1>2, <1>3
  <2>2. 1 .. 3 = {1, 2, 3}
    OBVIOUS
  <2> QED
    BY <1>4, <2>1, <2>2
<1>6. /\ Attr(attrs, "code") # None
           <=> \E name \in {"rpc.response.status_code", "mcp.error.code"} : At(attrs, name) # None
      /\ Attr(attrs, "code") # None
           => \E name \in {"rpc.response.status_code", "mcp.error.code"} : Attr(attrs, "code") = At(attrs, name)
  <2>1. /\ Attr(attrs, "code") # None <=> \E i \in 1 .. 2 : At(attrs, SemconvOf["code"][i]) # None
        /\ Attr(attrs, "code") # None => \E i \in 1 .. 2 : Attr(attrs, "code") = At(attrs, SemconvOf["code"][i])
    BY <1>2, <1>3
  <2>2. 1 .. 2 = {1, 2}
    OBVIOUS
  <2> QED
    BY <1>4, <2>1, <2>2
<1>7. Attr(attrs, "session") # None
        => \E name \in {"mcp.session.id", "mcp.session_id"} : Attr(attrs, "session") = At(attrs, name)
  <2>1. Attr(attrs, "session") # None
          => \E i \in 1 .. 2 : Attr(attrs, "session") = At(attrs, SemconvOf["session"][i])
    BY <1>2, <1>3
  <2>2. 1 .. 2 = {1, 2}
    OBVIOUS
  <2> QED
    BY <1>4, <2>1, <2>2
<1>8. Attr(attrs, "method") = IF At(attrs, "mcp.method.name") # None
                              THEN At(attrs, "mcp.method.name") ELSE At(attrs, "mcp.method")
  <2>1. /\ Attr(attrs, "method") # None <=> \E i \in 1 .. 2 : At(attrs, SemconvOf["method"][i]) # None
        /\ Attr(attrs, "method") # None
             => \E i \in 1 .. 2 : Attr(attrs, "method") = At(attrs, SemconvOf["method"][i])
        /\ At(attrs, SemconvOf["method"][1]) # None
             => Attr(attrs, "method") = At(attrs, SemconvOf["method"][1])
    BY <1>2, <1>3
  <2>2. 1 .. 2 = {1, 2}
    OBVIOUS
  <2> QED
    BY <1>4, <2>1, <2>2
<1> QED
  BY <1>5, <1>6, <1>7, <1>8

(* statusFrom, read off the evidence: a failure that is no cancellation is an    *)
(* error, success needs proof of completion, and only failures have a class.    *)
LEMMA StatusOfSignal ==
  ASSUME NEW attrs, NEW spanCode, NEW completed \in BOOLEAN,
         At(attrs, "error.type") \in Text \cup {None},
         Attr(attrs, "code") \in DOMAIN ClassOf \cup {None},
         NEW s, s = StatusFrom(attrs, spanCode, completed)
  PROVE  LET cancelled == At(attrs, "error.type") \in Cancelling
             failed    == At(attrs, "error.type") # None \/ Attr(attrs, "code") # None \/ spanCode = "ERROR"
         IN  /\ failed /\ ~cancelled => s.status = "error"
             /\ failed /\ cancelled => s.status = "cancelled"
             /\ ~failed /\ (completed \/ spanCode = "OK") => s.status = "success"
             /\ ~failed /\ ~(completed \/ spanCode = "OK") => s.status = "unknown"
             /\ s.type # None <=> s.status \in {"error", "cancelled"}
             /\ s.code # None => s.status \in {"error", "cancelled"}
             /\ s.type \in Text \cup {None} /\ s.code \in Text \cup {None}
<1> PICK type : type = At(attrs, "error.type")
  OBVIOUS
<1> PICK code : code = Attr(attrs, "code")
  OBVIOUS
<1>0. /\ type \in Text \cup {None} /\ code \in DOMAIN ClassOf \cup {None}
      /\ None \notin Text /\ Cancelling \subseteq Text \ {Other} /\ Other \in Text /\ SpanError \in Text
      /\ DOMAIN ClassOf \subseteq Text /\ (code # None => ClassOf[code] \in Text)
  BY Constants
<1>1. CASE type \in Cancelling
  <2>1. s = [status |-> "cancelled", type |-> type, code |-> code]
    BY <1>0, <1>1 DEF StatusFrom
  <2> QED
    BY <1>0, <1>1, <2>1
<1>2. CASE type \notin Cancelling \cup {None, Other}
  <2>1. s = [status |-> "error", type |-> type, code |-> code]
    BY <1>0, <1>2 DEF StatusFrom
  <2> QED
    BY <1>0, <1>2, <2>1
<1>3. CASE type \in {None, Other} /\ code # None
  <2>1. PICK t : t = IF code \in CallerFault THEN ClassOf[code] ELSE Either(type, ClassOf[code])
    OBVIOUS
  <2>2. t \in Text
    BY <1>0, <1>3, <2>1 DEF Either
  <2>3. s = [status |-> "error", type |-> t, code |-> code]
    BY <1>0, <1>3, <2>1 DEF StatusFrom
  <2> QED
    BY <1>0, <1>3, <2>2, <2>3
<1>4. CASE type \in {None, Other} /\ code = None
  <2>1. CASE spanCode = "ERROR"
    <3>1. PICK t : t = Either(type, SpanError)
      OBVIOUS
    <3>2. t \in Text
      BY <1>0, <1>4, <3>1 DEF Either
    <3>3. s = [status |-> "error", type |-> t, code |-> code]
      BY <1>0, <1>4, <2>1, <3>1 DEF StatusFrom
    <3> QED
      BY <1>0, <1>4, <2>1, <3>2, <3>3
  <2>2. CASE spanCode # "ERROR" /\ type = Other
    <3>1. s = [status |-> "error", type |-> Other, code |-> code]
      BY <1>0, <1>4, <2>2 DEF StatusFrom
    <3> QED
      BY <1>0, <1>4, <2>2, <3>1
  <2>3. CASE spanCode # "ERROR" /\ type = None
    <3>1. s = [status |-> IF completed \/ spanCode = "OK" THEN "success" ELSE "unknown",
               type |-> None, code |-> code]
      BY <1>0, <1>4, <2>3 DEF StatusFrom
    <3> QED
      BY <1>0, <1>4, <2>3, <3>1
  <2> QED
    BY <1>4, <2>1, <2>2, <2>3
<1> QED
  BY <1>0, <1>1, <1>2, <1>3, <1>4


(* A normalized execution, field by field.                                     *)
Made(key, parent, kind, tool, target, startedAt, finishedAt, duration, s, class, args, result, source, raw) ==
  [ key |-> key, parent |-> parent, kind |-> kind, tool |-> tool, target |-> target,
    startedAt |-> startedAt, finishedAt |-> finishedAt, duration |-> duration,
    status |-> s.status, errorType |-> s.type, errorCode |-> s.code,
    correlation |-> class.correlation, op |-> class.op, args |-> args, result |-> result,
    source |-> source, seenFrom |-> {raw.signal}, disagreements |-> {}, sigs |-> {raw.id} ]

LEMMA GradedIsMade ==
  ASSUME NEW key, NEW parent, NEW kind, NEW tool, NEW target, NEW startedAt, NEW finishedAt, NEW duration,
         NEW s, NEW t, NEW class, NEW args, NEW result, NEW source, NEW raw, NEW c, NEW g,
         c = Made(key, parent, kind, tool, target, startedAt, finishedAt, duration, s, class, args, result, source, raw),
         g = Graded(c, t)
  PROVE  g = Made(key, parent, kind, tool, target, startedAt, finishedAt, duration, t, class, args, result, source, raw)
<1> DEFINE Like(u) ==
      [ key : {key}, parent : {parent}, kind : {kind}, tool : {tool}, target : {target},
        startedAt : {startedAt}, finishedAt : {finishedAt}, duration : {duration},
        status : {u.status}, errorType : {u.type}, errorCode : {u.code},
        correlation : {class.correlation}, op : {class.op}, args : {args}, result : {result},
        source : {source}, seenFrom : {{raw.signal}}, disagreements : {{}}, sigs : {{raw.id}} ]
<1>1. c \in Like(s)
  BY DEF Made
<1>2. g = [c EXCEPT !.status = t.status, !.errorType = t.type, !.errorCode = t.code]
  BY DEF Graded
<1>3. g \in Like(t)
  BY <1>1, <1>2, ZenonT(60)
<1> QED
  BY <1>3 DEF Made

LEMMA LoggedIsMade ==
  ASSUME NEW key, NEW tool, NEW target, NEW startedAt, NEW s, NEW class, NEW args, NEW result, NEW source,
         NEW raw, NEW g,
         g = Made(key, None, None, tool, target, startedAt, None, 0, s, class, args, result, source, raw),
         NEW d, NEW e, e = [g EXCEPT !.duration = d]
  PROVE  e = Made(key, None, None, tool, target, startedAt, None, d, s, class, args, result, source, raw)
<1> DEFINE Like(pp, kk, ff, dd) ==
      [ key : {key}, parent : {pp}, kind : {kk}, tool : {tool}, target : {target},
        startedAt : {startedAt}, finishedAt : {ff}, duration : {dd},
        status : {s.status}, errorType : {s.type}, errorCode : {s.code},
        correlation : {class.correlation}, op : {class.op}, args : {args}, result : {result},
        source : {source}, seenFrom : {{raw.signal}}, disagreements : {{}}, sigs : {{raw.id}} ]
<1>1. g \in Like(None, None, None, 0)
  BY DEF Made
<1>2. e \in Like(None, None, None, d)
  BY <1>1
<1> QED
  BY <1>2 DEF Made

Spanned(g, p, k, f, d) == [g EXCEPT !.parent = p, !.kind = k, !.finishedAt = f, !.duration = d]

LEMMA SpannedIsMade ==
  ASSUME NEW key, NEW tool, NEW target, NEW startedAt, NEW s, NEW class, NEW args, NEW result, NEW source,
         NEW raw, NEW g,
         g = Made(key, None, None, tool, target, startedAt, None, 0, s, class, args, result, source, raw),
         NEW p, NEW k, NEW f, NEW d, NEW e, e = Spanned(g, p, k, f, d)
  PROVE  e = Made(key, p, k, tool, target, startedAt, f, d, s, class, args, result, source, raw)
<1> DEFINE Like(pp, kk, ff, dd) ==
      [ key : {key}, parent : {pp}, kind : {kk}, tool : {tool}, target : {target},
        startedAt : {startedAt}, finishedAt : {ff}, duration : {dd},
        status : {s.status}, errorType : {s.type}, errorCode : {s.code},
        correlation : {class.correlation}, op : {class.op}, args : {args}, result : {result},
        source : {source}, seenFrom : {{raw.signal}}, disagreements : {{}}, sigs : {{raw.id}} ]
<1>1. g \in Like(None, None, None, 0)
  BY DEF Made
<1>2. e \in Like(p, k, f, d)
  BY <1>1 DEF Spanned
<1> QED
  BY <1>2 DEF Made

LEMMA MadeOfLog ==
  ASSUME NEW raw, raw.signal = "logs", NEW attrs, attrs = AttributeMap(raw.attrs), NEW ex \in FromLogRecord(raw)
  PROVE  \E d \in DurationMS(attrs) :
           ex = Made(JoinKey(Either(raw.trace, At(attrs, "trace.id")), Either(raw.span, At(attrs, "span.id"))),
                     None, None, Attr(attrs, "tool"), At(attrs, "mcp.target"), Timestamp(raw.start), None, d,
                     StatusFrom(attrs, "UNSET", LogCompleted(attrs)), ClassifyOperation(OperationID(attrs)),
                     PayloadAvailability(attrs, "gen_ai.tool.call.arguments"),
                     PayloadAvailability(attrs, "gen_ai.tool.call.result"), Attr(attrs, "session"), raw)
<1> PICK s : s = StatusFrom(attrs, "UNSET", LogCompleted(attrs))
  OBVIOUS
<1> PICK g : g = Graded(Common(raw, attrs), s)
  OBVIOUS
<1>1. PICK d \in DurationMS(attrs) : ex = [g EXCEPT !.duration = d]
  BY DEF FromLogRecord
<1>2. Common(raw, attrs) =
        Made(JoinKey(Either(raw.trace, At(attrs, "trace.id")), Either(raw.span, At(attrs, "span.id"))),
             None, None, Attr(attrs, "tool"), At(attrs, "mcp.target"), Timestamp(raw.start), None, 0,
             [status |-> "unknown", type |-> None, code |-> None], ClassifyOperation(OperationID(attrs)),
             PayloadAvailability(attrs, "gen_ai.tool.call.arguments"),
             PayloadAvailability(attrs, "gen_ai.tool.call.result"), Attr(attrs, "session"), raw)
  BY DEF Common, Made
<1>3. g = Made(JoinKey(Either(raw.trace, At(attrs, "trace.id")), Either(raw.span, At(attrs, "span.id"))),
               None, None, Attr(attrs, "tool"), At(attrs, "mcp.target"), Timestamp(raw.start), None, 0,
               s, ClassifyOperation(OperationID(attrs)),
               PayloadAvailability(attrs, "gen_ai.tool.call.arguments"),
               PayloadAvailability(attrs, "gen_ai.tool.call.result"), Attr(attrs, "session"), raw)
  BY <1>2, GradedIsMade
<1>4. ex = Made(JoinKey(Either(raw.trace, At(attrs, "trace.id")), Either(raw.span, At(attrs, "span.id"))),
                None, None, Attr(attrs, "tool"), At(attrs, "mcp.target"), Timestamp(raw.start), None, d,
                StatusFrom(attrs, "UNSET", LogCompleted(attrs)), ClassifyOperation(OperationID(attrs)),
                PayloadAvailability(attrs, "gen_ai.tool.call.arguments"),
                PayloadAvailability(attrs, "gen_ai.tool.call.result"), Attr(attrs, "session"), raw)
  BY <1>1, <1>3, LoggedIsMade
<1> QED
  BY <1>4

LEMMA MadeOfSpan ==
  ASSUME NEW raw, NEW attrs, attrs = AttributeMap(raw.attrs), NEW ex \in FromSpan(raw)
  PROVE  ex = Made(JoinKey(Either(raw.trace, At(attrs, "trace.id")), Either(raw.span, At(attrs, "span.id"))),
                   IF raw.parent = None THEN None ELSE JoinKey(Either(raw.trace, At(attrs, "trace.id")), raw.parent),
                   raw.kind, Attr(attrs, "tool"), At(attrs, "mcp.target"), Timestamp(raw.start), Timestamp(raw.end),
                   IF None \in {Timestamp(raw.start), Timestamp(raw.end)} THEN 0
                   ELSE Timestamp(raw.end) - Timestamp(raw.start),
                   StatusFrom(attrs, raw.code, Timestamp(raw.end) # None), ClassifyOperation(OperationID(attrs)),
                   PayloadAvailability(attrs, "gen_ai.tool.call.arguments"),
                   PayloadAvailability(attrs, "gen_ai.tool.call.result"), Attr(attrs, "session"), raw)
<1> PICK s : s = StatusFrom(attrs, raw.code, Timestamp(raw.end) # None)
  OBVIOUS
<1> PICK g : g = Graded(Common(raw, attrs), s)
  OBVIOUS
<1> PICK p : p = IF raw.parent = None THEN None ELSE JoinKey(Either(raw.trace, At(attrs, "trace.id")), raw.parent)
  OBVIOUS
<1> PICK d : d = IF None \in {Timestamp(raw.start), Timestamp(raw.end)} THEN 0
                 ELSE Timestamp(raw.end) - Timestamp(raw.start)
  OBVIOUS
<1> PICK k : k = raw.kind
  OBVIOUS
<1> PICK f : f = Timestamp(raw.end)
  OBVIOUS
<1>1. ex = Spanned(g, p, k, f, d)
  <2>1. Common(raw, attrs).startedAt = Timestamp(raw.start)
    BY DEF Common
  <2> QED
    BY <2>1 DEF FromSpan, Spanned
<1>2. Common(raw, attrs) =
        Made(JoinKey(Either(raw.trace, At(attrs, "trace.id")), Either(raw.span, At(attrs, "span.id"))),
             None, None, Attr(attrs, "tool"), At(attrs, "mcp.target"), Timestamp(raw.start), None, 0,
             [status |-> "unknown", type |-> None, code |-> None], ClassifyOperation(OperationID(attrs)),
             PayloadAvailability(attrs, "gen_ai.tool.call.arguments"),
             PayloadAvailability(attrs, "gen_ai.tool.call.result"), Attr(attrs, "session"), raw)
  BY DEF Common, Made
<1>3. g = Made(JoinKey(Either(raw.trace, At(attrs, "trace.id")), Either(raw.span, At(attrs, "span.id"))),
               None, None, Attr(attrs, "tool"), At(attrs, "mcp.target"), Timestamp(raw.start), None, 0,
               s, ClassifyOperation(OperationID(attrs)),
               PayloadAvailability(attrs, "gen_ai.tool.call.arguments"),
               PayloadAvailability(attrs, "gen_ai.tool.call.result"), Attr(attrs, "session"), raw)
  BY <1>2, GradedIsMade
<1>4. ex = Made(JoinKey(Either(raw.trace, At(attrs, "trace.id")), Either(raw.span, At(attrs, "span.id"))),
                p, k, Attr(attrs, "tool"), At(attrs, "mcp.target"), Timestamp(raw.start), f, d, s, ClassifyOperation(OperationID(attrs)),
                PayloadAvailability(attrs, "gen_ai.tool.call.arguments"),
                PayloadAvailability(attrs, "gen_ai.tool.call.result"), Attr(attrs, "session"), raw)
  BY <1>1, <1>3, SpannedIsMade
<1> QED
  BY <1>4

(* A zero time is absent; every other one is an instant.                       *)
LEMMA TimestampType ==
  ASSUME NEW nanos \in 0 .. 2 * Half - 1
  PROVE  Timestamp(nanos) \in Int \cup {None} /\ (Timestamp(nanos) # None <=> nanos # 0)
<1>0. None \notin Int /\ Half \in Nat
  BY Constants
<1>1. CASE nanos = 0
  BY <1>0, <1>1 DEF Timestamp
<1>2. CASE nanos \in 1 .. Half - 1
  <2>1. Timestamp(nanos) = nanos
    BY <1>0, <1>2 DEF Timestamp
  <2> QED
    BY <1>0, <1>2, <2>1
<1>3. CASE nanos # 0 /\ nanos \notin 1 .. Half - 1
  <2>1. nanos >= Half /\ nanos \in Int
    BY <1>0, <1>3
  <2>2. Timestamp(nanos) = nanos - 2 * Half
    BY <1>0, <1>3, <2>1 DEF Timestamp
  <2>3. nanos - 2 * Half \in Int
    BY <1>0, <2>1
  <2> QED
    BY <1>0, <1>3, <2>2, <2>3
<1> QED
  BY <1>1, <1>2, <1>3

(* ClassifyOperation, of ids that may be malformed too.                        *)
LEMMA ClassifyAny ==
  ASSUME NEW found
  PROVE  /\ ClassifyOperation(found) \in [correlation : Correlation, op : OpId \cup {None}]
         /\ ClassifyOperation(found).op # None <=> ClassifyOperation(found).correlation = "correlated"
         /\ ClassifyOperation(found).op # None => found = {ClassifyOperation(found).op}
         /\ ClassifyOperation(found).correlation =
              CASE found = {}                      -> "unattributed"
                [] \E id \in OpId : found = {id}   -> "correlated"
                [] OTHER                           -> "ambiguous"
<1>0. None \notin OpId
  BY Constants
<1>1. CASE found = {}
  <2>1. ClassifyOperation(found) = [correlation |-> "unattributed", op |-> None]
    BY <1>1 DEF ClassifyOperation
  <2> QED
    BY <1>1, <2>1 DEF Correlation
<1>2. CASE \E id \in OpId : found = {id}
  <2>1. PICK id \in OpId : found = {id}
    BY <1>2
  <2>2. (CHOOSE o \in OpId : found = {o}) = id
    BY <2>1
  <2>3. ClassifyOperation(found) = [correlation |-> "correlated", op |-> id]
    BY <2>1, <2>2 DEF ClassifyOperation
  <2> QED
    BY <1>0, <2>1, <2>3 DEF Correlation
<1>3. CASE found # {} /\ ~\E id \in OpId : found = {id}
  <2>1. ClassifyOperation(found) = [correlation |-> "ambiguous", op |-> None]
    BY <1>3 DEF ClassifyOperation
  <2> QED
    BY <1>3, <2>1 DEF Correlation
<1> QED
  BY <1>1, <1>2, <1>3

(* JoinKey is absent exactly when one of the two ids is.                       *)
LEMMA JoinKeyType ==
  ASSUME NEW trace \in TraceId \cup {None}, NEW span \in SpanId \cup {None}
  PROVE  JoinKey(trace, span) \in Key \cup {None} /\ (JoinKey(trace, span) # None <=> None \notin {trace, span})
<1>1. CASE None \in {trace, span}
  BY <1>1 DEF JoinKey
<1>2. CASE None \notin {trace, span}
  <2>1. <<trace, span>> \in TraceId \X SpanId /\ JoinKey(trace, span) = KeyAt[<<trace, span>>]
    BY <1>2 DEF JoinKey
  <2>2. KeyAt[<<trace, span>>] \in Key
    BY <2>1, Constants
  <2> QED
    BY <1>2, <2>1, <2>2, Constants
<1> QED
  BY <1>1, <1>2

(* A duration always has a value, if only zero.                               *)
LEMMA DurationType ==
  ASSUME NEW raw \in Raw, NEW attrs, attrs = AttributeMap(raw.attrs)
  PROVE  DurationMS(attrs) \subseteq Int /\ DurationMS(attrs) # {}
<1> DEFINE ms(name) == IF At(attrs, name) = None THEN {} ELSE ParsedMS[attrs[name]]
<1>1. ASSUME NEW name \in {"duration", "duration_ms"} PROVE ms(name) \subseteq Int
  <2>1. At(attrs, name) \in DOMAIN ParsedMS \cup {None}
    BY AttributeTypes
  <2>2. At(attrs, name) # None => At(attrs, name) = attrs[name]
    BY DEF At
  <2> QED
    BY <2>1, <2>2, Constants
<1>2. DurationMS(attrs) = CASE ms("duration") # {}                             -> ms("duration")
                            [] ms("duration") = {} /\ ms("duration_ms") # {}   -> ms("duration_ms")
                            [] OTHER                                           -> {0}
  BY DEF DurationMS
<1>3. ms("duration") \subseteq Int /\ ms("duration_ms") \subseteq Int
  BY <1>1
<1> HIDE DEF ms
<1>4. CASE ms("duration") # {}
  BY <1>2, <1>3, <1>4
<1>5. CASE ms("duration") = {} /\ ms("duration_ms") # {}
  BY <1>2, <1>3, <1>5
<1>6. CASE ms("duration") = {} /\ ms("duration_ms") = {}
  BY <1>2, <1>6
<1> QED
  BY <1>4, <1>5, <1>6


------------------------------------------------------------------------------
(* What the evidence in a set C of raw records amounts to.                     *)
Fails(C)     == \E raw \in C : Failed(raw)
Errs(C)      == \E raw \in C : Failed(raw) /\ ~Cancelled(raw)
Completes(C) == \E raw \in C : Completed(raw)
IdsOf(C)     == UNION UNION {Says(raw, OperationIDKeys) : raw \in C}
Offers(C, name) == \E raw \in C : Says(raw, {name}) # {}

VerdictOf(e, C) ==
  /\ e.status = CASE Errs(C)                       -> "error"
                  [] ~Errs(C) /\ Fails(C)          -> "cancelled"
                  [] ~Fails(C) /\ Completes(C)     -> "success"
                  [] ~Fails(C) /\ ~Completes(C)    -> "unknown"
  /\ e.errorType # None <=> e.status \in {"error", "cancelled"}
  /\ e.errorCode # None => e.status \in {"error", "cancelled"}

AttributionOf(e, ids) ==
  /\ e.op # None => ids = {e.op}
  /\ e.correlation = CASE ids = {}                       -> "unattributed"
                       [] \E id \in OpId : ids = {id}    -> "correlated"
                       [] OTHER                          -> "ambiguous"

RefusalOf(e, C) ==
  /\ e.args = "refused_raw" <=> Offers(C, "gen_ai.tool.call.arguments")
  /\ e.result = "refused_raw" <=> Offers(C, "gen_ai.tool.call.result")

(* A tools/call signal with both ids: what ContributorsAreCalls asks for.        *)
JoinableCall(raw) ==
  /\ Identified(raw)
  /\ LET canonical == Says(raw, {"mcp.method.name"})
     IN  IF canonical # {} THEN canonical = {ToolsCall} ELSE Says(raw, {"mcp.method"}) = {ToolsCall}
  /\ Says(raw, {"mcp.resource.type"}) \subseteq {ToolResource}
  /\ Says(raw, {"gen_ai.tool.name", "mcp.tool.name", "mcp.resource.name"}) # {}

LEMMA SaysOf ==
  ASSUME NEW raw, NEW attrs, attrs = AttributeMap(raw.attrs)
  PROVE  /\ \A name : Says(raw, {name}) = IF At(attrs, name) = None THEN {} ELSE {At(attrs, name)}
         /\ \A names : Says(raw, names) # {} <=> \E name \in names : At(attrs, name) # None
BY DEF Says

(* The values a normalized execution is made of.                               *)
LEMMA ExecutionFields ==
  ASSUME NEW raw \in Raw, NEW ex \in Normalized(raw), NEW attrs, attrs = AttributeMap(raw.attrs)
  PROVE  \E parent, kind, finishedAt, duration, s :
           /\ ex = Made(JoinKey(Either(raw.trace, At(attrs, "trace.id")), Either(raw.span, At(attrs, "span.id"))),
                        parent, kind, Attr(attrs, "tool"), At(attrs, "mcp.target"), Timestamp(raw.start), finishedAt,
                        duration, s, ClassifyOperation(OperationID(attrs)),
                        PayloadAvailability(attrs, "gen_ai.tool.call.arguments"),
                        PayloadAvailability(attrs, "gen_ai.tool.call.result"), Attr(attrs, "session"), raw)
           /\ parent \in Key \cup {None} /\ kind \in Kind \cup {None}
           /\ finishedAt \in Int \cup {None} /\ duration \in Int
           /\ s = IF raw.signal = "logs" THEN StatusFrom(attrs, "UNSET", LogCompleted(attrs))
                  ELSE StatusFrom(attrs, raw.code, Timestamp(raw.end) # None)
<1>0. /\ raw.trace \in TraceId \cup {None} /\ raw.span \in SpanId \cup {None}
      /\ raw.parent \in SpanId \cup {None} /\ raw.kind \in Kind \cup {None}
      /\ raw.start \in 0 .. 2 * Half - 1 /\ raw.end \in 0 .. 2 * Half - 1
      /\ At(attrs, "trace.id") \in TraceId \cup {None}
  BY Constants, AttributeTypes DEF WellFormed
<1>1. CASE raw.signal = "logs"
  <2>1. ex \in FromLogRecord(raw)
    BY <1>1 DEF Normalized
  <2>2. PICK d \in DurationMS(attrs) :
          ex = Made(JoinKey(Either(raw.trace, At(attrs, "trace.id")), Either(raw.span, At(attrs, "span.id"))),
                    None, None, Attr(attrs, "tool"), At(attrs, "mcp.target"), Timestamp(raw.start), None, d,
                    StatusFrom(attrs, "UNSET", LogCompleted(attrs)), ClassifyOperation(OperationID(attrs)),
                    PayloadAvailability(attrs, "gen_ai.tool.call.arguments"),
                    PayloadAvailability(attrs, "gen_ai.tool.call.result"), Attr(attrs, "session"), raw)
    BY <1>1, <2>1, MadeOfLog
  <2>3. d \in Int
    BY DurationType
  <2> QED
    BY <1>1, <2>2, <2>3
<1>2. CASE raw.signal # "logs"
  <2>1. ex \in FromSpan(raw)
    BY <1>2 DEF Normalized
  <2>2. PICK p : p = IF raw.parent = None THEN None
                     ELSE JoinKey(Either(raw.trace, At(attrs, "trace.id")), raw.parent)
    OBVIOUS
  <2>3. PICK d : d = IF None \in {Timestamp(raw.start), Timestamp(raw.end)} THEN 0
                     ELSE Timestamp(raw.end) - Timestamp(raw.start)
    OBVIOUS
  <2>4. ex = Made(JoinKey(Either(raw.trace, At(attrs, "trace.id")), Either(raw.span, At(attrs, "span.id"))),
                  p, raw.kind, Attr(attrs, "tool"), At(attrs, "mcp.target"), Timestamp(raw.start),
                  Timestamp(raw.end), d,
                  StatusFrom(attrs, raw.code, Timestamp(raw.end) # None), ClassifyOperation(OperationID(attrs)),
                  PayloadAvailability(attrs, "gen_ai.tool.call.arguments"),
                  PayloadAvailability(attrs, "gen_ai.tool.call.result"), Attr(attrs, "session"), raw)
    BY <2>1, <2>2, <2>3, MadeOfSpan
  <2>5. p \in Key \cup {None}
    <3>1. Either(raw.trace, At(attrs, "trace.id")) \in TraceId \cup {None}
      BY <1>0, EitherType
    <3> QED
      BY <1>0, <2>2, <3>1, JoinKeyType
  <2>6. Timestamp(raw.start) \in Int \cup {None} /\ Timestamp(raw.end) \in Int \cup {None}
    BY <1>0, TimestampType
  <2>7. d \in Int
    BY <2>3, <2>6
  <2> QED
    BY <1>0, <1>2, <2>4, <2>5, <2>6, <2>7
<1> QED
  BY <1>1, <1>2

(* It is an execution if it can be joined, and it has the key of its signal.     *)
LEMMA NormalizedType ==
  ASSUME NEW raw \in Raw, NEW ex \in Normalized(raw)
  PROVE  /\ ex.key # None <=> Identified(raw)
         /\ ex.key # None => ex \in Execution
         /\ ex.sigs = {raw.id}
<1> PICK attrs : attrs = AttributeMap(raw.attrs)
  OBVIOUS
<1> PICK key : key = JoinKey(Either(raw.trace, At(attrs, "trace.id")), Either(raw.span, At(attrs, "span.id")))
  OBVIOUS
<1> PICK class : class = ClassifyOperation(OperationID(attrs))
  OBVIOUS
<1>1. PICK parent, kind, finishedAt, duration, s :
        /\ ex = Made(key, parent, kind, Attr(attrs, "tool"), At(attrs, "mcp.target"), Timestamp(raw.start), finishedAt,
                     duration, s, class,
                     PayloadAvailability(attrs, "gen_ai.tool.call.arguments"),
                     PayloadAvailability(attrs, "gen_ai.tool.call.result"), Attr(attrs, "session"), raw)
        /\ parent \in Key \cup {None} /\ kind \in Kind \cup {None}
        /\ finishedAt \in Int \cup {None} /\ duration \in Int
        /\ s = IF raw.signal = "logs" THEN StatusFrom(attrs, "UNSET", LogCompleted(attrs))
               ELSE StatusFrom(attrs, raw.code, Timestamp(raw.end) # None)
  BY ExecutionFields
<1>2. /\ raw.trace \in TraceId \cup {None} /\ raw.span \in SpanId \cup {None}
      /\ raw.start \in 0 .. 2 * Half - 1 /\ raw.id \in SigId /\ raw.signal \in Signal
      /\ At(attrs, "trace.id") \in TraceId \cup {None} /\ At(attrs, "span.id") \in SpanId \cup {None}
      /\ At(attrs, "mcp.target") \in Text \cup {None}
  BY Constants, AttributeTypes DEF WellFormed, TextName
<1>3. /\ Either(raw.trace, At(attrs, "trace.id")) \in TraceId \cup {None}
      /\ Either(raw.span, At(attrs, "span.id")) \in SpanId \cup {None}
  BY <1>2, EitherType
<1>4. key \in Key \cup {None} /\ (key # None <=> Identified(raw))
  <2>1. key \in Key \cup {None} /\ (key # None <=> None \notin {Either(raw.trace, At(attrs, "trace.id")),
                                                            Either(raw.span, At(attrs, "span.id"))})
    BY <1>3, JoinKeyType
  <2>2. /\ Says(raw, {"trace.id"}) # {} <=> At(attrs, "trace.id") # None
        /\ Says(raw, {"span.id"}) # {} <=> At(attrs, "span.id") # None
    BY SaysOf
  <2> QED
    BY <2>1, <2>2 DEF Identified, Either
<1>5. Attr(attrs, "tool") \in Text \cup {None} /\ Attr(attrs, "session") \in Text \cup {None}
  <2>1. \A name \in TextName : At(attrs, name) \in Text \cup {None}
    BY AttributeTypes
  <2> QED
    BY <2>1, AttrSpellings DEF TextName
<1>6. Attr(attrs, "code") \in DOMAIN ClassOf \cup {None} /\ At(attrs, "error.type") \in Text \cup {None}
  <2>1. /\ At(attrs, "rpc.response.status_code") \in DOMAIN ClassOf \cup {None}
        /\ At(attrs, "mcp.error.code") \in DOMAIN ClassOf \cup {None}
        /\ At(attrs, "error.type") \in Text \cup {None}
    BY AttributeTypes DEF TextName
  <2> QED
    BY <2>1, AttrSpellings
<1>7. s.status \in Status /\ s.type \in Text \cup {None} /\ s.code \in Text \cup {None}
  <2>1. \E spanCode : \E completed \in BOOLEAN : s = StatusFrom(attrs, spanCode, completed)
    <3>1. LogCompleted(attrs) \in BOOLEAN /\ (Timestamp(raw.end) # None) \in BOOLEAN
      BY DEF LogCompleted
    <3> QED
      BY <1>1, <3>1
  <2>2. PICK spanCode : \E completed \in BOOLEAN : s = StatusFrom(attrs, spanCode, completed)
    BY <2>1
  <2>3. PICK completed \in BOOLEAN : s = StatusFrom(attrs, spanCode, completed)
    BY <2>2
  <2> QED
    BY <1>6, <2>3, StatusOfSignal DEF Status
<1>8. /\ class \in [correlation : Correlation, op : OpId \cup {None}]
      /\ class.op # None <=> class.correlation = "correlated"
  BY ClassifyAny
<1>9. \A name : PayloadAvailability(attrs, name) \in Availability
  BY DEF PayloadAvailability, Availability
<1>10. Timestamp(raw.start) \in Int \cup {None}
  BY <1>2, TimestampType
<1>11. /\ ex.key = key /\ ex.sigs = {raw.id} /\ ex.op = class.op /\ ex.correlation = class.correlation
  BY <1>1 DEF Made
<1>12. ASSUME key # None PROVE ex \in Execution
  <2>1. ex \in Record
    BY <1>1, <1>2, <1>4, <1>5, <1>7, <1>8, <1>9, <1>10, <1>12 DEF Made, Record
  <2> QED
    BY <1>8, <1>11, <2>1 DEF Execution
<1> QED
  BY <1>4, <1>11, <1>12


LEMMA ClassifySaysIt == \A ids : AttributionOf(ClassifyOperation(ids), ids)
<1> TAKE ids
<1> PICK class : class = ClassifyOperation(ids)
  OBVIOUS
<1>1. /\ class.op # None => ids = {class.op}
      /\ class.correlation = CASE ids = {}                       -> "unattributed"
                               [] \E id \in OpId : ids = {id}    -> "correlated"
                               [] OTHER                          -> "ambiguous"
  BY ClassifyAny
<1> QED
  BY <1>1 DEF AttributionOf

(* A signal says what its own evidence says (agentgateway.go, statusFrom;        *)
(* aliases.go, operationID; agentgateway.go, payloadAvailability).               *)
LEMMA SignalSays ==
  ASSUME NEW raw \in Raw, NEW ex \in Normalized(raw)
  PROVE  VerdictOf(ex, {raw}) /\ AttributionOf(ex, IdsOf({raw})) /\ RefusalOf(ex, {raw})
<1> PICK attrs : attrs = AttributeMap(raw.attrs)
  OBVIOUS
<1> PICK class : class = ClassifyOperation(OperationID(attrs))
  OBVIOUS
<1> PICK args : args = PayloadAvailability(attrs, "gen_ai.tool.call.arguments")
  OBVIOUS
<1> PICK result : result = PayloadAvailability(attrs, "gen_ai.tool.call.result")
  OBVIOUS
<1>1. PICK parent, kind, finishedAt, duration, s :
        /\ ex = Made(JoinKey(Either(raw.trace, At(attrs, "trace.id")), Either(raw.span, At(attrs, "span.id"))),
                     parent, kind, Attr(attrs, "tool"), At(attrs, "mcp.target"), Timestamp(raw.start), finishedAt,
                     duration, s, class, args, result, Attr(attrs, "session"), raw)
        /\ s = IF raw.signal = "logs" THEN StatusFrom(attrs, "UNSET", LogCompleted(attrs))
               ELSE StatusFrom(attrs, raw.code, Timestamp(raw.end) # None)
  BY ExecutionFields
<1>2. /\ ex.status = s.status /\ ex.errorType = s.type /\ ex.errorCode = s.code
      /\ ex.op = class.op /\ ex.correlation = class.correlation
      /\ ex.args = args /\ ex.result = result
  BY <1>1 DEF Made
<1>3. Attr(attrs, "code") \in DOMAIN ClassOf \cup {None} /\ At(attrs, "error.type") \in Text \cup {None}
  <2>1. /\ At(attrs, "rpc.response.status_code") \in DOMAIN ClassOf \cup {None}
        /\ At(attrs, "mcp.error.code") \in DOMAIN ClassOf \cup {None}
        /\ At(attrs, "error.type") \in Text \cup {None}
    BY AttributeTypes DEF TextName
  <2> QED
    BY <2>1, AttrSpellings
<1>4. /\ Cancelled(raw) <=> At(attrs, "error.type") \in Cancelling
      /\ Failed(raw) <=> \/ At(attrs, "error.type") # None \/ Attr(attrs, "code") # None
                         \/ raw.signal = "traces" /\ raw.code = "ERROR"
  <2>1. Says(raw, {"error.type"}) = IF At(attrs, "error.type") = None THEN {} ELSE {At(attrs, "error.type")}
    BY SaysOf
  <2>2. None \notin Cancelling
    BY Constants
  <2>3. Cancelled(raw) <=> At(attrs, "error.type") \in Cancelling
    BY <2>1, <2>2 DEF Cancelled
  <2>4. Says(raw, {"error.type", "rpc.response.status_code", "mcp.error.code"}) # {}
          <=> \E name \in {"error.type", "rpc.response.status_code", "mcp.error.code"} : At(attrs, name) # None
    BY SaysOf
  <2>5. Attr(attrs, "code") # None
          <=> \E name \in {"rpc.response.status_code", "mcp.error.code"} : At(attrs, name) # None
    BY AttrSpellings
  <2> QED
    BY <2>3, <2>4, <2>5 DEF Failed
<1>5. VerdictOf(ex, {raw})
  <2>1. /\ Fails({raw}) <=> Failed(raw)
        /\ Errs({raw}) <=> Failed(raw) /\ ~Cancelled(raw)
        /\ Completes({raw}) <=> Completed(raw)
    BY DEF Fails, Errs, Completes
  <2>2. CASE raw.signal = "logs"
    <3>1. Completed(raw) <=> LogCompleted(attrs)
      <4>1. Says(raw, {"duration", "duration_ms", "http.status", "http.status_code"}) # {}
              <=> \E name \in {"duration", "duration_ms", "http.status", "http.status_code"} : At(attrs, name) # None
        BY SaysOf
      <4> QED
        BY <2>2, <4>1 DEF Completed, LogCompleted
    <3>2. LogCompleted(attrs) \in BOOLEAN /\ s = StatusFrom(attrs, "UNSET", LogCompleted(attrs))
      BY <1>1, <2>2 DEF LogCompleted
    <3> PICK completed \in BOOLEAN : completed = LogCompleted(attrs)
      BY <3>2
    <3>3. /\ s.status = CASE Failed(raw) /\ ~Cancelled(raw)  -> "error"
                          [] Failed(raw) /\ Cancelled(raw)   -> "cancelled"
                          [] ~Failed(raw) /\ completed       -> "success"
                          [] ~Failed(raw) /\ ~completed      -> "unknown"
          /\ s.type # None <=> s.status \in {"error", "cancelled"}
          /\ s.code # None => s.status \in {"error", "cancelled"}
      BY <1>3, <1>4, <2>2, <3>2, StatusOfSignal
    <3> QED
      BY <1>2, <2>1, <3>1, <3>3 DEF VerdictOf
  <2>3. CASE raw.signal # "logs"
    <3>1. raw.signal = "traces" /\ raw.end \in 0 .. 2 * Half - 1
      BY <2>3, Constants DEF WellFormed, Signal
    <3> PICK completed \in BOOLEAN : completed = (Timestamp(raw.end) # None)
      OBVIOUS
    <3>2. Completed(raw) <=> completed \/ raw.code = "OK"
      BY <3>1, TimestampType DEF Completed
    <3>3. s = StatusFrom(attrs, raw.code, completed)
      BY <1>1, <2>3
    <3>4. /\ s.status = CASE Failed(raw) /\ ~Cancelled(raw)                      -> "error"
                          [] Failed(raw) /\ Cancelled(raw)                       -> "cancelled"
                          [] ~Failed(raw) /\ (completed \/ raw.code = "OK")      -> "success"
                          [] ~Failed(raw) /\ ~(completed \/ raw.code = "OK")     -> "unknown"
          /\ s.type # None <=> s.status \in {"error", "cancelled"}
          /\ s.code # None => s.status \in {"error", "cancelled"}
      <4>1. Failed(raw) <=> At(attrs, "error.type") # None \/ Attr(attrs, "code") # None \/ raw.code = "ERROR"
        BY <1>4, <3>1
      <4>2. s = StatusFrom(attrs, raw.code, completed) /\ completed \in BOOLEAN
        BY <3>3
      <4>3. LET failed == At(attrs, "error.type") # None \/ Attr(attrs, "code") # None \/ raw.code = "ERROR"
                cancelled == At(attrs, "error.type") \in Cancelling
            IN  /\ failed /\ ~cancelled => s.status = "error"
                /\ failed /\ cancelled => s.status = "cancelled"
                /\ ~failed /\ (completed \/ raw.code = "OK") => s.status = "success"
                /\ ~failed /\ ~(completed \/ raw.code = "OK") => s.status = "unknown"
                /\ s.type # None <=> s.status \in {"error", "cancelled"}
                /\ s.code # None => s.status \in {"error", "cancelled"}
        BY ONLY <1>3, <4>2, StatusOfSignal
      <4> QED
        BY <1>4, <4>1, <4>3
    <3> QED
      BY <1>2, <2>1, <3>2, <3>4 DEF VerdictOf
  <2> QED
    BY <2>2, <2>3
<1>6. AttributionOf(ex, IdsOf({raw}))
  <2>1. IdsOf({raw}) = UNION Says(raw, OperationIDKeys)
    BY DEF IdsOf
  <2>2. UNION Says(raw, OperationIDKeys) = OperationID(attrs)
    <3>1. ASSUME NEW id PROVE id \in UNION Says(raw, OperationIDKeys)
                                <=> \E k \in OperationIDKeys : At(attrs, k) # None /\ id \in At(attrs, k)
      BY DEF Says
    <3>2. ASSUME NEW id PROVE id \in OperationID(attrs)
                                <=> \E k \in OperationIDKeys : At(attrs, k) # None /\ id \in At(attrs, k)
      <4>1. \A k : At(attrs, k) # None => At(attrs, k) = attrs[k]
        BY DEF At
      <4> QED
        BY <4>1 DEF OperationID
    <3> QED
      BY <3>1, <3>2
  <2> PICK ids : ids = OperationID(attrs)
    OBVIOUS
  <2>3. AttributionOf(class, ids)
    BY ClassifySaysIt
  <2> QED
    BY <1>2, <2>1, <2>2, <2>3 DEF AttributionOf
<1>7. RefusalOf(ex, {raw})
  <2>1. \A name : Offers({raw}, name) <=> At(attrs, name) # None
    <3> TAKE name
    <3>1. Says(raw, {name}) # {} <=> At(attrs, name) # None
      BY SaysOf
    <3> QED
      BY <3>1 DEF Offers
  <2> QED
    BY <1>2, <2>1 DEF RefusalOf, PayloadAvailability
<1> QED
  BY <1>5, <1>6, <1>7

(* What two records say of their signals, their merge says of all of them.       *)
LEMMA MergeSays ==
  ASSUME NEW a \in Execution, NEW b \in Execution, NEW C, NEW D,
         VerdictOf(a, C), VerdictOf(b, D), AttributionOf(a, IdsOf(C)), AttributionOf(b, IdsOf(D)),
         RefusalOf(a, C), RefusalOf(b, D), NEW m, m = Merge(a, b)
  PROVE  VerdictOf(m, C \cup D) /\ AttributionOf(m, IdsOf(C \cup D)) /\ RefusalOf(m, C \cup D)
<1>0. /\ m.status = MergeStatus(a.status, b.status)
      /\ m.errorType = Either(a.errorType, b.errorType) /\ m.errorCode = Either(a.errorCode, b.errorCode)
      /\ m.correlation = MergeCorrelation(a, b).correlation /\ m.op = MergeCorrelation(a, b).op
      /\ m.args = StrongerAvailability(a.args, b.args) /\ m.result = StrongerAvailability(a.result, b.result)
  BY DEF Merge
<1>1. VerdictOf(m, C \cup D)
  <2>1. /\ Fails(C \cup D) <=> Fails(C) \/ Fails(D)
        /\ Errs(C \cup D) <=> Errs(C) \/ Errs(D)
        /\ Completes(C \cup D) <=> Completes(C) \/ Completes(D)
        /\ Errs(C) => Fails(C)
        /\ Errs(D) => Fails(D)
    BY DEF Fails, Errs, Completes
  <2>2. /\ a.status \in {"success", "error", "cancelled", "unknown"}
        /\ b.status \in {"success", "error", "cancelled", "unknown"}
    BY DEF Execution, Record, Status
  <2>3. /\ Errs(C) <=> a.status = "error"
        /\ Fails(C) <=> a.status \in {"error", "cancelled"}
        /\ ~Fails(C) => (Completes(C) <=> a.status = "success")
        /\ Errs(D) <=> b.status = "error"
        /\ Fails(D) <=> b.status \in {"error", "cancelled"}
        /\ ~Fails(D) => (Completes(D) <=> b.status = "success")
    BY <2>1 DEF VerdictOf
  <2>4. /\ m.status = "error" <=> Errs(C \cup D)
        /\ m.status = "cancelled" <=> ~Errs(C \cup D) /\ Fails(C \cup D)
        /\ m.status = "success" <=> ~Fails(C \cup D) /\ Completes(C \cup D)
        /\ m.status = "unknown" <=> ~Fails(C \cup D) /\ ~Completes(C \cup D)
    BY <1>0, <2>1, <2>2, <2>3 DEF MergeStatus
  <2>5. m.status \in {"error", "cancelled"} <=> a.status \in {"error", "cancelled"} \/ b.status \in {"error", "cancelled"}
    BY <2>1, <2>3, <2>4
  <2>6. /\ m.errorType # None <=> m.status \in {"error", "cancelled"}
        /\ m.errorCode # None => m.status \in {"error", "cancelled"}
    BY <1>0, <2>5 DEF VerdictOf, Either
  <2> QED
    BY <2>1, <2>4, <2>6 DEF VerdictOf
<1>2. AttributionOf(m, IdsOf(C \cup D))
  <2> PICK I : I = IdsOf(C)
    OBVIOUS
  <2> PICK J : J = IdsOf(D)
    OBVIOUS
  <2>1. IdsOf(C \cup D) = I \cup J
    BY DEF IdsOf
  <2>2. /\ AttributionOf(a, I) /\ AttributionOf(b, J) /\ None \notin OpId
        /\ a.op # None <=> a.correlation = "correlated"
        /\ b.op # None <=> b.correlation = "correlated"
        /\ a.op \in OpId \cup {None} /\ b.op \in OpId \cup {None}
    BY Constants DEF Execution, Record
  <2>3. /\ a.correlation = "ambiguous" <=> I # {} /\ ~\E id \in OpId : I = {id}
        /\ b.correlation = "ambiguous" <=> J # {} /\ ~\E id \in OpId : J = {id}
    BY <2>2 DEF AttributionOf
  <2>4. CASE "ambiguous" \in {a.correlation, b.correlation}
    <3>1. m.correlation = "ambiguous" /\ m.op = None
      BY <1>0, <2>4 DEF MergeCorrelation
    <3>2. I \cup J # {} /\ ~\E id \in OpId : I \cup J = {id}
      <4>1. ASSUME NEW id \in OpId, I \cup J = {id} PROVE FALSE
        <5>1. (I = {} \/ I = {id}) /\ (J = {} \/ J = {id})
          BY <4>1
        <5> QED
          BY <2>3, <2>4, <5>1
      <4> QED
        BY <2>3, <2>4, <4>1
    <3> QED
      BY <2>1, <3>1, <3>2 DEF AttributionOf
  <2>5. CASE "ambiguous" \notin {a.correlation, b.correlation}
    <3>1. I = (IF a.op = None THEN {} ELSE {a.op}) /\ J = (IF b.op = None THEN {} ELSE {b.op})
      <4>1. a.op = None => I = {}
        BY <2>2, <2>3, <2>5 DEF AttributionOf
      <4>2. b.op = None => J = {}
        BY <2>2, <2>3, <2>5 DEF AttributionOf
      <4>3. (a.op # None => I = {a.op}) /\ (b.op # None => J = {b.op})
        BY <2>2 DEF AttributionOf
      <4> QED
        BY <4>1, <4>2, <4>3
    <3>2. {a.op, b.op} \ {None} = I \cup J
      BY <3>1
    <3>3. MergeCorrelation(a, b) = ClassifyOperation(I \cup J)
      BY <2>5, <3>2 DEF MergeCorrelation
    <3>4. AttributionOf(MergeCorrelation(a, b), I \cup J)
      BY <3>3, ClassifySaysIt
    <3> QED
      BY <1>0, <2>1, <3>4 DEF AttributionOf
  <2> QED
    BY <2>4, <2>5
<1>3. RefusalOf(m, C \cup D)
  <2>1. \A name : Offers(C \cup D, name) <=> Offers(C, name) \/ Offers(D, name)
    BY DEF Offers
  <2>2. \A x \in Availability, y \in Availability :
          StrongerAvailability(x, y) = "refused_raw" <=> x = "refused_raw" \/ y = "refused_raw"
    BY DEF StrongerAvailability, Rank, Availability
  <2>3. /\ a.args \in Availability /\ b.args \in Availability
        /\ a.result \in Availability /\ b.result \in Availability
    BY DEF Execution, Record
  <2> QED
    BY <1>0, <2>1, <2>2, <2>3 DEF RefusalOf
<1> QED
  BY <1>1, <1>2, <1>3


(* A raw record is joined exactly if it is a tools/call with both ids           *)
(* (agentgateway.go, isToolCall; FromSpan and FromLogRecord; JoinKey).          *)
LEMMA JoinedIfCall ==
  ASSUME NEW raw \in Raw
  PROVE  JoinableCall(raw) <=> \E ex \in Normalized(raw) : ex.key # None
<1> PICK attrs : attrs = AttributeMap(raw.attrs)
  OBVIOUS
<1>1. (\E ex \in Normalized(raw) : ex.key # None) <=> Identified(raw) /\ Normalized(raw) # {}
  BY NormalizedType
<1>2. IsToolCall(attrs) <=>
        /\ LET canonical == Says(raw, {"mcp.method.name"})
           IN  IF canonical # {} THEN canonical = {ToolsCall} ELSE Says(raw, {"mcp.method"}) = {ToolsCall}
        /\ Says(raw, {"mcp.resource.type"}) \subseteq {ToolResource}
  <2>1. /\ Says(raw, {"mcp.method.name"})
             = IF At(attrs, "mcp.method.name") = None THEN {} ELSE {At(attrs, "mcp.method.name")}
        /\ Says(raw, {"mcp.method"}) = IF At(attrs, "mcp.method") = None THEN {} ELSE {At(attrs, "mcp.method")}
        /\ Says(raw, {"mcp.resource.type"})
             = IF At(attrs, "mcp.resource.type") = None THEN {} ELSE {At(attrs, "mcp.resource.type")}
    BY SaysOf
  <2>2. Attr(attrs, "method") = IF At(attrs, "mcp.method.name") # None
                                THEN At(attrs, "mcp.method.name") ELSE At(attrs, "mcp.method")
    BY AttrSpellings
  <2>3. ToolsCall # None
    BY Constants
  <2>4. Attr(attrs, "method") = ToolsCall <=>
          IF Says(raw, {"mcp.method.name"}) # {} THEN Says(raw, {"mcp.method.name"}) = {ToolsCall}
          ELSE Says(raw, {"mcp.method"}) = {ToolsCall}
    BY <2>1, <2>2, <2>3
  <2>5. At(attrs, "mcp.resource.type") \in {None, ToolResource}
          <=> Says(raw, {"mcp.resource.type"}) \subseteq {ToolResource}
    BY <2>1
  <2> QED
    BY <2>4, <2>5 DEF IsToolCall
<1>3. ASSUME NEW ex, ex \in (IF raw.signal = "logs" THEN FromLogRecord(raw) ELSE FromSpan(raw))
      PROVE  ex.tool = Attr(attrs, "tool")
  <2>1. CASE raw.signal = "logs"
    <3>1. PICK d \in DurationMS(attrs) :
            ex = Made(JoinKey(Either(raw.trace, At(attrs, "trace.id")), Either(raw.span, At(attrs, "span.id"))),
                      None, None, Attr(attrs, "tool"), At(attrs, "mcp.target"), Timestamp(raw.start), None, d,
                      StatusFrom(attrs, "UNSET", LogCompleted(attrs)), ClassifyOperation(OperationID(attrs)),
                      PayloadAvailability(attrs, "gen_ai.tool.call.arguments"),
                      PayloadAvailability(attrs, "gen_ai.tool.call.result"), Attr(attrs, "session"), raw)
      BY <1>3, <2>1, MadeOfLog
    <3> QED
      BY <3>1 DEF Made
  <2>2. CASE raw.signal # "logs"
    <3>1. ex \in FromSpan(raw)
      BY <1>3, <2>2
    <3>2. \E p, d, s :
            ex = Made(JoinKey(Either(raw.trace, At(attrs, "trace.id")), Either(raw.span, At(attrs, "span.id"))),
                      p, raw.kind, Attr(attrs, "tool"), At(attrs, "mcp.target"), Timestamp(raw.start),
                      Timestamp(raw.end), d, s, ClassifyOperation(OperationID(attrs)),
                      PayloadAvailability(attrs, "gen_ai.tool.call.arguments"),
                      PayloadAvailability(attrs, "gen_ai.tool.call.result"), Attr(attrs, "session"), raw)
      BY <3>1, MadeOfSpan
    <3> QED
      BY <3>2 DEF Made
  <2> QED
    BY <2>1, <2>2
<1>4. (IF raw.signal = "logs" THEN FromLogRecord(raw) ELSE FromSpan(raw)) # {}
  <2>1. FromSpan(raw) # {}
    BY DEF FromSpan
  <2>2. FromLogRecord(raw) # {}
    <3>1. PICK d : d \in DurationMS(attrs)
      BY DurationType
    <3> QED
      BY <3>1 DEF FromLogRecord
  <2> QED
    BY <2>1, <2>2
<1>5. Normalized(raw) # {} <=> IsToolCall(attrs) /\ Attr(attrs, "tool") # None
  BY <1>3, <1>4 DEF Normalized
<1>6. Says(raw, {"gen_ai.tool.name", "mcp.tool.name", "mcp.resource.name"}) # {} <=> Attr(attrs, "tool") # None
  BY SaysOf, AttrSpellings
<1> QED
  BY <1>1, <1>2, <1>5, <1>6 DEF JoinableCall

------------------------------------------------------------------------------
(* The inductive invariant: the signals of an exchange are told apart by their   *)
(* ids, so that the record knows which of them it was merged from, and what it   *)
(* says is what the evidence in those amounts to.                               *)
ExchangeInv ==
  /\ TypeOK
  /\ \A raw, other \in taken : raw.id = other.id => raw = other
  /\ record # None => record.sigs \subseteq {raw.id : raw \in taken}
  /\ \A raw \in taken : raw \in Contributors <=> JoinableCall(raw)
  /\ record # None => /\ VerdictOf(record, Contributors)
                      /\ AttributionOf(record, IdsOf(Contributors))
                      /\ RefusalOf(record, Contributors)

LEMMA ExchangeStep == ExchangeInv /\ [Next]_vars => ExchangeInv'
<1> SUFFICES ASSUME ExchangeInv, [Next]_vars PROVE ExchangeInv'
  OBVIOUS
<1>1. CASE UNCHANGED vars
  BY <1>1 DEF vars, ExchangeInv, TypeOK, Contributors
<1>2. ASSUME NEW raw \in Raw, Take(raw) PROVE ExchangeInv'
  <2>0. /\ taken \subseteq Raw /\ record \in Execution \cup {None} /\ None \notin Execution
        /\ \A a, b \in taken : a.id = b.id => a = b
        /\ record # None => record.sigs \subseteq {a.id : a \in taken}
        /\ \A a \in taken : a \in Contributors <=> JoinableCall(a)
        /\ record # None => /\ VerdictOf(record, Contributors)
                            /\ AttributionOf(record, IdsOf(Contributors))
                            /\ RefusalOf(record, Contributors)
    BY NoneIsNoExecution DEF ExchangeInv, TypeOK, NoneIsNoExecution
  <2>1. /\ taken' = taken \cup {raw} /\ taken' \subseteq Raw
        /\ \A other \in taken : other.id # raw.id
    BY <1>2, <2>0 DEF Take
  <2>2. \A a, b \in taken' : a.id = b.id => a = b
    BY <2>0, <2>1
  <2>3. CASE \E ex \in Normalized(raw) : ex.key # None
    <3>1. JoinableCall(raw) /\ Identified(raw)
      BY <2>3, JoinedIfCall DEF JoinableCall
    <3>2. PICK ex \in Normalized(raw) : record' = Join(record, ex)
      BY <1>2, <2>3 DEF Take
    <3>3. ex \in Execution /\ ex.sigs = {raw.id}
      BY <3>1, NormalizedType
    <3>4. VerdictOf(ex, {raw}) /\ AttributionOf(ex, IdsOf({raw})) /\ RefusalOf(ex, {raw})
      BY SignalSays
    <3>5. record' \in Execution
      BY <2>0, <3>2, <3>3, JoinType
    <3>6. record'.sigs = (IF record = None THEN {} ELSE record.sigs) \cup {raw.id}
      <4>1. SigsOf(record') = SigsOf(record) \cup SigsOf(ex)
        BY <2>0, <3>2, <3>3, JoinSigs
      <4> QED
        BY <2>0, <3>3, <3>5, <4>1 DEF SigsOf
    <3>7. Contributors' = Contributors \cup {raw}
      BY <2>0, <2>1, <3>5, <3>6 DEF Contributors
    <3>8. VerdictOf(record', Contributors') /\ AttributionOf(record', IdsOf(Contributors'))
          /\ RefusalOf(record', Contributors')
      <4>1. CASE record = None
        <5>1. record' = ex /\ Contributors = {}
          BY <3>2, <4>1 DEF Join, Contributors
        <5>2. Contributors' = {raw}
          BY <3>7, <5>1
        <5> QED
          BY <3>4, <5>1, <5>2
      <4>2. CASE record # None
        <5>1. record' = Merge(record, ex) /\ record \in Execution
          BY <2>0, <3>2, <3>3, <4>2 DEF Join
        <5> PICK C : C = Contributors
          OBVIOUS
        <5> PICK m : m = record'
          OBVIOUS
        <5>2. VerdictOf(record, C) /\ AttributionOf(record, IdsOf(C)) /\ RefusalOf(record, C)
          BY <2>0, <4>2
        <5>3. VerdictOf(m, C \cup {raw}) /\ AttributionOf(m, IdsOf(C \cup {raw})) /\ RefusalOf(m, C \cup {raw})
          BY <3>3, <3>4, <5>1, <5>2, MergeSays
        <5> QED
          BY <3>7, <5>3
      <4> QED
        BY <4>1, <4>2
    <3>9. \A a \in taken' : a \in Contributors' <=> JoinableCall(a)
      BY <2>0, <2>1, <3>1, <3>7
    <3>10. record'.sigs \subseteq {a.id : a \in taken'}
      BY <2>0, <2>1, <3>6
    <3> QED
      BY <2>1, <2>2, <3>5, <3>8, <3>9, <3>10 DEF ExchangeInv, TypeOK, VerdictOf, AttributionOf, RefusalOf
  <2>4. CASE ~\E ex \in Normalized(raw) : ex.key # None
    <3>1. ~JoinableCall(raw)
      BY <2>4, JoinedIfCall
    <3>2. record' = record
      BY <1>2, <2>4 DEF Take
    <3>3. record # None => raw.id \notin record.sigs
      BY <2>0, <2>1
    <3>4. Contributors' = Contributors
      BY <2>1, <3>2, <3>3 DEF Contributors
    <3>5. \A a \in taken' : a \in Contributors' <=> JoinableCall(a)
      <4>1. raw \notin Contributors
        BY <3>3 DEF Contributors
      <4> QED
        BY <2>0, <2>1, <3>1, <3>4, <4>1
    <3>6. record # None => record.sigs \subseteq {a.id : a \in taken'}
      BY <2>0, <2>1
    <3> QED
      BY <2>0, <2>1, <2>2, <3>2, <3>4, <3>5, <3>6
      DEF ExchangeInv, TypeOK, VerdictOf, AttributionOf, RefusalOf
  <2> QED
    BY <2>3, <2>4
<1> QED
  BY <1>1, <1>2 DEF Next

(* The invariant holds from the first signal to the last.                      *)
THEOREM ExchangeInductive == Spec => [](TypeOK /\ ExchangeInv)
<1>1. Init => ExchangeInv
  BY DEF Init, ExchangeInv, TypeOK
<1>2. ExchangeInv => TypeOK
  BY DEF ExchangeInv
<1> QED
  BY <1>1, <1>2, ExchangeStep, PTL DEF Spec

(* A record is merged from the tools/call signals that carry both ids, under     *)
(* whatever spelling, and from no other (agentgateway.go, isToolCall, JoinKey).  *)
THEOREM OnlyCallsContribute == Spec => []ContributorsAreCalls
<1>1. ExchangeInv => ContributorsAreCalls
  <2> SUFFICES ASSUME ExchangeInv PROVE \A raw \in taken : raw \in Contributors <=> JoinableCall(raw)
    BY DEF ContributorsAreCalls, JoinableCall
  <2> QED
    BY DEF ExchangeInv
<1> QED
  BY <1>1, ExchangeInductive, PTL

(* The status of a record, and whether it has an error class, follow from the    *)
(* evidence in all its signals, in whatever order they came (agentgateway.go,    *)
(* statusFrom; processor.go, mergeStatus).                                      *)
THEOREM VerdictFollowsEvidence == Spec => []VerdictFromEvidence
<1>1. ExchangeInv => VerdictFromEvidence
  <2> SUFFICES ASSUME ExchangeInv, record # None PROVE VerdictFromEvidence
    BY DEF VerdictFromEvidence
  <2> DEFINE failed == {raw \in Contributors : Failed(raw)}
  <2>1. /\ (\E raw \in failed : ~Cancelled(raw)) <=> Errs(Contributors)
        /\ failed # {} <=> Fails(Contributors)
        /\ (\A raw \in failed : Cancelled(raw)) <=> ~Errs(Contributors)
        /\ (\E raw \in Contributors : Completed(raw)) <=> Completes(Contributors)
        /\ (\A raw \in Contributors : ~Completed(raw)) <=> ~Completes(Contributors)
    BY DEF Errs, Fails, Completes
  <2>2. VerdictOf(record, Contributors)
    BY DEF ExchangeInv
  <2>3. Errs(Contributors) => Fails(Contributors)
    BY DEF Errs, Fails
  <2> HIDE DEF failed
  <2>4. /\ record.status =
             CASE \E raw \in failed : ~Cancelled(raw)                        -> "error"
               [] failed # {} /\ \A raw \in failed : Cancelled(raw)          -> "cancelled"
               [] failed = {} /\ \E raw \in Contributors : Completed(raw)    -> "success"
               [] failed = {} /\ \A raw \in Contributors : ~Completed(raw)   -> "unknown"
        /\ record.errorType # None <=> record.status \in {"error", "cancelled"}
        /\ record.errorCode # None => record.status \in {"error", "cancelled"}
    BY <2>1, <2>2, <2>3 DEF VerdictOf
  <2> QED
    BY <2>4 DEF VerdictFromEvidence, failed
<1> QED
  BY <1>1, ExchangeInductive, PTL

(* An operation is named only if every id that any signal carries is that one    *)
(* well-formed id (execution.go, ClassifyOperation; processor.go,                *)
(* mergeCorrelation).                                                           *)
THEOREM AttributionFollowsIds == Spec => []AttributionFromAllIds
<1>1. ExchangeInv => AttributionFromAllIds
  BY DEF ExchangeInv, AttributionFromAllIds, AttributionOf, IdsOf
<1> QED
  BY <1>1, ExchangeInductive, PTL

(* A payload offered in plaintext by any signal is reported as refused, and no   *)
(* other (agentgateway.go, payloadAvailability; processor.go, strongerAvailability).  *)
THEOREM RefusalIsTold == Spec => []RefusalIsReported
<1>1. ExchangeInv => RefusalIsReported
  BY DEF ExchangeInv, RefusalIsReported, RefusalOf, Offers
<1> QED
  BY <1>1, ExchangeInductive, PTL

==============================================================================
