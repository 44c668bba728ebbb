---------------------------- MODULE MCAlgorithms ----------------------------
(***************************************************************************)
(* Algorithms for TLC, on bounded inputs.  A behaviour takes one subject   *)
(* and lets its input grow; the other inputs stay as they are.             *)
(***************************************************************************)
EXTENDS Algorithms

CONSTANTS
  Subjects,     \* of "validation", "limit", "csv", "json"
  MaxName,      \* fragments of a file name
  MaxPayload,   \* characters of a payload
  MaxMembers    \* members of a document

VARIABLE subject

(***************************************************************************)
(* Inputs.                                                                 *)
(***************************************************************************)
MCAllowed == {"a", "_", "csv", "xlsx", "CSV", "XLSX"}
MCFragments == MCAllowed \cup {Dot, " "}

\* One sniff for every size, every sniff for one size.
MCFiles ==
  [nil : BOOLEAN, declared : {0, MaxSize, MaxSize + 1}, len : 0 .. MaxSize + 2,
   readErr : BOOLEAN,
   sniff : {[mime |-> "text/plain", zipMagic |-> FALSE, firstRecord |-> "ok"]}]
  \cup [nil : {FALSE}, declared : {MaxSize}, len : {MaxSize}, readErr : {FALSE},
        sniff : Sniffs]

MCMoments == {"0001-01-01", "noon", "noon.5"}
MCSecond == [t \in MCMoments |-> IF t = "noon.5" THEN "noon" ELSE t]

\* Two values of each type, and values the type does not take.
good(type) ==
  CASE type = "int32"     -> <<Num(1), Num(-MaxInt32 - 1)>>
    [] type = "int64"     -> <<Num(MaxInt32 + 1), Num(MaxInt64)>>
    [] type = "string"    -> <<Str("a"), Str("noon")>>
    [] type = "time.Time" -> <<Str("noon.5"), Str("noon")>>
    [] type = "[]string"  -> <<Arr(<<Str("x"), Str("y")>>), Arr(<< >>)>>

bad(type) ==
  CASE type = "int32"     -> <<Num(MaxInt32 + 1), Str("a")>>
    [] type = "int64"     -> <<Num(MaxInt64 + 1)>>
    [] type = "string"    -> <<Num(1), Null>>
    [] type = "time.Time" -> <<Str("a")>>
    [] type = "[]string"  -> <<Null, Arr(<<Str("x"), Num(1)>>)>>

MCMembers ==
  UNION {[key : {T.names[n]},
          value : ToSet(good(T.types[n])) \cup ToSet(bad(T.types[n]))] :
           <<T, n>> \in {<<ErrorType, i>> : i \in 1 .. 3}
                          \cup {<<UploadResponseType, i>> : i \in 1 .. 5}}
    \cup [key : {"other"}, value : {Null, Malformed}]

MCCharacters == {"1", Quote, Comma, LineEnd, ZipMagic}
JsonCharacters == {"1", Comma, "[", "]"}

(***************************************************************************)
(* The inputs grow.                                                        *)
(***************************************************************************)
count(d, key) == Cardinality({i \in DOMAIN d : d[i].key = key})

plain(d) == \A i, j \in DOMAIN d :
  /\ i # j => d[i].key # d[j].key
  /\ \A n \in DOMAIN table.names :
       d[i].key = table.names[n] => accepts(table.types[n], d[i].value)

\* Every key once with every value, and one of them a second time.
admitted(m) ==
  IF m.key = "other" THEN count(doc, "other") = 0
  ELSE \E n \in DOMAIN table.names :
         /\ table.names[n] = m.key
         /\ \/ count(doc, m.key) = 0 /\ m.value = good(table.types[n])[1]
            \/ count(doc, m.key) = 1 /\ plain(doc) /\ m.value = good(table.types[n])[2]
            \/ count(doc, m.key) = 0 /\ plain(doc) /\ m.value \in ToSet(bad(table.types[n]))

aFile == CHOOSE f \in MCFiles : ~f.nil

Init ==
  /\ subject \in Subjects
  /\ name = << >>
  /\ IF subject = "validation" THEN file \in MCFiles ELSE file = aFile
  /\ setting = -Half
  /\ payload = << >>
  /\ IF subject = "json" THEN table \in {ErrorType, UploadResponseType} ELSE table = ErrorType
  /\ doc = << >>

LongerName ==
  /\ subject = "validation" /\ Len(name) < MaxName
  /\ \E t \in Fragments : name' = Append(name, t)
  /\ UNCHANGED <<subject, file, setting, payload, table, doc>>

NextSetting ==
  /\ subject = "limit" /\ setting < Half - 1
  /\ setting' = setting + 1
  /\ UNCHANGED <<subject, name, file, payload, table, doc>>

LongerPayload ==
  /\ subject = "csv" /\ Len(payload) < MaxPayload
  /\ \E ch \in Characters : (ch = ZipMagic => payload = << >>) /\ payload' = Append(payload, ch)
  /\ UNCHANGED <<subject, name, file, setting, table, doc>>

AddMember ==
  /\ subject = "json" /\ Len(doc) < MaxMembers
  /\ \E m \in Members : admitted(m) /\ doc' = Append(doc, m)
  /\ UNCHANGED <<subject, name, file, setting, payload, table>>

Next == LongerName \/ NextSetting \/ LongerPayload \/ AddMember

Spec == Init /\ [][Next]_<<subject, inputs>>
=============================================================================
