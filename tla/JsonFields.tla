----------------------------- MODULE JsonFields -----------------------------
(***************************************************************************)
(* Encode and Decode of Error and UploadResponse                           *)
(* (internal/fileupload/oas_json_gen.go).                                  *)
(*                                                                         *)
(* A JSON object is the sequence of its members, in which a key may be     *)
(* missing, repeated or unknown.  The generated methods of the two types   *)
(* differ in their tables only, which are the records ErrorType and        *)
(* UploadResponseType.  Tokenizing is external (jx) and so are the numeric *)
(* and time conversions, modelled by what they accept and keep.            *)
(***************************************************************************)
EXTENDS Integers, Sequences, SequencesExt

CONSTANTS
  MaxInt32,
  MaxInt64,
  Moments,     \* the times an UploadTime may have, as they are written
  Second       \* the moment without its fraction of a second

IntAssumption == MaxInt32 \in Nat /\ MaxInt64 \in Nat /\ MaxInt32 <= MaxInt64
ASSUME IntsAreOrdered == IntAssumption

\* The zero time is one of them.  RFC 3339 as ogen writes it has whole seconds.
MomentAssumption ==
  /\ "0001-01-01" \in Moments
  /\ Second \in [Moments -> Moments]
  /\ \A t \in Moments : Second[Second[t]] = Second[t]
ASSUME SecondsAreWhole == MomentAssumption

(***************************************************************************)
(* JSON values, and what a Go type takes from one.                         *)
(***************************************************************************)
Str(x) == [kind |-> "string", v |-> x]
Num(n) == [kind |-> "number", v |-> n]
Arr(s) == [kind |-> "array", v |-> s]
Null == [kind |-> "null", v |-> "null"]
Malformed == [kind |-> "malformed", v |-> "?"]   \* the text breaks off here

\* Whether d.Str, d.Int32, d.Int64, json.DecodeDateTime and the loop of d.Arr
\* take the value.
accepts(type, value) ==
  CASE type = "string"    -> value.kind = "string"
    [] type = "int32"     -> value.kind = "number" /\ value.v \in -MaxInt32 - 1 .. MaxInt32
    [] type = "int64"     -> value.kind = "number" /\ value.v \in -MaxInt64 - 1 .. MaxInt64
    [] type = "time.Time" -> value.kind = "string" /\ value.v \in Moments
    [] type = "[]string"  -> /\ value.kind = "array"
                             /\ \A i \in DOMAIN value.v : value.v[i].kind = "string"

\* Mutant: the slice is not made anew for a repeated key.
appended(type, old, value) ==
  IF type = "[]string"
  THEN {(IF old = {} THEN << >> ELSE CHOOSE s \in old : TRUE)
          \o [i \in DOMAIN value.v |-> value.v[i].v]}
  ELSE value.v

\* The field's new value; a slice is {} for nil and {s} for the elements s.
taken(type, old, value) ==
  IF type = "[]string" THEN {[i \in DOMAIN value.v |-> value.v[i].v]} ELSE value.v

\* How a field's value is written.
written(type, x) ==
  CASE type \in {"int32", "int64"} -> Num(x)
    [] type = "string"             -> Str(x)
    [] type = "time.Time"          -> Str(Second[x])
    [] type = "[]string"           -> LET s == CHOOSE s \in x : TRUE
                                      IN  Arr([i \in DOMAIN s |-> Str(s[i])])

(***************************************************************************)
(* The two types: the fields in the order of jsonFieldsNameOf..., their Go *)
(* types, the bits of the required ones, and the zero value; and which     *)
(* fields the schema requires (spec.yaml), which Decode does not look at.  *)
(***************************************************************************)
ErrorType ==
  [names |-> <<"code", "message", "details">>,
   types |-> <<"int32", "string", "[]string">>,
   mask  |-> {0, 1},
   required |-> {"code", "message"},
   zero  |-> [code |-> 0, message |-> "", details |-> {}]]

UploadResponseType ==
  [names |-> <<"filename", "fileSize", "bucket", "gcspath", "uploadTime">>,
   types |-> <<"string", "int64", "string", "string", "time.Time">>,
   mask  |-> {0, 1, 2, 3, 4},
   required |-> {"filename", "fileSize", "bucket", "gcspath", "uploadTime"},
   zero  |-> [filename |-> "", fileSize |-> 0, bucket |-> "", gcspath |-> "",
              uploadTime |-> "0001-01-01"]]

\* The numbers of a set, lowest first: as the loops over fields and over the
\* bits of a mask meet them.
inOrder(S) ==
  [n \in 1 .. Cardinality(S) |->
     CHOOSE k \in S : Cardinality({j \in S : j < k}) = n - 1]

\* Mutant: no field is left out.
encodeEveryField(T, s) ==
  [i \in DOMAIN T.names |->
     [key |-> T.names[i],
      value |-> IF T.types[i] = "[]string" /\ s[T.names[i]] = {} THEN Arr(<< >>)
                ELSE written(T.types[i], s[T.names[i]])]]

\* Every field in its order; "details" only if it is not nil.
encodeFields(T, s) ==
  LET present(i) == T.types[i] = "[]string" => s[T.names[i]] # {}
      kept == inOrder({i \in DOMAIN T.names : present(i)})
  IN  [j \in DOMAIN kept |->
         [key |-> T.names[kept[j]], value |-> written(T.types[kept[j]], s[T.names[kept[j]]])]]

fieldIdx(T, key) == CHOOSE i \in DOMAIN T.names : T.names[i] = key

\* The bit a known key sets in requiredBitSet; none for an optional field.
bits(T, key) == {fieldIdx(T, key) - 1} \cap T.mask

\* The callback of ObjBytes for one member.  Once it has failed ObjBytes calls
\* it no more.
member(T, st, m) ==
  IF st.err # "nil" THEN st
  ELSE IF \A i \in DOMAIN T.names : T.names[i] # m.key
  THEN IF m.value.kind = "malformed" THEN [st EXCEPT !.err = "decode"] ELSE st
  ELSE LET type == T.types[fieldIdx(T, m.key)]
           seen == [st EXCEPT !.requiredBitSet = @ \cup bits(T, m.key)]
       IN  IF accepts(type, m.value)
           THEN [seen EXCEPT !.s[m.key] = taken(type, @, m.value)]
           ELSE [seen EXCEPT !.err = "decode field"]

\* (requiredBitSet & mask) ^ mask, bit by bit.
missed(requiredBitSet, mask) ==
  LET and == requiredBitSet \cap mask IN (and \ mask) \cup (mask \ and)

\* The loop over the missed bits, lowest first.
failures(T, result) ==
  LET bitIdx == inOrder(result)
  IN  [n \in DOMAIN bitIdx |-> T.names[bitIdx[n] + 1]]

\* Decode: the members in their order, then the required fields.
Decode(T, doc) ==
  LET end == FoldLeft(LAMBDA st, m : member(T, st, m),
                      [s |-> T.zero, requiredBitSet |-> {}, err |-> "nil"], doc)
      result == missed(end.requiredBitSet, T.mask)
  IN  [s |-> end.s,
       err |-> IF end.err # "nil" THEN end.err
               ELSE IF result # {} THEN "required" ELSE "nil",
       failures |-> IF end.err = "nil" THEN failures(T, result) ELSE << >>]

(***************************************************************************)
(* What the schema says of a whole object: the reference Decode and Encode *)
(* are held against.                                                       *)
(***************************************************************************)
Given(T, doc, n) == {i \in DOMAIN doc : doc[i].key = T.names[n]}

\* Every value can be taken; an unknown key may have any value that is JSON.
Readable(T, doc) ==
  \A i \in DOMAIN doc :
    /\ \A n \in DOMAIN T.names : i \in Given(T, doc, n) => accepts(T.types[n], doc[i].value)
    /\ (\A n \in DOMAIN T.names : i \notin Given(T, doc, n)) => doc[i].value.kind # "malformed"

Missing(T, doc) == {n \in DOMAIN T.names : T.names[n] \in T.required /\ Given(T, doc, n) = {}}

\* The last value given for a field, whatever stood there before.
finalValue(T, doc, n) ==
  LET given == Given(T, doc, n)
      last == CHOOSE i \in given : \A j \in given : j <= i
      zero == T.zero[T.names[n]]
  IN  IF given = {} THEN zero ELSE taken(T.types[n], zero, doc[last].value)

meetsSchema(T, doc) ==
  LET d == Decode(T, doc) IN
  /\ d.err = "nil" <=> Readable(T, doc) /\ Missing(T, doc) = {}
  /\ Readable(T, doc) =>
       /\ ToSet(d.failures) = {T.names[n] : n \in Missing(T, doc)}
       /\ Len(d.failures) = Cardinality(Missing(T, doc))
  /\ d.err = "nil" =>
       \A n \in DOMAIN T.names : d.s[T.names[n]] = finalValue(T, doc, n)

\* What the fields of s are after a round trip: a time has whole seconds.
roundTrip(T, s, n) ==
  IF T.types[n] = "time.Time" THEN Second[s[T.names[n]]] ELSE s[T.names[n]]

isFaithful(T, doc) ==
  LET d == Decode(T, doc)
      e == Decode(T, encodeFields(T, d.s))
  IN  d.err = "nil" =>
        /\ e.err = "nil"
        /\ \A n \in DOMAIN T.names : e.s[T.names[n]] = roundTrip(T, d.s, n)
=============================================================================
