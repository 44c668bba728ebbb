----------------------------- MODULE Algorithms -----------------------------
(***************************************************************************)
(* The pure parts of the program, each against a reference definition: the *)
(* checks of an upload (UploadValidation), the arithmetic of its limit     *)
(* (UploadLimit), the csv sniff (CsvSniff) and the JSON codec              *)
(* (JsonFields).                                                           *)
(*                                                                         *)
(* Their inputs are variables, so that a property of an algorithm is a     *)
(* state predicate.                                                        *)
(***************************************************************************)
EXTENDS UploadLimit, CsvSniff, JsonFields, FiniteSets

CONSTANTS
  Fragments,    \* of a file name
  MaxSize,      \* the limit of the files checked
  Characters,   \* of a payload
  Members       \* of a JSON document

ASSUME MaxSizeAssumption == MaxSize \in Nat

VARIABLES
  name, file,   \* an upload; UploadLimit's setting is an input as well
  payload,      \* what a file holds
  table, doc    \* a type and a document to be read as it

inputs == <<name, file, setting, payload, table, doc>>

\* What is learned of a payload: only a zip file starts as one.
Sniffs ==
  {s \in [mime : {"text/plain", "application/zip"}, zipMagic : BOOLEAN,
          firstRecord : {"ok", "error", "EOF"}] :
     s.zipMagic => s.mime = "application/zip"}

Inputs ==
  /\ name \in Seq(Fragments)
  /\ file \in [nil : BOOLEAN, declared : Nat, len : Nat, readErr : BOOLEAN, sniff : Sniffs]
  /\ setting \in Word
  /\ payload \in Seq(Characters)
  /\ table \in {ErrorType, UploadResponseType}
  /\ doc \in Seq(Members)

\* Any input, which stays as it is.
InputSpec == Inputs /\ [][UNCHANGED inputs]_inputs

(***************************************************************************)
(* File names and files.                                                   *)
(***************************************************************************)
object == sanitizeFilename(name)

\* A run of dots keeps its last dot if its length is odd and vanishes if it is
\* even.
endsRun(s, i) == s[i] = Dot /\ (i = Len(s) \/ s[i + 1] # Dot)
runLength(s, i) == Cardinality({j \in 1 .. i : \A k \in j .. i : s[k] = Dot})
keepsDot(s, i) == endsRun(s, i) /\ runLength(s, i) % 2 = 1
keptDots == Cardinality({i \in DOMAIN name : keepsDot(name, i)})

\* sanitizeFilename leaves nothing but allowed fragments and single dots, one
\* for each odd run and as many other fragments as there were; doing it again
\* changes nothing.  In particular no name reaches the bucket with ".."
\* (gcs.go:188-203).
SanitizedIsSafe ==
  /\ \A i \in DOMAIN object : object[i] \in AllowedTokens \cup {Dot}
  /\ \A i \in 1 .. Len(object) - 1 : ~ (object[i] = Dot /\ object[i + 1] = Dot)
  /\ Cardinality({i \in DOMAIN object : object[i] = Dot}) = keptDots
  /\ Len(object) - keptDots = Cardinality({i \in DOMAIN name : name[i] # Dot})
  /\ sanitizeFilename(object) = object

\* A file keeps the extension its type is judged by exactly when the dots in
\* front of the extension are an odd run: "report.csv" and "report...csv" do,
\* "report..csv" is stored nowhere (gcs.go:139-152 and 188-189).
ExtensionKeptUnlessDoubled ==
  extension(name) \in {<<"csv">>, <<"xlsx">>} =>
    \A last \in DOMAIN name :
      name[last] = Dot /\ (\A j \in last + 1 .. Len(name) : name[j] # Dot) =>
        (extension(object) = extension(name) <=> runLength(name, last) % 2 = 1)

endsIn(types) ==
  Len(object) >= 2 /\ object[Len(object)] \in types /\ object[Len(object) - 1] = Dot

\* UploadToGcs goes on to an attempt exactly when it holds the whole payload,
\* neither empty nor over the limit (a file of exactly the limit passes), of a
\* client that did not declare more, and extension and first bytes agree
\* (gcs.go:60-77).
AcceptedIffWholeAndTyped ==
  validationError(name, file, MaxSize) = "nil" <=>
    /\ ~ file.nil /\ ~ file.readErr
    /\ file.len \in 1 .. MaxSize /\ bytesRead(file, MaxSize) = file.len
    /\ file.declared \in 0 .. MaxSize
    /\ \/ /\ endsIn({"csv", "CSV"})
          /\ file.sniff.mime # "application/zip" /\ file.sniff.firstRecord # "error"
       \/ endsIn({"xlsx", "XLSX"}) /\ file.sniff.zipMagic

(***************************************************************************)
(* The csv grammar, about the characters a .. b of a text s: a field has   *)
(* no special character, or is in quotes with the quotes inside it         *)
(* doubled; a record is fields with commas between them.                   *)
(***************************************************************************)
plainField(s, a, b) == \A i \in a .. b : s[i] \notin {Quote, Comma, LineEnd}

\* Each quote is the first or the second of a pair.
doubled(s, a, b) ==
  \E firsts \in SUBSET (a .. b - 1) :
    /\ {i \in a .. b : s[i] = Quote} = firsts \cup {i + 1 : i \in firsts}
    /\ \A i \in firsts : i + 1 \notin firsts

quotedField(s, a, b) ==
  a < b /\ s[a] = Quote /\ s[b] = Quote /\ doubled(s, a + 1, b - 1)

isField(s, a, b) == plainField(s, a, b) \/ quotedField(s, a, b)

\* What stands between two neighbouring cuts is a field.
isRecord(s, a, b) ==
  \E cuts \in SUBSET {i \in a .. b : s[i] = Comma} :
    \A p \in cuts \cup {a - 1}, q \in cuts \cup {b + 1} :
      p < q /\ (\A i \in p + 1 .. q - 1 : i \notin cuts) => isField(s, p + 1, q - 1)

\* The first character from a on that is not a blank line's.
recordStart(s, a) ==
  CHOOSE n \in a .. Len(s) + 1 :
    /\ \A i \in a .. n - 1 : s[i] = LineEnd
    /\ n = Len(s) + 1 \/ s[n] # LineEnd

\* Where a record that starts at a ends: at a line end or with the text.
recordEnds(s, a) ==
  {n \in a .. Len(s) : isRecord(s, a, n) /\ (n = Len(s) \/ s[n + 1] = LineEnd)}

firstRecordOk(s) ==
  LET a == recordStart(s, 1) IN a = Len(s) + 1 \/ recordEnds(s, a) # {}

allRecordsOk(s) ==
  LET ok[n \in 1 .. Len(s) + 1] ==
        LET a == recordStart(s, n)
        IN  a = Len(s) + 1 \/ \E e \in recordEnds(s, a) : ok[e + 1]
  IN  ok[1]

quotes(s) == Cardinality({i \in DOMAIN s : s[i] = Quote})

isCSV == looksLikeCSV(sniffed(payload))

\* A payload that fits the window counts as csv exactly if it is no zip file
\* and its first record follows the grammar, or there is none
\* (gcs.go:155-165).
SniffFollowsGrammar ==
  Len(payload) <= Window =>
    (isCSV <=> (payload = << >> \/ payload[1] # ZipMagic) /\ firstRecordOk(payload))

\* A longer payload is misjudged only because its first record does not end in
\* the window: one that is csv is refused only if the window ends inside
\* quotes, and one that is not is taken only if the window holds no whole
\* record (gcs.go:134-137).
OnlyTheWindowMisjudges ==
  Len(payload) > Window /\ payload[1] # ZipMagic =>
    LET seen == SubSeq(payload, 1, Window) IN
    /\ firstRecordOk(payload) /\ ~isCSV => quotes(seen) % 2 = 1
    /\ isCSV /\ ~firstRecordOk(payload) =>
         \A n \in recordEnds(seen, recordStart(seen, 1)) : n = Window

\* What the API description says of a 400 (spec.yaml:64, "Invalid file format
\* (not CSV/XLSX)"): a payload that is csv from beginning to end is taken.
\* Violated: a quoted field may cross the end of the window.
CsvIsAccepted == payload # << >> /\ payload[1] # ZipMagic /\ allRecordsOk(payload) => isCSV

\* A JSON array of digits, one at least: JSON enough to tell.
isJSON(s) ==
  /\ Len(s) > 1 /\ Len(s) % 2 = 1 /\ s[1] = "[" /\ s[Len(s)] = "]"
  /\ \A i \in 2 .. Len(s) - 1 : s[i] = IF i % 2 = 0 THEN "1" ELSE Comma

\* What gcs_test.go:24 says, TestDetectContentTypeRejectsJSONRenamedToCSV: JSON
\* in a csv file is refused.  Violated: the type asked for is never detected, and
\* JSON whose first line has no quotes is a csv record.
JsonIsRefused == isJSON(payload) => ~isCSV

(***************************************************************************)
(* JSON documents.                                                         *)
(***************************************************************************)

\* Decode, whose callback and bit set see the members one at a time, does what
\* the schema says of the whole object: it fails if a value is of the wrong
\* type, names exactly the required fields that are missing, and otherwise
\* takes the last value given for each field, whatever stood there before, and
\* is blind to unknown keys (oas_json_gen.go:52-144 and 313-435).
DecodeMeetsSchema == meetsSchema(table, doc)

\* What was decoded, encoded and decoded again, is the same, nil and empty
\* details told apart; only the fraction of a second of a time is lost
\* (oas_json_gen.go:22-43 and 281-302).
EncodeIsFaithful == isFaithful(table, doc)
=============================================================================
