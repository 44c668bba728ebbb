------------------------------ MODULE CsvSniff ------------------------------
(***************************************************************************)
(* What detectContentType and looksLikeCSV (internal/gcs/gcs.go) learn     *)
(* about a payload from its first bytes: the record "sniff" of             *)
(* UploadValidation, computed from the payload.                            *)
(*                                                                         *)
(* A payload is a sequence of characters: the four first bytes of a zip    *)
(* file count as the character ZipMagic; quote, comma and line end matter to    *)
(* csv; any other character is plain.  http.DetectContentType and          *)
(* encoding/csv are external, modelled by what the code asks of them.      *)
(***************************************************************************)
EXTENDS UploadValidation, SequencesExt

CONSTANT Window   \* how much of the payload is looked at: 512 bytes

ASSUME WindowAssumption == Window \in Nat \ {0}

ZipMagic == "PK"
Quote == "\""
Comma == ","
LineEnd == "\n"

\* Mutant: one character too many is kept.
firstOneMore(payload) ==
  IF Len(payload) > Window THEN SubSeq(payload, 1, Window + 1) ELSE payload

first(payload) == IF Len(payload) > Window THEN SubSeq(payload, 1, Window) ELSE payload

\* Of the types http.DetectContentType knows the code asks for two; JSON is
\* not among those it knows.
DetectContentType(text) ==
  IF text # << >> /\ text[1] = ZipMagic THEN "application/zip" ELSE "text/plain"

(***************************************************************************)
(* The first csv record, read character by character.  at: "blank" before  *)
(* the record, "field" at the start of a field, "plain" in one, "quoted"   *)
(* inside quotes, "quote" after a quote in them, "end" after the record,   *)
(* "error".                                                                *)
(***************************************************************************)
\* Mutant: a quote inside a plain field is let pass (LazyQuotes).
readLazily(at, ch) ==
  IF at \in {"end", "error"} THEN at
  ELSE IF at = "quoted" THEN (IF ch = Quote THEN "quote" ELSE "quoted")
  ELSE IF ch = Comma THEN "field"
  ELSE IF ch = LineEnd THEN (IF at = "blank" THEN "blank" ELSE "end")
  ELSE IF ch = Quote THEN (IF at = "plain" THEN "plain" ELSE "quoted")
  ELSE IF at = "quote" THEN "error" ELSE "plain"

read(at, ch) ==
  IF at \in {"end", "error"} THEN at
  ELSE IF at = "quoted" THEN (IF ch = Quote THEN "quote" ELSE "quoted")
  ELSE IF ch = Comma THEN "field"
  ELSE IF ch = LineEnd THEN (IF at = "blank" THEN "blank" ELSE "end")
  ELSE IF ch = Quote THEN (IF at = "plain" THEN "error" ELSE "quoted")
  ELSE IF at = "quote" THEN "error" ELSE "plain"

\* csv.Reader.Read: no record at all is io.EOF, an open quote is an error.
firstRecord(text) ==
  LET at == FoldLeft(read, "blank", text)
  IN  IF at = "blank" THEN "EOF"
      ELSE IF at \in {"quoted", "error"} THEN "error" ELSE "ok"

\* What the checks of UploadValidation see of a payload.
sniffed(payload) ==
  [mime |-> DetectContentType(first(payload)),
   zipMagic |-> first(payload) # << >> /\ first(payload)[1] = ZipMagic,
   firstRecord |-> firstRecord(first(payload))]
=============================================================================
