------------------------- MODULE UploadValidation -------------------------
(***************************************************************************)
(* The checks an upload passes before anything is sent to Cloud Storage    *)
(* (internal/gcs/gcs.go): sanitizeFilename, readFileWithLimit,             *)
(* detectContentType and the order UploadToGcs runs them in.               *)
(*                                                                         *)
(* A file name is a sequence of fragments: "." is a dot, a fragment of     *)
(* AllowedTokens is a run of characters sanitizeFilename keeps, any other  *)
(* fragment is one character it replaces.  A file is a record:             *)
(*   nil       the reader is nil,                                          *)
(*   declared  MultipartFile.Size,                                         *)
(*   len       how many bytes the reader delivers,                         *)
(*   readErr   whether it then fails instead of reporting end of file,     *)
(*   sniff     what the code asks of the first 512 bytes.                  *)
(***************************************************************************)
EXTENDS Integers, Sequences

CONSTANT AllowedTokens

\* Letters are kept, and so is what they spell.
ASSUME AllowedAssumption ==
  {"_", "csv", "CSV", "xlsx", "XLSX"} \subseteq AllowedTokens /\ "." \notin AllowedTokens

Dot == "."

\* strings.ReplaceAll(name, "..", ""): left to right, without overlaps.
withoutDotPairs(name) ==
  LET rest[i \in 1 .. Len(name) + 1] ==
        IF i > Len(name) THEN << >>
        ELSE IF i < Len(name) /\ name[i] = Dot /\ name[i + 1] = Dot
        THEN rest[i + 2]
        ELSE <<name[i]>> \o rest[i + 1]
  IN  rest[1]

\* Mutant: the dot pairs stay.
sanitizeCharactersOnly(name) ==
  [i \in 1 .. Len(name) |->
     IF name[i] \in AllowedTokens \cup {Dot} THEN name[i] ELSE "_"]

\* The character map, after the dot pairs are gone.  The closing TrimSpace
\* finds nothing to trim: a space has become "_".
sanitizeFilename(name) ==
  LET kept == withoutDotPairs(name)
  IN  [i \in 1 .. Len(kept) |->
         IF kept[i] \in AllowedTokens \cup {Dot} THEN kept[i] ELSE "_"]

\* strings.ToLower on the fragments that matter.
lower(token) ==
  IF token = "CSV" THEN "csv" ELSE IF token = "XLSX" THEN "xlsx" ELSE token

\* filepath.Ext without its dot; << >> when there is no dot or it is last.
extension(name) ==
  LET dots == {i \in 1 .. Len(name) : name[i] = Dot}
      last == CHOOSE i \in dots : \A j \in dots : j <= i
  IN  IF dots = {} THEN << >>
      ELSE [i \in 1 .. Len(name) - last |-> lower(name[last + i])]

Errors == {"ErrInvalidFile", "ErrFileTooLarge", "ErrInvalidFileType"}

\* Mutant: the reader is limited to maxSize, which cuts off what is too long.
truncatedRead(file, maxSize) == IF file.len <= maxSize THEN file.len ELSE maxSize

\* io.ReadAll(io.LimitReader(reader, maxSize+1)): how many bytes come back,
\* and whether the reader's own error is met before the limit cuts it off.
bytesRead(file, maxSize) == IF file.len <= maxSize THEN file.len ELSE maxSize + 1
readFails(file, maxSize) == file.readErr /\ file.len <= maxSize

\* The error of readFileWithLimit, "nil" when there is none.
readFileWithLimit(file, maxSize) ==
  IF file.nil THEN "ErrInvalidFile"
  ELSE IF file.declared > maxSize THEN "ErrFileTooLarge"
  ELSE IF readFails(file, maxSize) THEN "ErrInvalidFile"
  ELSE IF bytesRead(file, maxSize) > maxSize THEN "ErrFileTooLarge"
  ELSE IF bytesRead(file, maxSize) = 0 THEN "ErrInvalidFile"
  ELSE "nil"

looksLikeCSV(sniff) ==
  /\ sniff.mime \notin {"application/json", "application/zip"}
  /\ sniff.firstRecord \in {"ok", "EOF"}

ContentTypes == {"text/csv", "xlsx"}

\* The content type of an accepted file, or the error.
detectContentType(name, sniff) ==
  CASE extension(name) = <<"csv">> /\ looksLikeCSV(sniff) -> "text/csv"
    [] extension(name) = <<"xlsx">> /\ sniff.zipMagic -> "xlsx"
    [] OTHER -> "ErrInvalidFileType"

\* The first error UploadToGcs returns before it contacts Cloud Storage.
validationError(name, file, maxSize) ==
  LET object == sanitizeFilename(name)
      unread == readFileWithLimit(file, maxSize)
      type   == detectContentType(object, file.sniff)
  IN  IF object = << >> THEN "ErrInvalidFile"
      ELSE IF unread # "nil" THEN unread
      ELSE IF type \in ContentTypes THEN "nil" ELSE type
===========================================================================
