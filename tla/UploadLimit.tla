---------------------------- MODULE UploadLimit ----------------------------
(***************************************************************************)
(* The size limit of an upload, from the setting FILE_UPLOAD_LIMIT (in     *)
(* megabytes, cmd/server/server.go) to the number of bytes                 *)
(* readFileWithLimit lets through (internal/gcs/gcs.go).                   *)
(*                                                                         *)
(* int and int64 are words that wrap around; a word holds                  *)
(* -Half .. Half - 1.  In the program Half = 2^63 and Kilo = 1024.         *)
(***************************************************************************)
EXTENDS Integers

CONSTANTS
  Half,
  Kilo

\* 2^63 is a multiple of 1024 * 1024 and much larger than 10MB.
WordAssumption ==
  /\ Kilo \in Nat \ {0, 1}
  /\ Half \in Nat
  /\ \E m \in 11 .. Half : Half = m * (Kilo * Kilo)

ASSUME WordsHoldTheDefault == WordAssumption

Word == -Half .. Half - 1

\* What a word keeps of the integer x.
wrap(x) == ((x + Half) % (2 * Half)) - Half

\* 10 * 1024 * 1024, a constant expression.
defaultMaxUploadSizeBytes == 10 * (Kilo * Kilo)

\* Mutant: the setting is taken for kilobytes.
kilobytes(FileUploadLimit) == wrap(FileUploadLimit * Kilo)

\* int64(cfg.FileUploadLimit) * 1024 * 1024: each product wraps.
maxUploadSizeBytes(FileUploadLimit) == wrap(wrap(FileUploadLimit * Kilo) * Kilo)

\* Mutant: zero counts as set.
maxUploadSizeOrZero(MaxUploadSizeBytes) ==
  IF MaxUploadSizeBytes >= 0 THEN MaxUploadSizeBytes ELSE defaultMaxUploadSizeBytes

\* GcsConfig.maxUploadSize.
maxUploadSize(MaxUploadSizeBytes) ==
  IF MaxUploadSizeBytes > 0 THEN MaxUploadSizeBytes ELSE defaultMaxUploadSizeBytes

\* The limit an upload meets.
limit(FileUploadLimit) == maxUploadSize(maxUploadSizeBytes(FileUploadLimit))

\* How much readFileWithLimit reads at most: io.LimitReader's maxSize + 1.
readLimit(FileUploadLimit) == wrap(limit(FileUploadLimit) + 1)

(***************************************************************************)
(* Properties of a setting.                                                *)
(***************************************************************************)

\* Whatever the setting is, also one that overflows, zero or negative, files of
\* some size pass and maxSize + 1 is one more than the limit: a reader limited
\* to a wrapped, negative number of bytes would find every file empty.
usable(FileUploadLimit) ==
  /\ limit(FileUploadLimit) \in Word
  /\ limit(FileUploadLimit) > 0
  /\ readLimit(FileUploadLimit) = limit(FileUploadLimit) + 1

\* A setting that fits is the limit, to the byte.  One that overflows never
\* becomes a limit above what was asked for; it may become a much lower one.
honoured(FileUploadLimit) ==
  FileUploadLimit > 0 =>
    LET asked == FileUploadLimit * (Kilo * Kilo)
    IN  /\ limit(FileUploadLimit) <= asked
        /\ asked < Half => limit(FileUploadLimit) = asked

(***************************************************************************)
(* The process reads its setting once and never changes it.                *)
(***************************************************************************)
VARIABLE setting   \* FILE_UPLOAD_LIMIT, an int

\* Every setting leaves a limit that lets files through and whose successor,
\* which readFileWithLimit reads up to, does not wrap (server.go:90, gcs.go:115).
LimitIsUsable == usable(setting)

\* The limit is the one asked for if it fits a word, and never a laxer one
\* (server.go:90, gcs.go:51-56).
LimitIsHonoured == honoured(setting)
============================================================================
