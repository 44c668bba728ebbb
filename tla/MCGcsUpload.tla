---------------------------- MODULE MCGcsUpload ----------------------------
(***************************************************************************)
(* GcsUpload for TLC: three names of which two are stored as one object,   *)
(* a good file of each type and one that is longer than it declares.          *)
(***************************************************************************)
EXTENDS GcsUploadRefinement

CONSTANTS r1, r2

MCAllowed == {"a", "b", "_", "csv", "CSV", "xlsx", "XLSX"}

\* "a b.csv" and "a_b.csv" are one object, "b.xlsx" is another.
MCNames == {<<"a", " ", "b", ".", "csv">>, <<"a", "_", "b", ".", "csv">>,
            <<"b", ".", "xlsx">>}

TextSniff == [mime |-> "text/plain", zipMagic |-> FALSE, firstRecord |-> "ok"]
ZipSniff == [mime |-> "application/zip", zipMagic |-> TRUE, firstRecord |-> "ok"]

AFile(declared, len, sniff) ==
  [nil |-> FALSE, declared |-> declared, len |-> len, readErr |-> FALSE,
   sniff |-> sniff]

MCFiles == {AFile(2, 2, TextSniff), AFile(1, 1, ZipSniff), AFile(1, 3, TextSniff)}
=============================================================================
