--------------------------- MODULE MCFormDecoding ---------------------------
(***************************************************************************)
(* FormDecoding for TLC: forms of up to MaxParts files.                    *)
(***************************************************************************)
EXTENDS FormDecoding

CONSTANT MaxParts

Parts == [name : {"file", "other"}, spilled : BOOLEAN]

MCBodies ==
  [media : {"multipart/form-data"}, empty : {FALSE},
   parts : UNION {[1 .. n -> Parts] : n \in 0 .. MaxParts}, whole : BOOLEAN]
  \cup [media : {"", "multipart/form-data", "text/csv"}, empty : {TRUE}, parts : {<< >>},
        whole : {TRUE}]
=============================================================================
