-------------------------- MODULE MCUploadService --------------------------
(***************************************************************************)
(* UploadService for TLC: a file that is stored and one that is refused,   *)
(* right and wrong credentials, a form that is spilled to disk.            *)
(***************************************************************************)
EXTENDS UploadService

CONSTANT r1

MCAllowed == {"a", "_", "csv", "CSV", "xlsx", "XLSX"}
MCNames == {<<"a", Dot, "csv">>}

aFile(len) ==
  [nil |-> FALSE, declared |-> len, len |-> len, readErr |-> FALSE,
   sniff |-> [mime |-> "text/plain", zipMagic |-> FALSE, firstRecord |-> "ok"]]
MCFiles == {aFile(1), aFile(0)}

aRequest(authorization, form, spilled) ==
  [path |-> "/upload", method |-> "POST", authorization |-> <<authorization>>,
   form |-> form, spilled |-> spilled]
MCHttpRequests ==
  {aRequest("right", "file", TRUE), aRequest("wrong", "file", TRUE),
   aRequest("right", "noFile", FALSE)}
=============================================================================
