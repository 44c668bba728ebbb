---------------------------- MODULE FormDecoding ----------------------------
(***************************************************************************)
(* The form of one upload request, from decodeUploadFileRequest            *)
(* (oas_request_decoders_gen.go) to the close() its handler defers: the    *)
(* temporary files the parts are spilled to, the one file that is opened,  *)
(* and the closers that give both back.                                    *)
(*                                                                         *)
(* mime/multipart is external: it keeps a part in memory or in a temporary *)
(* file, and removes the files itself if the form cannot be read.          *)
(***************************************************************************)
EXTENDS Integers, Sequences, SequencesExt

CONSTANT Bodies   \* the requests' bodies

\* A body has a media type ("" if it does not parse), a length, and the parts
\* that are files, of a form that may break off after them.
AllBodies ==
  [media : {"", "multipart/form-data", "text/csv"}, empty : BOOLEAN,
   parts : Seq([name : {"file", "other"}, spilled : BOOLEAN]), whole : BOOLEAN]

ASSUME BodiesAssumption == Bodies \subseteq AllBodies

VARIABLES
  body,
  stage,    \* "begin", "parse", "open", "upload", "closing", "over"
  parsed,   \* how many parts ReadForm has read
  disk,     \* the parts with a temporary file
  handle,   \* the part whose file is open: {} or {i}
  request,  \* the part that is decoded into request.File, 0 before
  closers,  \* what close() will run, first to last
  ran,      \* what it has run
  rerr,     \* the error of decoding
  merr      \* how many closers failed

vars == <<body, stage, parsed, disk, handle, request, closers, ran, rerr, merr>>

Init ==
  /\ body \in Bodies
  /\ stage = "begin"
  /\ parsed = 0
  /\ disk = {}
  /\ handle = {}
  /\ request = 0
  /\ closers = << >>
  /\ ran = << >>
  /\ rerr = "nil"
  /\ merr = 0

\* A return with an error runs the deferred close().
fail(e) == rerr' = e /\ stage' = "closing"

\* The checks before the form is read.
CheckBody ==
  /\ stage = "begin"
  /\ CASE body.media = ""         -> fail("parse media type")
       [] body.media = "text/csv" -> fail("invalid content type")
       [] OTHER -> IF body.empty THEN fail("body required")
                   ELSE stage' = "parse" /\ UNCHANGED rerr
  /\ UNCHANGED <<body, parsed, disk, handle, request, closers, ran, merr>>

\* ParseMultipartForm reads the next part.
ReadPart ==
  /\ stage = "parse" /\ parsed < Len(body.parts)
  /\ parsed' = parsed + 1
  /\ disk' = IF body.parts[parsed'].spilled THEN disk \cup {parsed'} ELSE disk
  /\ UNCHANGED <<body, stage, handle, request, closers, ran, rerr, merr>>

\* It fails: the form or the connection broke off, or the disk is full.  What
\* it wrote it tries to remove, without a word if it cannot.
ParseFails ==
  /\ stage = "parse"
  /\ disk' \in SUBSET disk
  /\ fail("parse multipart form")
  /\ UNCHANGED <<body, parsed, handle, request, closers, ran, merr>>

\* It succeeds, and RemoveAll is the first closer.
Parse ==
  /\ stage = "parse" /\ parsed = Len(body.parts) /\ body.whole
  /\ closers' = Append(closers, "RemoveAll")
  /\ stage' = "open"
  /\ UNCHANGED <<body, parsed, disk, handle, request, ran, rerr, merr>>

Named(name) == {i \in DOMAIN body.parts : body.parts[i].name = name}

\* Mutant: the first file of the form is taken, whatever it is called.
fileOfAnyName == IF body.parts = << >> THEN 0 ELSE 1

\* files[0], 0 if there is none.
file == IF Named("file") = {} THEN 0 ELSE CHOOSE i \in Named("file") : \A j \in Named("file") : i <= j

\* A part in memory can always be opened.
OpenFile ==
  /\ stage = "open"
  /\ \/ /\ file # 0
        /\ handle' = {file}
        /\ closers' = Append(closers, "Close")
        /\ request' = file
        /\ stage' = "upload"
        /\ UNCHANGED rerr
     \/ /\ file # 0 /\ body.parts[file].spilled
        /\ fail("open")
        /\ UNCHANGED <<handle, closers, request>>
     \/ /\ file = 0
        /\ fail("field required")
        /\ UNCHANGED <<handle, closers, request>>
  /\ UNCHANGED <<body, parsed, disk, ran, merr>>

\* UploadFile reads the file and the answer is encoded; then close() is run.
UploadFile ==
  /\ stage = "upload"
  /\ stage' = "closing"
  /\ UNCHANGED <<body, parsed, disk, handle, request, closers, ran, rerr, merr>>

\* The loop of close() runs last to first.
next == closers[Len(closers) - Len(ran)]

\* Mutant: close() stops at the first error.
CloseUntilError ==
  /\ stage = "closing" /\ Len(ran) < Len(closers) /\ merr = 0
  /\ ran' = Append(ran, next)
  /\ \/ /\ next = "RemoveAll"
        /\ disk' \in SUBSET disk
        /\ merr' = IF disk' = {} THEN merr ELSE merr + 1
        /\ UNCHANGED handle
     \/ /\ next = "Close"
        /\ handle' = {}
        /\ merr' \in IF body.parts[request].spilled THEN {merr, merr + 1} ELSE {merr}
        /\ UNCHANGED disk
  /\ UNCHANGED <<body, stage, parsed, request, closers, rerr>>

\* One closer.  RemoveAll goes on after a file it cannot remove; Close gives
\* the descriptor back even if it reports an error, and has none to report for a
\* file in memory.
Close ==
  /\ stage = "closing" /\ Len(ran) < Len(closers)
  /\ ran' = Append(ran, next)
  /\ \/ /\ next = "RemoveAll"
        /\ disk' \in SUBSET disk
        /\ merr' = IF disk' = {} THEN merr ELSE merr + 1
        /\ UNCHANGED handle
     \/ /\ next = "Close"
        /\ handle' = {}
        /\ merr' \in IF body.parts[request].spilled THEN {merr, merr + 1} ELSE {merr}
        /\ UNCHANGED disk
  /\ UNCHANGED <<body, stage, parsed, request, closers, rerr>>

Closed ==
  /\ stage = "closing" /\ Len(ran) = Len(closers)
  /\ stage' = "over"
  /\ UNCHANGED <<body, parsed, disk, handle, request, closers, ran, rerr, merr>>

Next ==
  \/ CheckBody \/ ReadPart \/ ParseFails \/ Parse \/ OpenFile \/ UploadFile \/ Close \/ Closed

\* The goroutine runs on.
Spec == Init /\ [][Next]_vars /\ WF_vars(Next)

(***************************************************************************)
(* Properties.                                                             *)
(***************************************************************************)

\* The file that is uploaded is one the client sent under the name "file", and
\* all the while it is open and its temporary file in its place; a form is only
\* said to lack a file if it has none of that name.  Of several such files this
\* does not say which is right (see EveryFileIsUploaded).
UploadReadsAFileOfTheForm ==
  /\ stage = "upload" =>
       /\ request \in Named("file") /\ handle = {request}
       /\ body.parts[request].spilled => request \in disk
  /\ rerr = "field required" => Named("file") = {}

\* A request that is let through has all its files uploaded.  Violated: the
\* first one is taken and the others are removed with the form, which a comment
\* knows of (handlers/fileupload.go:39, "TODO: bug when multiple files are
\* uploaded").
EveryFileIsUploaded ==
  stage = "over" /\ rerr = "nil" => Named("file") \subseteq {request}

\* What holds of the files at any time: no file is removed while it is open,
\* "any opened file will be closed before RemoveAll call" (line 52); and when the
\* request is over, every closer that was registered has been run, even if
\* another failed, no file is open, and no temporary file of any part, uploaded
\* or not, is left without an error that says so.
GivenBack ==
  /\ \A i \in handle : body.parts[i].spilled => i \in disk
  /\ stage = "over" =>
       /\ handle = {} /\ ToSet(ran) = ToSet(closers)
       /\ disk # {} => rerr = "parse multipart form" \/ merr > 0

\* Whichever way decoding goes, the request comes to its end, and all is given
\* back by then.
FilesGivenBack == []GivenBack /\ <>(stage = "over")

(***************************************************************************)
(* The inductive invariant behind the safety properties.                   *)
(***************************************************************************)
spilledParts == {i \in DOMAIN body.parts : body.parts[i].spilled}

\* What was decoded, opened and registered so far, and what close() has run.
StageInv ==
  /\ stage \in {"begin", "parse", "open", "upload", "closing", "over"}
  /\ stage \in {"begin", "parse", "open"} => handle = {} /\ request = 0
  /\ stage \in {"begin", "parse"} => closers = << >> /\ ran = << >>
  /\ stage = "open" => closers = <<"RemoveAll">> /\ ran = << >>
  /\ stage = "upload" => closers = <<"RemoveAll", "Close">> /\ ran = << >> /\ request # 0
  /\ stage \in {"closing", "over"} =>
       \/ closers = << >> /\ ran = << >>
       \/ closers = <<"RemoveAll">> /\ ran \in {<< >>, <<"RemoveAll">>}
       \/ /\ closers = <<"RemoveAll", "Close">>
          /\ ran \in {<< >>, <<"Close">>, <<"Close", "RemoveAll">>}
  /\ stage = "over" => Len(ran) = Len(closers)
  /\ request \in {0, file}
  /\ rerr = "field required" => file = 0

\* The files there are: those of the parts read so far, until RemoveAll has run
\* or ReadForm has seen to them.
DiskInv ==
  /\ parsed \in 0 .. Len(body.parts) /\ merr \in Nat
  /\ stage = "begin" => disk = {} /\ parsed = 0
  /\ stage = "parse" => disk = spilledParts \cap (1 .. parsed)
  /\ stage \in {"open", "upload"} => disk = spilledParts
  /\ stage = "upload" \/ (closers = <<"RemoveAll", "Close">> /\ ran = << >>) =>
       handle = {request} /\ request # 0 /\ disk = spilledParts
  /\ closers # <<"RemoveAll", "Close">> \/ ran # << >> => handle = {}
  /\ stage \in {"closing", "over"} /\ Len(ran) = Len(closers) /\ disk # {} =>
       rerr = "parse multipart form" \/ merr > 0

IInv == body \in Bodies /\ StageInv /\ DiskInv
=============================================================================
