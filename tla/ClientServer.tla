---------------------------- MODULE ClientServer ----------------------------
(***************************************************************************)
(* The generated client against this server: what a caller of UploadFile   *)
(* may conclude from its result about the file and the bucket.             *)
(*                                                                         *)
(* Client is extended; RequestPipeline is instantiated with the client's   *)
(* calls as its requests.  A call's HTTP request exists once it was sent.  *)
(* The answer may be lost after the server sent it, and the client may     *)
(* give up at any time; the server then finds a broken connection, sooner  *)
(* or later or never.                                                      *)
(***************************************************************************)
EXTENDS Client

CONSTANT Paths   \* where "/upload" under the client's base URL may lead

ASSUME PathsAssumption == Paths \subseteq {"/upload", "/other"}

VARIABLES
  http, serverStage, conn, recorder, head, shape, received, serverSpan, deferred, opened,
  stored, serverRequests, serverErrors

serverVars == <<http, serverStage, conn, recorder, head, shape, received, serverSpan,
                deferred, opened, stored, serverRequests, serverErrors>>

\* SetBasicAuth sends one Authorization header, encodeUploadFileRequest one
\* part named "file"; what the client's transport breaks off is the server's
\* broken connection.
httpRequest(path, authorization, spilled) ==
  [path |-> path, method |-> "POST", authorization |-> <<authorization>>, form |-> "file",
   spilled |-> spilled]

HttpRequests ==
  {httpRequest(p, a, b) : p \in Paths, a \in Sources \cap {"right", "wrong"}, b \in BOOLEAN}

Server ==
  INSTANCE RequestPipeline WITH
    Requests <- Calls, stage <- serverStage, body <- shape, span <- serverSpan,
    requests <- serverRequests, errors <- serverErrors

\* The credentials in the request are those of the call's source.
SystemInit ==
  /\ Init
  /\ Server!Init
  /\ \A c \in Calls :
       source[c] \in {"right", "wrong"} => http[c].authorization = <<source[c]>>

\* A body of each shape the server writes.
document(s) ==
  CASE s = "UploadResponse" -> encodeFields(UploadResponseType, UploadResponseType.zero)
    [] s = "Error"          -> encodeFields(ErrorType, ErrorType.zero)
    [] s = "error_message"  -> <<[key |-> "error_message", value |-> Str("")]>>
    [] OTHER                -> << >>

\* The Content-Type written with it.
mediaType(s) ==
  CASE s \in {"UploadResponse", "Error", "error_message"} -> "application/json"
    [] s = "empty" -> ""
    [] OTHER -> "text/plain"

\* The server's answer as the client reads it; the connection may break while
\* its body is read.
answer(c, whole) ==
  [status |-> received[c], contentType |-> mediaType(shape[c]),
   members |-> document(shape[c]), trailing |-> FALSE, whole |-> whole]

\* Do ends with the server's answer, if there is one and it arrives.
Do(c) ==
  /\ \/ DoFails(c)
     \/ /\ serverStage[c] = "over" /\ received[c] # 0
        /\ \E whole \in BOOLEAN : DoReturns(c, answer(c, whole))
  /\ UNCHANGED serverVars

Run(c) ==
  /\ Begin(c) \/ Security(c) \/ DecodeResponse(c)
  /\ UNCHANGED serverVars

ServerStep(c) ==
  /\ sent[c] # "none"
  /\ Server!Step(c) \/ Server!Break(c)
  /\ UNCHANGED vars

SystemNext == \E c \in Calls : Run(c) \/ Do(c) \/ ServerStep(c)

systemVars == <<vars, serverVars>>

\* Goroutines that can run do, on both sides; Do has to end only once the server
\* is done with the request, since the client has no timeout of its own.
SystemFairness ==
  \A c \in Calls :
    /\ WF_systemVars(stage[c] # "" /\ Run(c))
    /\ WF_systemVars(serverStage[c] = "over" /\ Do(c))
    /\ WF_systemVars(sent[c] # "none" /\ Server!Step(c) /\ UNCHANGED vars)

SystemSpec == SystemInit /\ [][SystemNext]_systemVars /\ SystemFairness

(***************************************************************************)
(* Properties.                                                             *)
(***************************************************************************)

\* What a caller may conclude: an upload response means that the file was
\* stored; a bad-request or unauthorized result that it was not and never will
\* be, and so does every error of a call whose request was not sent.  An error
\* of Do, of reading or of decoding, and a result 500, leave it open.
ResultTellsTruth ==
  \A c \in Calls : stage[c] = "returned" =>
    /\ res[c] = "UploadResponseHeaders" => c \in stored
    /\ res[c] \in {"UploadFileBadRequest", "UploadFileUnauthorized"} => c \notin stored
    /\ sent[c] = "none" => c \notin stored

\* An answer that the server sent and that arrived whole is understood, unless
\* it is not the operation's: an error only for an unknown path, or where the
\* ErrorHandler answered in NewError's place.
WholeAnswersAreUnderstood ==
  \A c \in Calls : \A a \in resp[c] :
    stage[c] = "returned" /\ a.whole /\ err[c] # "nil" =>
      \/ http[c].path # "/upload"
      \/ shape[c] = "error_message" /\ err[c] = "decode body"

\* A call that has begun returns, although the client has no timeout: the
\* server always ends a request, with or without an answer.
EveryUploadFileReturns == \A c \in Calls : stage[c] # "" ~> stage[c] = "returned"

(***************************************************************************)
(* The invariant that joins the two sides.                                 *)
(***************************************************************************)

\* An answer is the one the server ended the request with, and a result is
\* that of an answer; the server has seen nothing of what was not sent.
LinkInv ==
  /\ DOMAIN resp = Calls
  /\ \A c \in Calls :
       /\ sent[c] = "none" => c \notin stored
       /\ \A a \in resp[c] : serverStage[c] = "over" /\ received[c] = a.status
       /\ res[c] # "nil" =>
            \E a \in resp[c] : a.status \in {200, 400, 401, 500} /\ res[c] = resultOf(a.status)

\* An answer is read once, when the server has ended its request with it, and
\* the error a call returns then is that of the answer.
AnswersInv ==
  /\ DOMAIN resp = Calls
  /\ \A c \in Calls :
       /\ resp[c] # {} =>
            /\ serverStage[c] = "over" /\ received[c] # 0
            /\ \E whole \in BOOLEAN : resp[c] = {answer(c, whole)}
       /\ stage[c] \notin {"DecodeResponse", "returned"} => resp[c] = {}
       /\ stage[c] = "returned" =>
            \A a \in resp[c] : err[c] = decodeUploadFileResponse(a).err
=============================================================================
