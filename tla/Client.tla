------------------------------- MODULE Client -------------------------------
(***************************************************************************)
(* The generated client: sendUploadFile (oas_client_gen.go), the client    *)
(* side of securityBasicAuth, and decodeUploadFileResponse                 *)
(* (oas_response_decoders_gen.go), called by several goroutines.           *)
(*                                                                         *)
(* net/http's Client.Do is external: it may fail at any time, also after   *)
(* the request was served, and returns whatever answer comes back.  The    *)
(* client it is given has no timeout (NewTracingClient).                   *)
(***************************************************************************)
EXTENDS JsonFields, FiniteSets

CONSTANTS
  Calls,     \* the calls of UploadFile, each made at most once
  Sources,   \* what SecuritySource.BasicAuth may give
  Answers    \* the HTTP answers that may come back

\* Credentials, which the server may accept or not; the source may also ask to
\* skip the requirement or fail.  BasicAuthProvider always gives credentials.
AllSources == {"right", "wrong", "skip", "error"}

ASSUME SourcesAssumption == Sources \subseteq AllSources

ASSUME CallsAssumption == IsFiniteSet(Calls)

\* The members of a body come one after the other.
ASSUME AnswersAssumption ==
  \A a \in Answers : Len(a.members) \in Nat /\ DOMAIN a.members = 1 .. Len(a.members)

VARIABLES
  source,    \* what the call's SecuritySource gives
  stage,     \* sendUploadFile's stage, "" before it, "returned" after it
  sent,      \* the Authorization header of the request that was sent, if any
  resp,      \* the answer: {} before Do has returned one, then {answer}
  respBody,  \* "none", "open", "closed"
  res,       \* the type of the result; "nil" if there is none
  err,       \* the error
  span,      \* the status of the call's span; "none" before it is started
  requests,  \* c.requests
  errors     \* c.errors

vars == <<source, stage, sent, resp, respBody, res, err, span, requests, errors>>

Init ==
  /\ source \in [Calls -> Sources]
  /\ stage = [c \in Calls |-> ""]
  /\ sent = [c \in Calls |-> "none"]
  /\ resp = [c \in Calls |-> {}]
  /\ respBody = [c \in Calls |-> "none"]
  /\ res = [c \in Calls |-> "nil"]
  /\ err = [c \in Calls |-> "nil"]
  /\ span = [c \in Calls |-> "none"]
  /\ requests = 0
  /\ errors = 0

(***************************************************************************)
(* decodeUploadFileResponse.  An answer has a status, the media type of    *)
(* its Content-Type ("" if there is none that parses), the members of the  *)
(* JSON object in its body, whether more follows the object, and whether   *)
(* the body can be read to its end.                                        *)
(***************************************************************************)
\* The type the status is decoded into.
resultOf(status) ==
  CASE status = 200 -> "UploadResponseHeaders"
    [] status = 400 -> "UploadFileBadRequest"
    [] status = 401 -> "UploadFileUnauthorized"
    [] status = 500 -> "UploadFileInternalServerError"
    [] OTHER        -> "ErrorStatusCodeWithHeaders"

typeOf(status) == IF status = 200 THEN UploadResponseType ELSE ErrorType

\* Mutant: what follows the object is not looked at.
bodyErrorLax(a) ==
  CASE a.contentType = "" -> "parse media type"
    [] a.contentType \notin {"", "application/json"} -> "unexpected Content-Type"
    [] a.contentType = "application/json" /\ ~a.whole -> "read body"
    [] OTHER -> IF Decode(typeOf(a.status), a.members).err # "nil" THEN "decode body" ELSE "nil"

\* Why the body cannot be had, the same for every status.
bodyError(a) ==
  CASE a.contentType = "" -> "parse media type"
    [] a.contentType \notin {"", "application/json"} -> "unexpected Content-Type"
    [] a.contentType = "application/json" /\ ~a.whole -> "read body"
    [] OTHER -> IF Decode(typeOf(a.status), a.members).err # "nil" \/ a.trailing
                THEN "decode body" ELSE "nil"

\* A status the API description names becomes a result, any other the error.
decodeUploadFileResponse(a) ==
  IF bodyError(a) # "nil" THEN [res |-> "nil", err |-> bodyError(a)]
  ELSE IF a.status \in {200, 400, 401, 500} THEN [res |-> resultOf(a.status), err |-> "nil"]
  ELSE [res |-> "nil", err |-> resultOf(a.status)]

(***************************************************************************)
(* sendUploadFile.                                                         *)
(***************************************************************************)
goto(c, s) == stage' = [stage EXCEPT ![c] = s]

\* Mutant: the body is closed only when it was decoded.
returnLeaking(c, result, e) ==
  /\ goto(c, "returned")
  /\ res' = [res EXCEPT ![c] = result]
  /\ err' = [err EXCEPT ![c] = e]
  /\ respBody' = [respBody EXCEPT ![c] = IF @ = "open" /\ e = "nil" THEN "closed" ELSE @]
  /\ span' = [span EXCEPT ![c] = IF e = "nil" THEN @ ELSE "Error"]
  /\ errors' = IF e = "nil" THEN errors ELSE errors + 1

\* A return with its deferred functions: the body, if there is one, is closed,
\* and an error is recorded in the span and counted.
return(c, result, e) ==
  /\ goto(c, "returned")
  /\ res' = [res EXCEPT ![c] = result]
  /\ err' = [err EXCEPT ![c] = e]
  /\ respBody' = [respBody EXCEPT ![c] = IF @ = "open" THEN "closed" ELSE @]
  /\ span' = [span EXCEPT ![c] = IF e = "nil" THEN @ ELSE "Error"]
  /\ errors' = IF e = "nil" THEN errors ELSE errors + 1

\* The request is counted and its span started; then the URL is built, and the
\* request, which fails for a URL that cannot be read back.
Begin(c) ==
  /\ stage[c] = ""
  /\ requests' = requests + 1
  /\ \/ /\ goto(c, "Security:BasicAuth")
        /\ span' = [span EXCEPT ![c] = "Unset"]
        /\ UNCHANGED <<respBody, res, err, errors>>
     \/ /\ goto(c, "returned")
        /\ err' = [err EXCEPT ![c] = "create request"]
        /\ span' = [span EXCEPT ![c] = "Error"]
        /\ errors' = errors + 1
        /\ UNCHANGED <<respBody, res>>
  /\ UNCHANGED <<source, sent, resp>>

\* Mutant: a requirement that is skipped counts as satisfied.
SecuritySkippable(c) ==
  /\ stage[c] = "Security:BasicAuth"
  /\ IF source[c] = "error"
     THEN return(c, "nil", "security \"BasicAuth\"") /\ UNCHANGED sent
     ELSE /\ sent' = [sent EXCEPT ![c] = source[c]]
          /\ goto(c, "SendRequest")
          /\ UNCHANGED <<respBody, res, err, span, errors>>
  /\ UNCHANGED <<source, resp, requests>>

\* The credentials are put on the request, and it is sent.  A requirement that
\* is skipped is not satisfied, and there is no other.
Security(c) ==
  /\ stage[c] = "Security:BasicAuth"
  /\ CASE source[c] = "error" ->
            return(c, "nil", "security \"BasicAuth\"") /\ UNCHANGED sent
       [] source[c] = "skip" ->
            return(c, "nil", "ErrSecurityRequirementIsNotSatisfied") /\ UNCHANGED sent
       [] OTHER ->
            /\ sent' = [sent EXCEPT ![c] = source[c]]
            /\ goto(c, "SendRequest")
            /\ UNCHANGED <<respBody, res, err, span, errors>>
  /\ UNCHANGED <<source, resp, requests>>

\* Do returns an error, whatever became of the request.
DoFails(c) ==
  /\ stage[c] = "SendRequest"
  /\ return(c, "nil", "do request")
  /\ UNCHANGED <<source, sent, resp, requests>>

\* Do returns an answer with a body to be closed.
DoReturns(c, a) ==
  /\ stage[c] = "SendRequest"
  /\ resp' = [resp EXCEPT ![c] = {a}]
  /\ respBody' = [respBody EXCEPT ![c] = "open"]
  /\ goto(c, "DecodeResponse")
  /\ UNCHANGED <<source, sent, res, err, span, requests, errors>>

DecodeResponse(c) ==
  /\ stage[c] = "DecodeResponse"
  /\ \E a \in resp[c] : LET d == decodeUploadFileResponse(a) IN return(c, d.res, d.err)
  /\ UNCHANGED <<source, sent, resp, requests>>

Next ==
  \E c \in Calls :
    \/ Begin(c) \/ Security(c) \/ DecodeResponse(c) \/ DoFails(c)
    \/ \E a \in Answers : DoReturns(c, a)

Spec == Init /\ [][Next]_vars

(***************************************************************************)
(* Properties.                                                             *)
(***************************************************************************)

Stages == {"", "Security:BasicAuth", "SendRequest", "DecodeResponse", "returned"}
Results == {"nil", "UploadResponseHeaders", "UploadFileBadRequest", "UploadFileUnauthorized",
            "UploadFileInternalServerError"}

\* Types, and that credentials are what is sent: a skipped requirement never
\* lets a request out without them.
TypeOK ==
  /\ source \in [Calls -> Sources]
  /\ stage \in [Calls -> Stages]
  /\ sent \in [Calls -> {"none", "right", "wrong"}]
  /\ respBody \in [Calls -> {"none", "open", "closed"}]
  /\ res \in [Calls -> Results]
  /\ span \in [Calls -> {"none", "Unset", "Error"}]
  /\ requests \in 0 .. Cardinality(Calls)
  /\ errors \in 0 .. requests

\* What the deferred functions see to, on whichever path a call returns: no
\* response body stays open, which would keep its connection for ever; there is
\* a result or an error, never both and never neither; and the span and the
\* error counter agree on which calls failed.
ReturnsAreCleanedUp ==
  /\ \A c \in Calls : stage[c] = "returned" =>
       /\ respBody[c] # "open"
       /\ (res[c] = "nil") = (err[c] # "nil")
       /\ (span[c] = "Error") = (err[c] # "nil")
  /\ errors = Cardinality({c \in Calls : err[c] # "nil"})

\* A result is the one its status stands for, read from an object that holds
\* every required field of its type and is all there is in the body.
ResultIsWholeAnswer ==
  \A c \in Calls : stage[c] = "returned" /\ err[c] = "nil" =>
    \E a \in resp[c] :
      /\ res[c] = resultOf(a.status) /\ a.whole /\ ~a.trailing
      /\ \A field \in typeOf(a.status).required :
           \E i \in DOMAIN a.members : a.members[i].key = field

(***************************************************************************)
(* The inductive invariants behind the safety properties.                  *)
(***************************************************************************)
ErrorNames ==
  {"nil", "create request", "security \"BasicAuth\"", "ErrSecurityRequirementIsNotSatisfied",
   "do request", "parse media type", "unexpected Content-Type", "read body", "decode body",
   "ErrorStatusCodeWithHeaders"}

CallTypes ==
  /\ source \in [Calls -> Sources]
  /\ stage \in [Calls -> Stages]
  /\ sent \in [Calls -> {"none", "right", "wrong"}]
  /\ respBody \in [Calls -> {"none", "open", "closed"}]
  /\ res \in [Calls -> Results]
  /\ err \in [Calls -> ErrorNames]
  /\ span \in [Calls -> {"none", "Unset", "Error"}]

\* What a call has in each stage.
CallInv(c) ==
  /\ stage[c] # "returned" =>
       /\ res[c] = "nil" /\ err[c] = "nil"
       /\ span[c] = IF stage[c] = "" THEN "none" ELSE "Unset"
  /\ stage[c] = "returned" =>
       (res[c] = "nil") = (err[c] # "nil") /\ (span[c] = "Error") = (err[c] # "nil")
  /\ stage[c] # "DecodeResponse" => respBody[c] # "open"

begun == {c \in Calls : stage[c] # ""}
failed == {c \in Calls : err[c] # "nil"}

CountInv == requests = Cardinality(begun) /\ errors = Cardinality(failed)

\* A result is read from an answer that came back, without an error.
ResultInv ==
  /\ resp \in [Calls -> SUBSET Answers]
  /\ \A c \in Calls : stage[c] = "returned" /\ err[c] = "nil" =>
       \E a \in resp[c] : bodyError(a) = "nil" /\ res[c] = resultOf(a.status)

IInv == CallTypes /\ (\A c \in Calls : CallInv(c)) /\ CountInv
=============================================================================
