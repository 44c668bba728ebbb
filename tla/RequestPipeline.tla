-------------------------- MODULE RequestPipeline --------------------------
(***************************************************************************)
(* One HTTP request through the server (internal/fileupload and            *)
(* internal/handlers): routing, authentication, decoding the form, the     *)
(* call of UploadFile, encoding its answer, the deferred functions, and    *)
(* what net/http then sends.                                               *)
(*                                                                         *)
(* The upload itself is one step here, with the outcomes GcsUpload gives   *)
(* it.  net/http is external: it buffers the answer, sends it when the     *)
(* handler has returned, keeps the first status it is given, and a write   *)
(* can only fail once the connection is broken (the client went away, or   *)
(* ReadTimeout or WriteTimeout of the server passed).                      *)
(***************************************************************************)
EXTENDS Integers, Sequences, FiniteSets

CONSTANTS
  Requests,
  HttpRequests   \* the HTTP requests clients may send

\* The values an Authorization header may have: "Basic" with credentials that
\* match or do not, "Basic" with something else, another scheme.
Authorizations == {"right", "wrong", "garbled", "Bearer"}

Forms == {"badMediaType", "notMultipart", "noBody", "malformed", "noFile", "file"}

\* authorization: the values of the header, in order.  spilled: the form does
\* not fit in MaxMultipartMemory and is kept in a temporary file.
AllHttpRequests ==
  [path : {"/upload", "/other"}, method : {"POST", "OPTIONS", "GET"},
   authorization : Seq(Authorizations), form : Forms, spilled : BOOLEAN]

ASSUME RequestsAssumption == IsFiniteSet(Requests)

ASSUME HttpRequestsAssumption == HttpRequests \subseteq AllHttpRequests

VARIABLES
  http,      \* the request: path, method, credentials and form
  stage,     \* how far its goroutine is
  conn,      \* whether the connection still works
  recorder,  \* codeRecorder.status, 0 before WriteHeader
  head,      \* the status net/http holds for the client, 0 before WriteHeader
  body,      \* the shape of the body written after it
  received,  \* the status the client received, 0 if none
  span,      \* the span's status; "none" before it is started
  deferred,  \* what the handler deferred on its way: "recordError", "close"
  opened,    \* the form's temporary file: "none", "open", "removed", "left"
  stored,    \* whether the upload took effect in the bucket
  requests,  \* s.requests, the request counter
  errors     \* s.errors, the error counter

vars == <<http, stage, conn, recorder, head, body, received, span, deferred, opened,
          stored, requests, errors>>

Statuses == {0, 200, 204, 400, 401, 404, 405, 415, 500}
SpanStatuses == {"none", "Unset", "Error", "Ok"}
Shapes == {"none", "empty", "text", "Error", "UploadResponse", "error_message"}
Stages == {"new", "security", "parse", "form", "upload", "encode200", "encode400", "encode500",
           "return", "flush", "over"}

TypeOK ==
  /\ http \in [Requests -> HttpRequests]
  /\ stage \in [Requests -> Stages]
  /\ conn \in [Requests -> {"open", "broken"}]
  /\ recorder \in [Requests -> Statuses]
  /\ head \in [Requests -> Statuses]
  /\ body \in [Requests -> Shapes]
  /\ received \in [Requests -> Statuses]
  /\ span \in [Requests -> SpanStatuses]
  /\ deferred \in [Requests -> SUBSET {"recordError", "close"}]
  /\ opened \in [Requests -> {"none", "open", "removed", "left"}]
  /\ stored \in SUBSET Requests
  /\ requests \in Nat
  /\ errors \in Nat

Init ==
  /\ http \in [Requests -> HttpRequests]
  /\ stage = [r \in Requests |-> "new"]
  /\ conn = [r \in Requests |-> "open"]
  /\ recorder = [r \in Requests |-> 0]
  /\ head = [r \in Requests |-> 0]
  /\ body = [r \in Requests |-> "none"]
  /\ received = [r \in Requests |-> 0]
  /\ span = [r \in Requests |-> "none"]
  /\ deferred = [r \in Requests |-> {}]
  /\ opened = [r \in Requests |-> "none"]
  /\ stored = {}
  /\ requests = 0
  /\ errors = 0

\* Span.SetStatus of the SDK: Ok is final, Error is not undone by Unset.
setStatus(old, new) == IF old = "Ok" THEN old ELSE new

defer(r, f) == deferred' = [deferred EXCEPT ![r] = @ \cup {f}]

goto(r, s) == stage' = [stage EXCEPT ![r] = s]

\* w.WriteHeader through the codeRecorder: the recorder keeps the last status,
\* net/http the first.
writeHeader(r, code) ==
  /\ recorder' = [recorder EXCEPT ![r] = code]
  /\ head' = [head EXCEPT ![r] = IF @ = 0 THEN code ELSE @]

(***************************************************************************)
(* ServeHTTP: answers that never reach the operation.                      *)
(***************************************************************************)
\* notFound and MethodNotAllowed (204 for a CORS preflight).
unrouted(q) ==
  IF q.path # "/upload" THEN [code |-> 404, shape |-> "text"]
  ELSE IF q.method = "OPTIONS" THEN [code |-> 204, shape |-> "empty"]
  ELSE [code |-> 405, shape |-> "empty"]

ServeHTTP(r) ==
  /\ stage[r] = "new"
  /\ IF http[r].path = "/upload" /\ http[r].method = "POST"
     THEN /\ span' = [span EXCEPT ![r] = "Unset"]
          /\ goto(r, "security")
          /\ UNCHANGED <<head, body>>
     ELSE /\ head' = [head EXCEPT ![r] = unrouted(http[r]).code]
          /\ body' = [body EXCEPT ![r] = unrouted(http[r]).shape]
          /\ goto(r, "flush")
          /\ UNCHANGED span
  /\ UNCHANGED <<http, conn, recorder, received, deferred, opened, stored, requests, errors>>

(***************************************************************************)
(* handleUploadFileRequest.                                                *)
(***************************************************************************)
\* Mutant: who is not let through is answered as forbidden.
newErrorForbidden(kind) ==
  CASE kind = "SecurityError" -> 403
    [] kind = "DecodeRequestError" -> 400
    [] OTHER -> 500

\* NewError's status for an error wrapped as kind.
newErrorStatus(kind) ==
  CASE kind = "SecurityError" -> 401
    [] kind = "DecodeRequestError" -> 400
    [] OTHER -> 500

\* findAuthorization looks at every value of the header, the standard
\* library's BasicAuth at the first one only.
findAuthorization(q) == \E i \in DOMAIN q.authorization : q.authorization[i] # "Bearer"

\* Mutant: the requirement is not checked when no credentials were sent.
authenticatedUnlessWrong(q) == findAuthorization(q) => q.authorization[1] = "right"

\* A request is let through if both its user name and its password match.
\* Without "Basic" credentials the requirement is not satisfied; credentials
\* that cannot be parsed or do not match are an error.
authenticated(q) == findAuthorization(q) /\ q.authorization[1] = "right"

\* Both refusals answer with NewError's 401; recordError is deferred only if
\* writing that answer fails.
Security(r) ==
  /\ stage[r] = "security"
  /\ IF authenticated(http[r])
     THEN goto(r, "parse") /\ UNCHANGED <<recorder, head, body, span, deferred>>
     ELSE LET code == newErrorStatus("SecurityError") IN
          /\ writeHeader(r, code)
          /\ body' = [body EXCEPT ![r] = "Error"]
          /\ span' = [span EXCEPT ![r] = setStatus(@, "Error")]
          /\ \/ UNCHANGED deferred
             \/ conn[r] = "broken" /\ defer(r, "recordError")
          /\ goto(r, "return")
  /\ UNCHANGED <<http, conn, received, opened, stored, requests, errors>>

\* DefaultErrorHandler's status for a form that cannot be decoded.
decodeStatus(form) == IF form = "notMultipart" THEN 415 ELSE 400

\* Mutant: the ErrorHandler is given the writer under the codeRecorder.
decodeFailsUnrecorded(r) ==
  /\ head' = [head EXCEPT ![r] = IF @ = 0 THEN decodeStatus(http[r].form) ELSE @]
  /\ body' = [body EXCEPT ![r] = "error_message"]
  /\ defer(r, "recordError")
  /\ goto(r, "return")
  /\ UNCHANGED recorder

\* What decodeUploadFileRequest returns as an error is answered by the server's
\* ErrorHandler, and recordError is deferred.
decodeFails(r) ==
  /\ writeHeader(r, decodeStatus(http[r].form))
  /\ body' = [body EXCEPT ![r] = "error_message"]
  /\ defer(r, "recordError")
  /\ goto(r, "return")

\* RemoveAll, the first of the closers: the form's temporary file is removed, or
\* the operating system refuses, which is an error of close().
removeAll(r) ==
  IF opened[r] = "open"
  THEN \E o \in {"removed", "left"} : opened' = [opened EXCEPT ![r] = o]
  ELSE UNCHANGED opened

\* The media type, the length and ParseMultipartForm, which removes its files
\* itself if it fails: because the form is malformed, or because the
\* connection broke or timed out before all of it was read.
ParseForm(r) ==
  /\ stage[r] = "parse"
  /\ \/ /\ http[r].form \in {"noFile", "file"}
        /\ opened' = [opened EXCEPT ![r] = IF http[r].spilled THEN "open" ELSE @]
        /\ goto(r, "form")
        /\ UNCHANGED <<recorder, head, body, deferred>>
     \/ /\ http[r].form \notin {"noFile", "file"} \/ conn[r] = "broken"
        /\ decodeFails(r)
        /\ UNCHANGED opened
  /\ UNCHANGED <<http, conn, received, span, stored, requests, errors>>

\* Mutant: the closers are not called when decoding fails.
OpenFileLeaking(r) ==
  /\ stage[r] = "form"
  /\ \/ /\ http[r].form = "file"
        /\ defer(r, "close")
        /\ goto(r, "upload")
        /\ UNCHANGED <<recorder, head, body>>
     \/ /\ http[r].form = "noFile" \/ http[r].spilled
        /\ decodeFails(r)
  /\ UNCHANGED <<http, conn, received, span, opened, stored, requests, errors>>

\* The first part named "file" is opened.  Without one, or if its temporary
\* file cannot be opened, RemoveAll is called before the error returns, which
\* takes in the error of RemoveAll; otherwise calling the closers is deferred.
OpenFile(r) ==
  /\ stage[r] = "form"
  /\ \/ /\ http[r].form = "file"
        /\ defer(r, "close")
        /\ goto(r, "upload")
        /\ UNCHANGED <<recorder, head, body, opened>>
     \/ /\ http[r].form = "noFile" \/ http[r].spilled
        /\ decodeFails(r)
        /\ removeAll(r)
  /\ UNCHANGED <<http, conn, received, span, stored, requests, errors>>

\* Mutant: every error of UploadToGcs is the client's fault.
UploadFileBlamingClient(r) ==
  /\ stage[r] = "upload"
  /\ \/ goto(r, "encode200") /\ stored' = stored \cup {r}
     \/ goto(r, "encode400") /\ stored' \in {stored, stored \cup {r}}
  /\ UNCHANGED <<http, conn, recorder, head, body, received, span, deferred, opened,
                 requests, errors>>

\* Mutant: retries without end; once the context is done every attempt fails.
UploadFileRetryingForEver(r) ==
  /\ stage[r] = "upload" /\ conn[r] = "open"
  /\ \/ goto(r, "encode200") /\ stored' = stored \cup {r}
     \/ goto(r, "encode400") /\ UNCHANGED stored
  /\ UNCHANGED <<http, conn, recorder, head, body, received, span, deferred, opened,
                 requests, errors>>

\* UploadFile: validation errors become 400, every other error of UploadToGcs
\* 500.  An upload that failed may nevertheless have been stored, or be
\* stored later; that it counts as stored here already is on the safe side.
UploadFile(r) ==
  /\ stage[r] = "upload"
  /\ \/ goto(r, "encode200") /\ stored' = stored \cup {r}
     \/ goto(r, "encode400") /\ UNCHANGED stored
     \/ goto(r, "encode500") /\ stored' \in {stored, stored \cup {r}}
  /\ UNCHANGED <<http, conn, recorder, head, body, received, span, deferred, opened,
                 requests, errors>>

\* encodeUploadFileResponse.  If writing fails, recordError is deferred and
\* the ErrorHandler called, whose status 500 only the recorder still takes.
encode(r, code, shape, status) ==
  /\ head' = [head EXCEPT ![r] = code]
  /\ body' = [body EXCEPT ![r] = shape]
  /\ span' = [span EXCEPT ![r] = setStatus(@, status)]
  /\ goto(r, "return")
  /\ \/ recorder' = [recorder EXCEPT ![r] = code] /\ UNCHANGED deferred
     \/ /\ conn[r] = "broken"
        /\ recorder' = [recorder EXCEPT ![r] = 500]
        /\ defer(r, "recordError")
  /\ UNCHANGED <<http, conn, received, opened, stored, requests, errors>>

EncodeResponse(r) ==
  \/ stage[r] = "encode200" /\ encode(r, 200, "UploadResponse", "Ok")
  \/ stage[r] = "encode400" /\ encode(r, 400, "Error", "Error")
  \/ stage[r] = "encode500" /\ encode(r, 500, "Error", "Error")

\* recordError, run n times: it looks at the recorder, not at what was sent.
recorded(r, n) ==
  IF n > 0 /\ recorder[r] >= 100 /\ recorder[r] < 500
  THEN setStatus(span[r], "Error") ELSE span[r]

\* How often the deferred close() has recordError called: once if a closer
\* failed.  That is RemoveAll if the file is left; if it was removed it may still
\* be f.Close, before it.  A form in memory gives no error.
closeRequestErrors(r) ==
  IF "close" \notin deferred[r] \/ opened[r] # "open" THEN {0}
  ELSE IF opened'[r] = "left" THEN {1} ELSE {0, 1}

\* Mutant: only what was not an error is counted.
ReturnCountingSuccess(r) ==
  /\ stage[r] = "return"
  /\ IF "close" \in deferred[r] THEN removeAll(r) ELSE UNCHANGED opened
  /\ \E n \in closeRequestErrors(r) :
       LET all == n + (IF "recordError" \in deferred[r] THEN 1 ELSE 0)
       IN  /\ errors' = errors + all
           /\ span' = [span EXCEPT ![r] = recorded(r, all)]
  /\ requests' = IF "recordError" \in deferred[r] THEN requests ELSE requests + 1
  /\ goto(r, "flush")
  /\ UNCHANGED <<http, conn, recorder, head, body, received, deferred, stored>>

\* The deferred functions, last one first: recordError, close() with a
\* recordError of its own, the stopwatch that counts the request, span.End.
Return(r) ==
  /\ stage[r] = "return"
  /\ IF "close" \in deferred[r] THEN removeAll(r) ELSE UNCHANGED opened
  /\ \E n \in closeRequestErrors(r) :
       LET all == n + (IF "recordError" \in deferred[r] THEN 1 ELSE 0)
       IN  /\ errors' = errors + all
           /\ span' = [span EXCEPT ![r] = recorded(r, all)]
  /\ requests' = requests + 1
  /\ goto(r, "flush")
  /\ UNCHANGED <<http, conn, recorder, head, body, received, deferred, stored>>

\* net/http sends what it buffered, if it still can.
Flush(r) ==
  /\ stage[r] = "flush"
  /\ received' = [received EXCEPT ![r] = IF conn[r] = "open" THEN head[r] ELSE 0]
  /\ goto(r, "over")
  /\ UNCHANGED <<http, conn, recorder, head, body, span, deferred, opened, stored, requests,
                 errors>>

\* The client goes away, or a timeout of the server passes.
Break(r) ==
  /\ stage[r] # "over" /\ conn[r] = "open"
  /\ conn' = [conn EXCEPT ![r] = "broken"]
  /\ UNCHANGED <<http, stage, recorder, head, body, received, span, deferred, opened, stored,
                 requests, errors>>

Step(r) ==
  \/ ServeHTTP(r) \/ Security(r) \/ ParseForm(r) \/ OpenFile(r) \/ UploadFile(r)
  \/ EncodeResponse(r) \/ Return(r) \/ Flush(r)

Next == \E r \in Requests : Step(r) \/ Break(r)

Spec == Init /\ [][Next]_vars

(***************************************************************************)
(* Properties.                                                             *)
(***************************************************************************)

\* A client can believe the answer it receives: 200 means its file was
\* stored, a refusal of any kind that it was not and never will be.  Only 500
\* and silence leave it open.
AnswerTellsTruth ==
  \A r \in Requests :
    /\ received[r] = 200 => r \in stored
    /\ received[r] \in {204, 400, 401, 404, 405, 415} => r \notin stored

\* Nothing a client sends is kept, on disk or in the bucket, before its
\* credentials were accepted, on the one route there is.
NothingKeptBeforeAuthentication ==
  \A r \in Requests : opened[r] # "none" \/ r \in stored =>
    /\ http[r].path = "/upload" /\ http[r].method = "POST"
    /\ http[r].authorization # << >> /\ http[r].authorization[1] = "right"

\* When the handler has returned, by whatever path, the form's temporary file
\* is gone, or that it is not was counted as an error.
FormFilesRemovedOrReported ==
  \A r \in Requests : stage[r] \in {"flush", "over"} =>
    /\ opened[r] # "open"
    /\ opened[r] = "left" => errors > 0

\* Telemetry agrees with the client: the recorded status is the one received,
\* and the span of every 4xx or 5xx is an error.  Of an answer nobody received,
\* another status than the one chosen is recorded only if that could not be
\* written and the ErrorHandler put its 500, never sent, in the recorder that
\* recordError reads later; the failure itself is then recorded as well
\* (oas_handlers_gen.go:84-104 and 223-229).
TelemetryMatchesAnswer ==
  \A r \in Requests : stage[r] = "over" /\ span[r] # "none" =>
    /\ received[r] # 0 =>
         recorder[r] = received[r] /\ (received[r] >= 400 <=> span[r] = "Error")
    /\ recorder[r] # head[r] =>
         /\ recorder[r] = 500 /\ received[r] = 0 /\ "recordError" \in deferred[r]
         /\ head[r] >= 400 => span[r] = "Error"

\* Every call of the operation is counted once.  The error counter holds the
\* forms that could not be decoded and the answers that could not be written,
\* once each, and the decoded forms that could not be closed: all of which the
\* temporary file is left, and none that had no temporary file.
CountersAddUp ==
  (\A r \in Requests : stage[r] \in {"flush", "over"}) =>
    LET failed == Cardinality({r \in Requests : "recordError" \in deferred[r]})
        closed(files) ==
          Cardinality({r \in Requests : "close" \in deferred[r] /\ opened[r] \in files})
    IN  /\ requests = Cardinality({r \in Requests : span[r] # "none"})
        /\ errors \in failed + closed({"left"}) .. failed + closed({"left", "removed"})

\* What spec.yaml:61-70 promises: the body of a 400, for a missing file too, is
\* an Error.  Violated: a form that cannot be decoded is answered by
\* DefaultErrorHandler.
BadRequestIsAnError ==
  \A r \in Requests : received[r] = 400 => body[r] = "Error"

(***************************************************************************)
(* The inductive invariant behind the safety properties.                   *)
(***************************************************************************)
BeforeForm == {"new", "security", "parse"}
Encoding == {"encode200", "encode400", "encode500"}
Unanswered == BeforeForm \cup {"form", "upload"} \cup Encoding
Returned == {"flush", "over"}

Refusals == {204, 400, 401, 404, 405, 415}

routed(q) == q.path = "/upload" /\ q.method = "POST"

\* The way to the upload is the one route, past authentication.
RouteInv(r) ==
  /\ stage[r] = "new" => span[r] = "none"
  /\ stage[r] \in Unanswered \ {"new"} => routed(http[r]) /\ span[r] = "Unset"
  /\ stage[r] = "return" => span[r] # "none"
  /\ stage[r] \in Unanswered \ {"new", "security"} => authenticated(http[r])
  /\ opened[r] # "none" \/ r \in stored => routed(http[r]) /\ authenticated(http[r])

\* The status is chosen once, from what became of the upload.
AnswerInv(r) ==
  /\ stage[r] \in Unanswered => recorder[r] = 0 /\ head[r] = 0
  /\ stage[r] \in BeforeForm \cup {"form", "upload", "encode400"} => r \notin stored
  /\ stage[r] = "encode200" => r \in stored
  /\ head[r] = 200 => r \in stored
  /\ head[r] \in Refusals => r \notin stored
  /\ stage[r] # "over" => received[r] = 0
  /\ received[r] \in {0, head[r]}

\* The bodies written with each status: the schema of the operation, or the
\* object of the ErrorHandler that decodes as none of its types.
Bodies ==
  {<<200, "UploadResponse">>, <<400, "Error">>, <<401, "Error">>, <<500, "Error">>,
   <<400, "error_message">>, <<415, "error_message">>}

BodyInv(r) ==
  stage[r] \in Unanswered \/ ~ routed(http[r]) \/ <<head[r], body[r]>> \in Bodies

\* An open temporary file is one a deferred close will see to; one that was
\* left has been, or is about to be, counted.
FormInv(r) ==
  /\ stage[r] \in BeforeForm => opened[r] = "none"
  /\ stage[r] \in BeforeForm \cup {"form"} => deferred[r] = {}
  /\ stage[r] \in {"upload"} \cup Encoding => deferred[r] = {"close"}
  /\ stage[r] \in Unanswered => opened[r] \in {"none", "open"}
  /\ stage[r] = "return" /\ opened[r] = "open" => "close" \in deferred[r]
  /\ stage[r] = "return" /\ "close" \in deferred[r] => opened[r] \in {"none", "open"}
  /\ stage[r] = "return" /\ opened[r] = "left" => "recordError" \in deferred[r]
  /\ stage[r] \in Returned => opened[r] # "open" /\ (opened[r] = "left" => errors > 0)

\* While the connection holds, recorder and head agree; the span is an error,
\* or recordError is about to make it one, if and only if the status is.
TelemetryInv(r) ==
  /\ stage[r] = "return" /\ conn[r] = "open" =>
       /\ recorder[r] = head[r]
       /\ IF "recordError" \in deferred[r]
          THEN head[r] \in {400, 415} /\ span[r] = "Unset"
          ELSE \/ head[r] \in {400, 401, 500} /\ span[r] = "Error"
               \/ head[r] = 200 /\ span[r] = "Ok"
  /\ stage[r] \in Returned /\ conn[r] = "open" /\ span[r] # "none" =>
       recorder[r] = head[r] /\ (head[r] >= 400 <=> span[r] = "Error")
  /\ /\ stage[r] = "return" \/ (stage[r] \in Returned /\ span[r] # "none")
     /\ recorder[r] # head[r]
     => /\ recorder[r] = 500 /\ conn[r] = "broken" /\ "recordError" \in deferred[r]
        /\ head[r] >= 400 => span[r] = "Error"
  /\ received[r] # 0 => conn[r] = "open"

counted == {r \in Requests : stage[r] \in Returned /\ span[r] # "none"}
unhandled == {r \in Requests : stage[r] \in Returned /\ "recordError" \in deferred[r]}
closedForms(files) ==
  {r \in Requests :
     stage[r] \in Returned /\ "close" \in deferred[r] /\ opened[r] \in files}

\* The forms that were not removed, and all that had something to remove.
unremoved == closedForms({"left"})
spilledForms == closedForms({"left", "removed"})

\* The counters hold what has returned so far.
CountInv ==
  /\ requests = Cardinality(counted)
  /\ errors \in Cardinality(unhandled) + Cardinality(unremoved)
                  .. Cardinality(unhandled) + Cardinality(spilledForms)

IInv ==
  /\ TypeOK
  /\ \A r \in Requests : RouteInv(r) /\ AnswerInv(r) /\ FormInv(r) /\ TelemetryInv(r)
  /\ CountInv
=============================================================================
