----------------------- MODULE RequestPipelineProofs -----------------------
(***************************************************************************)
(* The safety properties of RequestPipeline, for any number of requests of *)
(* any kind.  Each step belongs to one request; what it does to that       *)
(* request is shown part by part of the invariant, and the others keep     *)
(* theirs because nothing of them changes (StepFrame).                     *)
(***************************************************************************)
EXTENDS RequestPipeline, TLAPS, FiniteSetTheorems

LocalInv(r) == RouteInv(r) /\ AnswerInv(r) /\ FormInv(r) /\ TelemetryInv(r)

\* What a step of r may not touch.
Frame(r) ==
  /\ http' = http
  /\ stored' \ {r} = stored \ {r}
  /\ errors' >= errors
  /\ \A q \in Requests \ {r} :
       /\ stage'[q] = stage[q] /\ conn'[q] = conn[q] /\ recorder'[q] = recorder[q]
       /\ head'[q] = head[q] /\ received'[q] = received[q] /\ span'[q] = span[q]
       /\ deferred'[q] = deferred[q] /\ opened'[q] = opened[q] /\ body'[q] = body[q]

\* The inductive invariant holds at the start.
LEMMA InitIInv == Init => IInv
<1> SUFFICES ASSUME Init PROVE IInv
  OBVIOUS
<1>1. TypeOK
  BY DEF Init, TypeOK, Stages, Statuses, Shapes, SpanStatuses
<1>2. ASSUME NEW r \in Requests
      PROVE  RouteInv(r) /\ AnswerInv(r) /\ FormInv(r) /\ TelemetryInv(r)
  BY DEF Init, RouteInv, AnswerInv, FormInv, TelemetryInv, Unanswered, BeforeForm, Encoding,
         Returned, Refusals
<1>3. CountInv
  <2>1. counted = {} /\ unhandled = {} /\ unremoved = {} /\ spilledForms = {}
    BY DEF Init, counted, unhandled, unremoved, spilledForms, closedForms, Returned
  <2> QED
    BY <2>1, FS_EmptySet DEF Init, CountInv
<1> QED
  BY <1>1, <1>2, <1>3 DEF IInv

(***************************************************************************)
(* Types.                                                                  *)
(***************************************************************************)
LEMMA RemoveAllType ==
  ASSUME TypeOK, NEW r \in Requests, removeAll(r)
  PROVE  opened' \in [Requests -> {"none", "open", "removed", "left"}]
BY DEF TypeOK, removeAll

\* A request that is not decoded leaves the types alone.
LEMMA DecodeFailsType ==
  ASSUME TypeOK, NEW r \in Requests, decodeFails(r)
  PROVE  /\ recorder' \in [Requests -> Statuses] /\ head' \in [Requests -> Statuses]
         /\ body' \in [Requests -> Shapes] /\ stage' \in [Requests -> Stages]
         /\ deferred' \in [Requests -> SUBSET {"recordError", "close"}]
BY DEF TypeOK, decodeFails, writeHeader, decodeStatus, defer, goto, Statuses, Shapes, Stages

\* Every step keeps the types.
LEMMA StepType ==
  ASSUME TypeOK, NEW r \in Requests, Step(r) \/ Break(r)
  PROVE  TypeOK'
<1>1. CASE ServeHTTP(r)
  BY <1>1 DEF TypeOK, ServeHTTP, unrouted, goto, Statuses, Shapes, SpanStatuses, Stages
<1>2. CASE Security(r)
  BY <1>2 DEF TypeOK, Security, newErrorStatus, writeHeader, setStatus, defer, goto, Statuses,
              Shapes, SpanStatuses, Stages
<1>3. CASE ParseForm(r)
  <2>1. UNCHANGED <<http, conn, received, span, stored, requests, errors>>
    BY <1>3 DEF ParseForm
  <2>2. CASE decodeFails(r) /\ UNCHANGED opened
    BY <2>1, <2>2, DecodeFailsType DEF TypeOK
  <2>3. CASE ~ (decodeFails(r) /\ UNCHANGED opened)
    BY <1>3, <2>3 DEF TypeOK, ParseForm, goto, Stages
  <2> QED
    BY <2>2, <2>3
<1>4. CASE OpenFile(r)
  <2>1. UNCHANGED <<http, conn, received, span, stored, requests, errors>>
    BY <1>4 DEF OpenFile
  <2>2. CASE decodeFails(r) /\ removeAll(r)
    BY <2>1, <2>2, DecodeFailsType, RemoveAllType DEF TypeOK
  <2>3. CASE ~ (decodeFails(r) /\ removeAll(r))
    BY <1>4, <2>3 DEF TypeOK, OpenFile, goto, defer, Stages
  <2> QED
    BY <2>2, <2>3
<1>5. CASE UploadFile(r)
  BY <1>5 DEF TypeOK, UploadFile, goto, Stages
<1>6. CASE EncodeResponse(r)
  BY <1>6 DEF TypeOK, EncodeResponse, encode, setStatus, defer, goto, Statuses, Shapes,
              SpanStatuses, Stages
<1>7. CASE Return(r)
  <2>1. opened' \in [Requests -> {"none", "open", "removed", "left"}]
    BY <1>7, RemoveAllType DEF Return, TypeOK
  <2>2. PICK n \in closeRequestErrors(r) :
             LET all == n + (IF "recordError" \in deferred[r] THEN 1 ELSE 0)
             IN  errors' = errors + all /\ span' = [span EXCEPT ![r] = recorded(r, all)]
    BY <1>7 DEF Return
  <2>3. n \in 0 .. 1
    BY DEF closeRequestErrors
  <2>4. errors' \in Nat
    BY <2>2, <2>3 DEF TypeOK
  <2>5. span' \in [Requests -> SpanStatuses]
    BY <2>2 DEF TypeOK, recorded, setStatus, SpanStatuses
  <2> QED
    BY <1>7, <2>1, <2>4, <2>5 DEF Return, TypeOK, goto, Stages
<1>8. CASE Flush(r)
  BY <1>8 DEF TypeOK, Flush, goto, Statuses, Stages
<1>9. CASE Break(r)
  BY <1>9 DEF TypeOK, Break
<1> QED
  BY <1>1, <1>2, <1>3, <1>4, <1>5, <1>6, <1>7, <1>8, <1>9 DEF Step

(***************************************************************************)
(* The other requests.                                                     *)
(***************************************************************************)
LEMMA StepFrame ==
  ASSUME TypeOK, NEW r \in Requests, Step(r) \/ Break(r)
  PROVE  Frame(r)
<1> USE DEF TypeOK, Frame
<1>1. CASE ServeHTTP(r)
  BY <1>1 DEF ServeHTTP, goto
<1>2. CASE Security(r)
  BY <1>2 DEF Security, writeHeader, defer, goto
<1>3. CASE ParseForm(r)
  BY <1>3 DEF ParseForm, decodeFails, writeHeader, defer, goto
<1>4. CASE OpenFile(r)
  BY <1>4 DEF OpenFile, decodeFails, removeAll, writeHeader, defer, goto
<1>5. CASE UploadFile(r)
  BY <1>5 DEF UploadFile, goto
<1>6. CASE EncodeResponse(r)
  BY <1>6 DEF EncodeResponse, encode, defer, goto
<1>7. CASE Return(r)
  <2>1. errors' >= errors
    <3>1. \A n \in closeRequestErrors(r) : n \in 0 .. 1
      BY DEF closeRequestErrors
    <3> QED
      BY <1>7, <3>1 DEF Return
  <2>2. \A q \in Requests \ {r} : span'[q] = span[q]
    BY <1>7 DEF Return
  <2> QED
    BY <1>7, <2>1, <2>2 DEF Return, removeAll, goto
<1>8. CASE Flush(r)
  BY <1>8 DEF Flush, goto
<1>9. CASE Break(r)
  BY <1>9 DEF Break
<1> QED
  BY <1>1, <1>2, <1>3, <1>4, <1>5, <1>6, <1>7, <1>8, <1>9 DEF Step

\* A step of one request keeps what holds of another.
LEMMA OthersKeep ==
  ASSUME TypeOK, TypeOK', NEW r \in Requests, Frame(r), NEW q \in Requests \ {r}, LocalInv(q)
  PROVE  LocalInv(q)'
<1>1. /\ http'[q] = http[q] /\ (q \in stored' <=> q \in stored) /\ errors' >= errors
      /\ errors \in Nat /\ errors' \in Nat
      /\ stage'[q] = stage[q] /\ conn'[q] = conn[q] /\ recorder'[q] = recorder[q]
      /\ head'[q] = head[q] /\ received'[q] = received[q] /\ span'[q] = span[q]
      /\ deferred'[q] = deferred[q] /\ opened'[q] = opened[q]
  BY DEF Frame, TypeOK
<1>2. RouteInv(q)' /\ AnswerInv(q)'
  BY <1>1 DEF LocalInv, RouteInv, AnswerInv
<1>3. FormInv(q)'
  BY <1>1 DEF LocalInv, FormInv
<1>4. TelemetryInv(q)'
  BY <1>1 DEF LocalInv, TelemetryInv
<1> QED
  BY <1>2, <1>3, <1>4 DEF LocalInv

(***************************************************************************)
(* The request itself, action by action.                                   *)
(***************************************************************************)
LEMMA ServeHTTPKeeps ==
  ASSUME TypeOK, NEW r \in Requests, LocalInv(r), ServeHTTP(r)
  PROVE  LocalInv(r)'
<1> USE DEF TypeOK, LocalInv, Unanswered, BeforeForm, Encoding, Returned
<1>1. CASE routed(http[r])
  <2>1. /\ stage'[r] = "security" /\ span'[r] = "Unset" /\ stage[r] = "new"
        /\ UNCHANGED <<http, conn, recorder, head, received, deferred, opened, stored, errors>>
    BY <1>1 DEF ServeHTTP, routed, goto
  <2>2. RouteInv(r)'
    BY <1>1, <2>1 DEF RouteInv, routed
  <2>3. AnswerInv(r)' /\ FormInv(r)' /\ TelemetryInv(r)'
    BY <2>1 DEF AnswerInv, FormInv, TelemetryInv
  <2> QED
    BY <2>2, <2>3
<1>2. CASE ~ routed(http[r])
  <2>1. /\ stage'[r] = "flush" /\ stage[r] = "new" /\ head'[r] \in {404, 204, 405}
        /\ UNCHANGED <<http, conn, recorder, received, span, deferred, opened, stored, errors>>
    BY <1>2 DEF ServeHTTP, routed, goto, unrouted
  <2>2. RouteInv(r)' /\ FormInv(r)'
    BY <2>1 DEF RouteInv, FormInv
  <2>3. AnswerInv(r)'
    BY <2>1 DEF AnswerInv
  <2>4. TelemetryInv(r)'
    BY <2>1 DEF RouteInv, AnswerInv, TelemetryInv
  <2> QED
    BY <2>2, <2>3, <2>4
<1> QED
  BY <1>1, <1>2

\* A step of a request keeps what holds of it: the security handler.
LEMMA SecurityKeeps ==
  ASSUME TypeOK, NEW r \in Requests, LocalInv(r), Security(r)
  PROVE  LocalInv(r)'
<1> USE DEF TypeOK, LocalInv, Unanswered, BeforeForm, Encoding, Returned
<1>1. CASE authenticated(http[r])
  <2>1. /\ stage'[r] = "parse" /\ stage[r] = "security"
        /\ UNCHANGED <<http, conn, recorder, head, received, span, deferred, opened, stored,
                       errors>>
    BY <1>1 DEF Security, goto
  <2>2. RouteInv(r)'
    BY <1>1, <2>1 DEF RouteInv, authenticated, findAuthorization, routed
  <2>3. AnswerInv(r)' /\ FormInv(r)' /\ TelemetryInv(r)'
    BY <2>1 DEF AnswerInv, FormInv, TelemetryInv
  <2> QED
    BY <2>2, <2>3
<1>2. CASE ~ authenticated(http[r])
  <2>1. /\ stage'[r] = "return" /\ stage[r] = "security"
        /\ recorder'[r] = 401 /\ head'[r] = 401 /\ span'[r] = "Error"
        /\ conn[r] = "open" => deferred'[r] = deferred[r]
        /\ UNCHANGED <<http, conn, received, opened, stored, errors>>
    BY <1>2 DEF Security, goto, writeHeader, newErrorStatus, setStatus, RouteInv, AnswerInv
  <2>2. RouteInv(r)' /\ FormInv(r)'
    BY <2>1 DEF RouteInv, FormInv
  <2>3. AnswerInv(r)'
    BY <2>1 DEF AnswerInv
  <2>4. TelemetryInv(r)'
    BY <2>1 DEF TelemetryInv, AnswerInv, FormInv
  <2> QED
    BY <2>2, <2>3, <2>4
<1> QED
  BY <1>1, <1>2

\* A refused form, whatever became of its temporary file.
LEMMA DecodeFailsKeeps ==
  ASSUME TypeOK, NEW r \in Requests, LocalInv(r), stage[r] \in {"parse", "form"},
         decodeFails(r), opened'[r] \in {opened[r], "removed", "left"},
         opened'[r] # "open", opened[r] = "none" => opened'[r] = "none",
         UNCHANGED <<http, conn, received, span, stored, errors>>
  PROVE  LocalInv(r)'
<1> USE DEF TypeOK, LocalInv, Unanswered, BeforeForm, Encoding, Returned
<1>1. /\ stage'[r] = "return" /\ head'[r] \in {400, 415} /\ recorder'[r] = head'[r]
      /\ deferred'[r] = {"recordError"}
  BY DEF decodeFails, writeHeader, decodeStatus, defer, goto, AnswerInv, FormInv
<1>2. RouteInv(r)'
  BY <1>1 DEF RouteInv
<1>3. AnswerInv(r)'
  BY <1>1 DEF AnswerInv
<1>4. FormInv(r)'
  BY <1>1 DEF FormInv
<1>5. TelemetryInv(r)'
  BY <1>1 DEF TelemetryInv, RouteInv, AnswerInv
<1> QED
  BY <1>2, <1>3, <1>4, <1>5

\* The form is parsed.
LEMMA ParseFormKeeps ==
  ASSUME TypeOK, NEW r \in Requests, LocalInv(r), ParseForm(r)
  PROVE  LocalInv(r)'
<1> USE DEF TypeOK, LocalInv, Unanswered, BeforeForm, Encoding, Returned
<1>1. CASE decodeFails(r) /\ UNCHANGED opened
  <2>1. stage[r] = "parse" /\ UNCHANGED <<http, conn, received, span, stored, errors>>
    BY <1>1 DEF ParseForm
  <2>2. opened[r] = "none"
    BY <2>1 DEF FormInv
  <2> QED
    BY <1>1, <2>1, <2>2, DecodeFailsKeeps
<1>2. CASE ~ (decodeFails(r) /\ UNCHANGED opened)
  <2>1. /\ stage[r] = "parse" /\ stage'[r] = "form" /\ opened'[r] \in {opened[r], "open"}
        /\ UNCHANGED <<http, conn, recorder, head, received, span, deferred, stored, errors>>
    BY <1>2 DEF ParseForm, goto
  <2>2. RouteInv(r)'
    BY <2>1 DEF RouteInv, routed, authenticated, findAuthorization
  <2>3. AnswerInv(r)' /\ FormInv(r)' /\ TelemetryInv(r)'
    BY <2>1 DEF AnswerInv, FormInv, TelemetryInv
  <2> QED
    BY <2>2, <2>3
<1> QED
  BY <1>1, <1>2

\* The file of the form is opened.
LEMMA OpenFileKeeps ==
  ASSUME TypeOK, NEW r \in Requests, LocalInv(r), OpenFile(r)
  PROVE  LocalInv(r)'
<1> USE DEF TypeOK, LocalInv, Unanswered, BeforeForm, Encoding, Returned
<1>1. CASE decodeFails(r) /\ removeAll(r)
  <2>1. stage[r] = "form" /\ UNCHANGED <<http, conn, received, span, stored, errors>>
    BY <1>1 DEF OpenFile
  <2>2. opened[r] \in {"none", "open"}
    BY <2>1 DEF FormInv
  <2>3. /\ opened'[r] \in {"none", "removed", "left"}
        /\ opened[r] = "none" => opened'[r] = "none"
    BY <1>1, <2>2 DEF removeAll
  <2>4. opened'[r] \in {opened[r], "removed", "left"}
    BY <1>1 DEF removeAll
  <2> QED
    BY <1>1, <2>1, <2>3, <2>4, DecodeFailsKeeps
<1>2. CASE ~ (decodeFails(r) /\ removeAll(r))
  <2>1. /\ stage[r] = "form" /\ stage'[r] = "upload" /\ deferred'[r] = deferred[r] \cup {"close"}
        /\ UNCHANGED <<http, conn, recorder, head, received, span, opened, stored, errors>>
    BY <1>2 DEF OpenFile, goto, defer
  <2>2. RouteInv(r)'
    BY <2>1 DEF RouteInv, routed, authenticated, findAuthorization
  <2>3. AnswerInv(r)' /\ FormInv(r)' /\ TelemetryInv(r)'
    BY <2>1 DEF AnswerInv, FormInv, TelemetryInv
  <2> QED
    BY <2>2, <2>3
<1> QED
  BY <1>1, <1>2

\* The handler runs.
LEMMA UploadFileKeeps ==
  ASSUME TypeOK, NEW r \in Requests, LocalInv(r), UploadFile(r)
  PROVE  LocalInv(r)'
<1> USE DEF TypeOK, LocalInv, Unanswered, BeforeForm, Encoding, Returned
<1>1. /\ stage[r] = "upload" /\ stage'[r] \in Encoding
      /\ stage'[r] = "encode200" => r \in stored'
      /\ stage'[r] = "encode400" => stored' = stored
      /\ UNCHANGED <<http, conn, recorder, head, received, span, deferred, opened, errors>>
  BY DEF UploadFile, goto
<1>2. RouteInv(r)'
  BY <1>1 DEF RouteInv, routed, authenticated, findAuthorization
<1>3. AnswerInv(r)'
  BY <1>1 DEF AnswerInv, Refusals
<1>4. FormInv(r)' /\ TelemetryInv(r)'
  BY <1>1 DEF FormInv, TelemetryInv
<1> QED
  BY <1>2, <1>3, <1>4

\* The response is encoded.
LEMMA EncodeResponseKeeps ==
  ASSUME TypeOK, NEW r \in Requests, LocalInv(r), EncodeResponse(r)
  PROVE  LocalInv(r)'
<1> USE DEF TypeOK, LocalInv, Unanswered, BeforeForm, Encoding, Returned
<1>1. stage[r] \in Encoding
  BY DEF EncodeResponse
<1>2. /\ stage'[r] = "return"
      /\ \/ head'[r] = 200 /\ span'[r] = "Ok" /\ stage[r] = "encode200"
         \/ head'[r] = 400 /\ span'[r] = "Error" /\ stage[r] = "encode400"
         \/ head'[r] = 500 /\ span'[r] = "Error" /\ stage[r] = "encode500"
      /\ \/ recorder'[r] = head'[r] /\ deferred' = deferred
         \/ /\ conn[r] = "broken" /\ deferred'[r] = deferred[r] \cup {"recordError"}
            /\ recorder'[r] = 500
      /\ UNCHANGED <<http, conn, received, opened, stored, errors>>
  BY <1>1 DEF EncodeResponse, encode, defer, goto, setStatus, RouteInv
<1>3. RouteInv(r)'
  BY <1>1, <1>2 DEF RouteInv
<1>4. AnswerInv(r)'
  BY <1>1, <1>2 DEF AnswerInv, Refusals
<1>5. FormInv(r)'
  BY <1>1, <1>2 DEF FormInv
<1>6. TelemetryInv(r)'
  BY <1>1, <1>2 DEF TelemetryInv, FormInv, AnswerInv
<1> QED
  BY <1>3, <1>4, <1>5, <1>6

\* What recordError, run as often as it is deferred and as the closers fail, makes
\* of the span and of the counter.
LEMMA ReturnEffect ==
  ASSUME TypeOK, NEW r \in Requests, LocalInv(r), Return(r)
  PROVE  /\ stage[r] = "return" /\ stage'[r] = "flush"
         /\ opened'[r] # "open"
         /\ opened'[r] = "none" <=> opened[r] = "none"
         /\ opened'[r] = "left" => errors' > errors
         /\ span'[r] = span[r] \/ span'[r] = setStatus(span[r], "Error")
         /\ "recordError" \in deferred[r] =>
              \/ recorder[r] \notin 100 .. 499
              \/ span'[r] = setStatus(span[r], "Error")
         /\ errors' - errors \in
              (IF "recordError" \in deferred[r] THEN 1 ELSE 0)
                + (IF "close" \in deferred[r] /\ opened'[r] = "left" THEN 1 ELSE 0)
              .. (IF "recordError" \in deferred[r] THEN 1 ELSE 0)
                + (IF "close" \in deferred[r] /\ opened'[r] \in {"left", "removed"}
                   THEN 1 ELSE 0)
         /\ requests' = requests + 1
         /\ UNCHANGED <<http, conn, recorder, head, received, deferred, stored>>
<1> DEFINE a == IF "recordError" \in deferred[r] THEN 1 ELSE 0
           low == IF "close" \in deferred[r] /\ opened'[r] = "left" THEN 1 ELSE 0
           high == IF "close" \in deferred[r] /\ opened'[r] \in {"left", "removed"}
                   THEN 1 ELSE 0
<1>1. /\ stage[r] = "return" /\ stage'[r] = "flush" /\ requests' = requests + 1
      /\ UNCHANGED <<http, conn, recorder, head, received, deferred, stored>>
  BY DEF Return, goto, TypeOK
<1>2. /\ opened[r] = "open" => opened'[r] \in {"removed", "left"}
      /\ opened[r] # "open" => opened'[r] = opened[r]
      /\ opened[r] = "open" => "close" \in deferred[r]
      /\ "close" \in deferred[r] => opened[r] \in {"none", "open"}
  BY <1>1 DEF Return, removeAll, TypeOK, LocalInv, FormInv
<1>3. PICK n \in closeRequestErrors(r) :
           errors' = errors + (n + a) /\ span'[r] = recorded(r, n + a)
  BY DEF Return, TypeOK
<1>4. a \in 0 .. 1 /\ errors \in Nat /\ recorder[r] \in Int
  BY DEF TypeOK, Statuses
<1>5. n \in low .. high
  <2>1. CASE opened[r] = "open"
    BY <1>2, <2>1 DEF closeRequestErrors
  <2>2. CASE opened[r] # "open"
    <3>1. n = 0
      BY <2>2 DEF closeRequestErrors
    <3>2. "close" \in deferred[r] => opened'[r] = "none"
      BY <1>2, <2>2
    <3> QED
      BY <3>1, <3>2
  <2> QED
    BY <2>1, <2>2
<1>6. low \in 0 .. 1 /\ high \in 0 .. 1
  OBVIOUS
<1>7. opened[r] = "left" => a = 1
  BY <1>1 DEF LocalInv, FormInv
<1>8. opened'[r] = "left" => low = 1 \/ a = 1
  BY <1>2, <1>7
<1>9. "recordError" \in deferred[r] => a = 1
  OBVIOUS
<1> HIDE DEF a, low, high
<1>10. errors' - errors \in a + low .. a + high
  BY <1>3, <1>4, <1>5, <1>6
<1>11. low = 1 \/ a = 1 => errors' > errors
  BY <1>3, <1>4, <1>5, <1>6
<1>12. /\ span'[r] = span[r] \/ span'[r] = setStatus(span[r], "Error")
       /\ a = 1 => recorder[r] \notin 100 .. 499 \/ span'[r] = setStatus(span[r], "Error")
  BY <1>3, <1>4, <1>5, <1>6 DEF recorded
<1>13. /\ opened'[r] # "open"
       /\ opened'[r] = "none" <=> opened[r] = "none"
  BY <1>2
<1> QED
  BY <1>1, <1>8, <1>9, <1>10, <1>11, <1>12, <1>13 DEF a, low, high

\* The handler returns and its deferred calls run.
LEMMA ReturnKeeps ==
  ASSUME TypeOK, NEW r \in Requests, LocalInv(r), Return(r)
  PROVE  LocalInv(r)'
<1> USE DEF TypeOK, LocalInv, Unanswered, BeforeForm, Encoding, Returned
<1>1. /\ stage[r] = "return" /\ stage'[r] = "flush"
      /\ opened'[r] # "open"
      /\ opened'[r] = "none" <=> opened[r] = "none"
      /\ opened'[r] = "left" => errors' > errors
      /\ span'[r] = span[r] \/ span'[r] = setStatus(span[r], "Error")
      /\ "recordError" \in deferred[r] =>
           recorder[r] \notin 100 .. 499 \/ span'[r] = setStatus(span[r], "Error")
      /\ UNCHANGED <<http, conn, recorder, head, received, deferred, stored>>
  BY ReturnEffect
<1>2. RouteInv(r)'
  BY <1>1 DEF RouteInv, setStatus
<1>3. AnswerInv(r)'
  BY <1>1 DEF AnswerInv
<1>4. FormInv(r)'
  <2>1. errors \in Nat /\ errors' \in Nat
    BY StepType DEF Step
  <2>2. opened'[r] = "left" => errors' > 0
    BY <1>1, <2>1
  <2> QED
    BY <1>1, <2>2 DEF FormInv
<1>5. TelemetryInv(r)'
  BY <1>1 DEF TelemetryInv, AnswerInv, setStatus
<1> QED
  BY <1>2, <1>3, <1>4, <1>5

\* What was written reaches the client, or does not.
LEMMA FlushKeeps ==
  ASSUME TypeOK, NEW r \in Requests, LocalInv(r), Flush(r)
  PROVE  LocalInv(r)'
<1> USE DEF TypeOK, LocalInv, Unanswered, BeforeForm, Encoding, Returned
<1>1. /\ stage[r] = "flush" /\ stage'[r] = "over"
      /\ received'[r] = IF conn[r] = "open" THEN head[r] ELSE 0
      /\ UNCHANGED <<http, conn, recorder, head, span, deferred, opened, stored, errors>>
  BY DEF Flush, goto
<1>2. RouteInv(r)' /\ FormInv(r)'
  BY <1>1 DEF RouteInv, FormInv
<1>3. AnswerInv(r)'
  BY <1>1 DEF AnswerInv
<1>4. TelemetryInv(r)'
  BY <1>1 DEF TelemetryInv
<1> QED
  BY <1>2, <1>3, <1>4

\* The connection breaks before anything was received.
LEMMA BreakKeeps ==
  ASSUME TypeOK, NEW r \in Requests, LocalInv(r), Break(r)
  PROVE  LocalInv(r)'
<1> USE DEF TypeOK, LocalInv
<1>1. /\ stage[r] # "over" /\ conn'[r] = "broken"
      /\ UNCHANGED <<http, stage, recorder, head, received, span, deferred, opened, stored,
                     errors>>
  BY DEF Break
<1>2. RouteInv(r)' /\ FormInv(r)' /\ AnswerInv(r)'
  BY <1>1 DEF RouteInv, FormInv, AnswerInv
<1>3. TelemetryInv(r)'
  BY <1>1 DEF TelemetryInv, AnswerInv
<1> QED
  BY <1>2, <1>3

\* Together: every step keeps what holds of every request.
LEMMA LocalStep ==
  ASSUME TypeOK, \A q \in Requests : LocalInv(q), NEW r \in Requests, Step(r) \/ Break(r)
  PROVE  \A q \in Requests : LocalInv(q)'
<1>1. TypeOK' /\ Frame(r)
  BY StepType, StepFrame
<1>2. LocalInv(r)'
  BY ServeHTTPKeeps, SecurityKeeps, ParseFormKeeps, OpenFileKeeps, UploadFileKeeps,
     EncodeResponseKeeps, ReturnKeeps, FlushKeeps, BreakKeeps DEF Step
<1>3. \A q \in Requests \ {r} : LocalInv(q)'
  BY <1>1, OthersKeep
<1> QED
  BY <1>2, <1>3

(***************************************************************************)
(* The counters.                                                           *)
(***************************************************************************)
\* A set of requests that gains r at most.
LEMMA Gain ==
  ASSUME NEW S \in SUBSET Requests, NEW r \in Requests, r \notin S, NEW T,
         T = S \/ T = S \cup {r}
  PROVE  /\ Cardinality(S) \in Nat /\ Cardinality(T) \in Nat
         /\ Cardinality(T) = Cardinality(S) + (IF T = S THEN 0 ELSE 1)
<1>1. IsFiniteSet(S)
  BY RequestsAssumption, FS_Subset
<1>2. Cardinality(S) \in Nat
  BY <1>1, FS_CardinalityType
<1>3. Cardinality(S \cup {r}) = Cardinality(S) + 1
  BY <1>1, FS_AddElement
<1>4. CASE T = S
  BY <1>2, <1>4
<1>5. CASE T = S \cup {r}
  <2>1. T # S
    BY <1>5
  <2> QED
    BY <1>2, <1>3, <1>5, <2>1
<1> QED
  BY <1>4, <1>5

\* Arithmetic of a counter between two bounds that move with it.
LEMMA BetweenKept ==
  ASSUME NEW e \in Nat, NEW f \in Nat, NEW u \in Nat, NEW v \in Nat, NEW w \in Nat,
         NEW a \in 0 .. 1, NEW low \in 0 .. 1, NEW high \in 0 .. 1,
         e \in u + v .. u + w, f - e \in a + low .. a + high
  PROVE  f \in (u + a) + (v + low) .. (u + a) + (w + high)
OBVIOUS

\* No step but Return changes a counter, or what it counts.
LEMMA CountKept ==
  ASSUME TypeOK, NEW r \in Requests, LocalInv(r), Step(r) \/ Break(r), ~ Return(r), CountInv
  PROVE  CountInv'
<1> USE DEF TypeOK, LocalInv, Returned
<1>1. /\ UNCHANGED <<requests, errors>>
      /\ \A q \in Requests \ {r} :
           stage'[q] = stage[q] /\ span'[q] = span[q] /\ deferred'[q] = deferred[q]
           /\ opened'[q] = opened[q]
  <2>1. UNCHANGED <<requests, errors>>
    BY DEF Step, ServeHTTP, Security, ParseForm, OpenFile, UploadFile, EncodeResponse, encode,
           Flush, Break
  <2> QED
    BY <2>1, StepFrame DEF Frame
<1>2. \/ stage[r] \notin Returned /\ stage'[r] \notin Returned
      \/ UNCHANGED <<span, deferred, opened>> /\ (stage[r] \in Returned <=> stage'[r] \in Returned)
      \/ stage'[r] \in Returned /\ span'[r] = "none" /\ deferred'[r] = {} /\ opened'[r] = "none"
         /\ stage[r] \notin Returned
  <2>1. CASE ServeHTTP(r)
    BY <2>1 DEF ServeHTTP, goto, RouteInv, FormInv, BeforeForm
  <2>2. CASE Security(r)
    BY <2>2 DEF Security, goto
  <2>3. CASE ParseForm(r) \/ OpenFile(r)
    BY <2>3 DEF ParseForm, OpenFile, decodeFails, goto
  <2>4. CASE UploadFile(r)
    BY <2>4 DEF UploadFile, goto
  <2>5. CASE EncodeResponse(r)
    BY <2>5 DEF EncodeResponse, encode, goto
  <2>6. CASE Flush(r)
    BY <2>6 DEF Flush, goto
  <2>7. CASE Break(r)
    BY <2>7 DEF Break
  <2> QED
    BY <2>1, <2>2, <2>3, <2>4, <2>5, <2>6, <2>7 DEF Step
<1>3. /\ counted' = counted /\ unhandled' = unhandled
      /\ unremoved' = unremoved /\ spilledForms' = spilledForms
  BY <1>1, <1>2 DEF counted, unhandled, unremoved, spilledForms, closedForms
<1> QED
  BY <1>1, <1>3 DEF CountInv

\* The counters count a request when its handler returns.
LEMMA CountReturn ==
  ASSUME TypeOK, NEW r \in Requests, LocalInv(r), Return(r), CountInv
  PROVE  CountInv'
<1> USE DEF Returned
<1> DEFINE a == IF "recordError" \in deferred[r] THEN 1 ELSE 0
           low == IF "close" \in deferred[r] /\ opened'[r] = "left" THEN 1 ELSE 0
           high == IF "close" \in deferred[r] /\ opened'[r] \in {"left", "removed"}
                   THEN 1 ELSE 0
<1>1. /\ stage[r] = "return" /\ stage'[r] = "flush"
      /\ span'[r] # "none"
      /\ requests' = requests + 1
      /\ errors' - errors \in a + low .. a + high
      /\ UNCHANGED deferred
  BY ReturnEffect DEF LocalInv, RouteInv, setStatus
<1>2. \A q \in Requests \ {r} :
        stage'[q] = stage[q] /\ span'[q] = span[q] /\ opened'[q] = opened[q]
  BY StepFrame DEF Frame, Step
<1>3. r \notin counted /\ r \notin unhandled /\ r \notin unremoved /\ r \notin spilledForms
  BY <1>1 DEF counted, unhandled, unremoved, spilledForms, closedForms
<1>4. /\ counted' = counted \cup {r}
      /\ unhandled' = IF a = 1 THEN unhandled \cup {r} ELSE unhandled
      /\ unremoved' = IF low = 1 THEN unremoved \cup {r} ELSE unremoved
      /\ spilledForms' = IF high = 1 THEN spilledForms \cup {r} ELSE spilledForms
  BY <1>1, <1>2 DEF counted, unhandled, unremoved, spilledForms, closedForms
<1>5. /\ counted \in SUBSET Requests /\ unhandled \in SUBSET Requests
      /\ unremoved \in SUBSET Requests /\ spilledForms \in SUBSET Requests
  BY DEF counted, unhandled, unremoved, spilledForms, closedForms
<1>6. a \in 0 .. 1 /\ low \in 0 .. 1 /\ high \in 0 .. 1
  OBVIOUS
<1> HIDE DEF a, low, high
<1>7. Cardinality(counted') = Cardinality(counted) + 1
  BY <1>3, <1>4, <1>5, Gain
<1>8. Cardinality(unhandled) \in Nat /\ Cardinality(unhandled') = Cardinality(unhandled) + a
  BY <1>3, <1>4, <1>5, <1>6, Gain
<1>9. Cardinality(unremoved) \in Nat /\ Cardinality(unremoved') = Cardinality(unremoved) + low
  BY <1>3, <1>4, <1>5, <1>6, Gain
<1>10. /\ Cardinality(spilledForms) \in Nat
       /\ Cardinality(spilledForms') = Cardinality(spilledForms) + high
  BY <1>3, <1>4, <1>5, <1>6, Gain
<1>11. requests' = Cardinality(counted')
  BY <1>1, <1>7 DEF CountInv
<1>12. errors \in Nat /\ errors' \in Nat
  BY StepType DEF TypeOK, Step
<1>13. errors' \in Cardinality(unhandled') + Cardinality(unremoved')
                     .. Cardinality(unhandled') + Cardinality(spilledForms')
  <2> DEFINE u == Cardinality(unhandled)
             v == Cardinality(unremoved)
             w == Cardinality(spilledForms)
  <2>1. u \in Nat /\ v \in Nat /\ w \in Nat /\ errors \in u + v .. u + w
    BY <1>8, <1>9, <1>10 DEF CountInv
  <2> HIDE DEF u, v, w
  <2>2. errors' \in (u + a) + (v + low) .. (u + a) + (w + high)
    BY <1>1, <1>6, <1>12, <2>1, BetweenKept
  <2> QED
    BY <1>8, <1>9, <1>10, <2>2 DEF u, v, w
<1> QED
  BY <1>11, <1>13 DEF CountInv

(***************************************************************************)
(* The theorems.                                                           *)
(***************************************************************************)
\* Every step keeps the invariant.
LEMMA NextIInv == IInv /\ [Next]_vars => IInv'
<1> SUFFICES ASSUME IInv, [Next]_vars PROVE IInv'
  OBVIOUS
<1>1. CASE UNCHANGED vars
  BY <1>1 DEF vars, IInv, TypeOK, RouteInv, AnswerInv, FormInv, TelemetryInv, CountInv,
              counted, unhandled, unremoved, spilledForms, closedForms
<1>2. ASSUME NEW r \in Requests, Step(r) \/ Break(r) PROVE IInv'
  <2>1. \A q \in Requests : LocalInv(q)
    BY DEF IInv, LocalInv
  <2>2. TypeOK'
    BY <1>2, StepType DEF IInv
  <2>3. \A q \in Requests : LocalInv(q)'
    BY <1>2, <2>1, LocalStep DEF IInv
  <2>4. CountInv'
    BY <1>2, <2>1, CountKept, CountReturn DEF IInv
  <2> QED
    BY <2>2, <2>3, <2>4 DEF IInv, LocalInv
<1> QED
  BY <1>1, <1>2 DEF Next

\* The invariant always holds.
THEOREM Invariance == Spec => []IInv
<1> QED
  BY InitIInv, NextIInv, PTL DEF Spec

\* Every variable keeps its type.
THEOREM TypeCorrect == Spec => []TypeOK
<1>1. IInv => TypeOK
  BY DEF IInv
<1> QED
  BY <1>1, Invariance, PTL

\* A client that receives 200 has its file stored, one that is refused has not.
THEOREM TruthfulAnswer == Spec => []AnswerTellsTruth
<1>1. IInv => AnswerTellsTruth
  <2> SUFFICES ASSUME IInv, NEW r \in Requests
               PROVE  /\ received[r] = 200 => r \in stored
                      /\ received[r] \in Refusals => r \notin stored
    BY DEF AnswerTellsTruth, Refusals
  <2>1. AnswerInv(r)
    BY DEF IInv
  <2> QED
    BY <2>1 DEF AnswerInv, Refusals
<1> QED
  BY <1>1, Invariance, PTL

\* Authentication comes before anything that lasts.
THEOREM AuthenticatedFirst == Spec => []NothingKeptBeforeAuthentication
<1>1. IInv => NothingKeptBeforeAuthentication
  <2> SUFFICES ASSUME IInv, NEW r \in Requests, opened[r] # "none" \/ r \in stored
               PROVE  /\ http[r].path = "/upload" /\ http[r].method = "POST"
                      /\ http[r].authorization # << >> /\ http[r].authorization[1] = "right"
    BY DEF NothingKeptBeforeAuthentication
  <2>1. routed(http[r]) /\ authenticated(http[r])
    BY DEF IInv, RouteInv
  <2>2. \E i \in DOMAIN http[r].authorization : TRUE
    BY <2>1 DEF authenticated, findAuthorization
  <2>3. DOMAIN << >> = {}
    OBVIOUS
  <2>4. http[r].authorization # << >>
    BY <2>2, <2>3
  <2> QED
    BY <2>1, <2>4 DEF routed, authenticated
<1> QED
  BY <1>1, Invariance, PTL

\* No temporary file is left behind unreported.
THEOREM FormFilesSeenTo == Spec => []FormFilesRemovedOrReported
<1>1. IInv => FormFilesRemovedOrReported
  BY DEF IInv, FormInv, Returned, FormFilesRemovedOrReported
<1> QED
  BY <1>1, Invariance, PTL

\* What telemetry records of an answer is what the client received; where it is
\* another status, nobody received any and the failure is recorded as well.
THEOREM TelemetryAgrees == Spec => []TelemetryMatchesAnswer
<1>1. IInv => TelemetryMatchesAnswer
  <2> SUFFICES ASSUME IInv, NEW r \in Requests, stage[r] = "over", span[r] # "none"
               PROVE  /\ received[r] # 0 =>
                           recorder[r] = received[r]
                             /\ (received[r] >= 400 <=> span[r] = "Error")
                      /\ recorder[r] # head[r] =>
                           /\ recorder[r] = 500 /\ received[r] = 0
                           /\ "recordError" \in deferred[r]
                           /\ head[r] >= 400 => span[r] = "Error"
    BY DEF TelemetryMatchesAnswer
  <2>1. AnswerInv(r) /\ TelemetryInv(r) /\ conn[r] \in {"open", "broken"}
    BY DEF IInv, TypeOK
  <2>2. received[r] # 0 => conn[r] = "open" /\ received[r] = head[r]
    BY <2>1 DEF AnswerInv, TelemetryInv
  <2>3. recorder[r] # head[r] =>
          /\ recorder[r] = 500 /\ conn[r] = "broken" /\ "recordError" \in deferred[r]
          /\ head[r] >= 400 => span[r] = "Error"
    BY <2>1 DEF TelemetryInv, Returned
  <2> QED
    BY <2>1, <2>2, <2>3 DEF TelemetryInv, Returned
<1> QED
  BY <1>1, Invariance, PTL

\* Once every handler returned, the request counter is the number of calls, and
\* the error counter between what certainly failed and what may have: each form
\* or answer that failed, each form left, and perhaps each spilled form that was
\* removed but whose descriptor could not be closed.
THEOREM CountersExact == Spec => []CountersAddUp
<1>1. IInv => CountersAddUp
  <2> SUFFICES ASSUME IInv, \A r \in Requests : stage[r] \in Returned
               PROVE  LET failed == Cardinality({r \in Requests : "recordError" \in deferred[r]})
                          closed(files) ==
                            Cardinality({r \in Requests :
                                           "close" \in deferred[r] /\ opened[r] \in files})
                      IN  /\ requests = Cardinality({r \in Requests : span[r] # "none"})
                          /\ errors \in failed + closed({"left"})
                                          .. failed + closed({"left", "removed"})
    BY DEF CountersAddUp, Returned
  <2>1. /\ counted = {r \in Requests : span[r] # "none"}
        /\ unhandled = {r \in Requests : "recordError" \in deferred[r]}
        /\ unremoved = {r \in Requests : "close" \in deferred[r] /\ opened[r] \in {"left"}}
        /\ spilledForms = {r \in Requests :
                             "close" \in deferred[r] /\ opened[r] \in {"left", "removed"}}
    BY DEF counted, unhandled, unremoved, spilledForms, closedForms
  <2> QED
    BY <2>1 DEF IInv, CountInv
<1> QED
  BY <1>1, Invariance, PTL

(***************************************************************************)
(* Bodies: which one the handler writes with which status, as the client's *)
(* decoder needs to know it (ClientProofs).  Not every pair is one that    *)
(* the API describes: see BadRequestIsAnError.                             *)
(***************************************************************************)

\* What is written belongs together: a status and its body.
LEMMA BodyStep ==
  ASSUME IInv, NEW r \in Requests, BodyInv(r), Step(r) \/ Break(r)
  PROVE  BodyInv(r)'
<1> USE DEF BodyInv, Unanswered, BeforeForm, Encoding
<1>1. TypeOK /\ AnswerInv(r) /\ http' = http
  BY StepFrame DEF IInv, Frame
<1>2. stage[r] \in Unanswered => head[r] = 0
  BY <1>1 DEF AnswerInv
<1>3. CASE ServeHTTP(r)
  BY <1>1, <1>3 DEF ServeHTTP, goto, TypeOK, routed
<1>4. CASE Security(r)
  <2>1. \/ stage'[r] = "parse"
        \/ head'[r] = 401 /\ body'[r] = "Error"
    BY <1>1, <1>2, <1>4 DEF Security, goto, writeHeader, newErrorStatus, TypeOK
  <2> QED
    BY <2>1 DEF Bodies
<1>5. CASE ParseForm(r) \/ OpenFile(r)
  <2>1. stage[r] \in {"parse", "form"}
    BY <1>5 DEF ParseForm, OpenFile
  <2>2. \/ stage'[r] \in {"form", "upload"}
        \/ head'[r] \in {400, 415} /\ body'[r] = "error_message"
    BY <1>1, <1>2, <1>5, <2>1
       DEF ParseForm, OpenFile, decodeFails, goto, writeHeader, decodeStatus, TypeOK
  <2> QED
    BY <2>2 DEF Bodies
<1>6. CASE UploadFile(r)
  BY <1>1, <1>6 DEF UploadFile, goto, TypeOK
<1>7. CASE EncodeResponse(r)
  <2>1. \/ head'[r] = 200 /\ body'[r] = "UploadResponse"
        \/ head'[r] \in {400, 500} /\ body'[r] = "Error"
    BY <1>1, <1>7 DEF EncodeResponse, encode, TypeOK
  <2> QED
    BY <2>1 DEF Bodies
<1>8. CASE Return(r)
  BY <1>1, <1>8 DEF Return, goto, TypeOK
<1>9. CASE Flush(r)
  BY <1>1, <1>9 DEF Flush, goto, TypeOK
<1>10. CASE Break(r)
  BY <1>1, <1>10 DEF Break
<1> QED
  BY <1>3, <1>4, <1>5, <1>6, <1>7, <1>8, <1>9, <1>10 DEF Step

\* Every step keeps it for every request.
LEMMA NextBodies ==
  IInv /\ (\A r \in Requests : BodyInv(r)) /\ [Next]_vars => (\A r \in Requests : BodyInv(r))'
<1> SUFFICES ASSUME IInv, \A r \in Requests : BodyInv(r), [Next]_vars, NEW q \in Requests
             PROVE  BodyInv(q)'
  OBVIOUS
<1>1. CASE UNCHANGED vars
  BY <1>1 DEF vars, BodyInv
<1>2. ASSUME NEW r \in Requests, Step(r) \/ Break(r) PROVE BodyInv(q)'
  <2>1. CASE q = r
    BY <1>2, <2>1, BodyStep
  <2>2. CASE q # r
    <3>1. http' = http /\ stage'[q] = stage[q] /\ head'[q] = head[q] /\ body'[q] = body[q]
      BY <1>2, <2>2, StepFrame DEF IInv, Frame
    <3> QED
      BY <3>1 DEF BodyInv
  <2> QED
    BY <2>1, <2>2
<1> QED
  BY <1>1, <1>2 DEF Next

\* At first nothing was answered.
LEMMA InitBodies == Init => \A r \in Requests : BodyInv(r)
BY DEF Init, BodyInv, Unanswered, BeforeForm
=============================================================================
