------------------------- MODULE UploadServiceProofs -------------------------
(***************************************************************************)
(* The whole server, for any number of requests, names, files and          *)
(* attempts: its parts behave in it as they do alone, and its answers      *)
(* agree with the bucket.                                                  *)
(***************************************************************************)
EXTENDS UploadService, GcsUploadProofs

(***************************************************************************)
(* The parts.                                                              *)
(***************************************************************************)

\* Every step of the server is a step of the uploads or leaves them alone.
LEMMA GcsStep == [ServiceNext]_serviceVars => [Next]_vars
<1> SUFFICES ASSUME [ServiceNext]_serviceVars PROVE Next \/ UNCHANGED vars
  OBVIOUS
<1>1. CASE UNCHANGED serviceVars
  BY <1>1 DEF serviceVars
<1>2. ASSUME NEW r \in Requests, Step(r) \/ Break(r) \/ EndContext(r)
      PROVE  Next \/ UNCHANGED vars
  BY <1>2 DEF Step, Handle, Upload, Finish, Break, EndContext, Next
<1>3. CASE Process
  BY <1>3 DEF Process
<1>4. CASE End
  BY <1>4 DEF End, Next
<1>5. CASE Storage
  BY <1>5 DEF Storage, Next
<1> QED
  BY <1>1, <1>2, <1>3, <1>4, <1>5 DEF ServiceNext

\* The uploads keep their invariant in the server.
LEMMA GcsInvariance == ServiceSpec => []IInv
<1>1. ServiceInit => IInv
  BY InitIInv DEF ServiceInit
<1>2. IInv /\ [ServiceNext]_serviceVars => IInv'
  BY GcsStep, NextIInv
<1> QED
  BY <1>1, <1>2, PTL DEF ServiceSpec

\* Every step of the server is a step of the process or leaves it alone.
LEMMA ProcStep == [ServiceNext]_serviceVars => [Proc!Next]_(Proc!vars)
<1> SUFFICES ASSUME [ServiceNext]_serviceVars PROVE Proc!Next \/ UNCHANGED Proc!vars
  OBVIOUS
<1>0. UNCHANGED procVars => UNCHANGED Proc!vars
  BY DEF procVars, Proc!vars
<1>1. CASE UNCHANGED serviceVars
  BY <1>0, <1>1 DEF serviceVars
<1>2. ASSUME NEW r \in Requests, Step(r) \/ Break(r) \/ EndContext(r)
      PROVE  Proc!Next \/ UNCHANGED procVars
  BY <1>2 DEF Step, Handle, Upload, Finish, Break, EndContext, Proc!Next
<1>3. CASE Process
  BY <1>3 DEF Process
<1>4. CASE End
  BY <1>4 DEF End, Proc!Next, Proc!Main
<1>5. CASE Storage
  BY <1>0, <1>5 DEF Storage
<1> QED
  BY <1>0, <1>1, <1>2, <1>3, <1>4, <1>5 DEF ServiceNext

\* Only the return of an upload changes what counts as stored.
LEMMA StoredKept ==
  ASSUME UNCHANGED response
  PROVE  UNCHANGED stored
BY DEF stored

\* What a step of an upload does to its own call.
LEMMA UploadEffect ==
  ASSUME IInv, NEW r \in Requests, Upload(r)
  PROVE  /\ stage[r] = "upload" /\ UNCHANGED input
         /\ pc[r] # "done" /\ response[r].err = "none"
         /\ pc'[r] # "new" /\ (pc'[r] = "done" <=> response'[r].err # "none")
         /\ \A q \in Requests \ {r} : pc'[q] = pc[q] /\ response'[q] = response[q]
         /\ pc'[r] = "done" => response'[r].err \in {"nil", "ErrUpload"} \cup Errors
<1>1. Next
  BY DEF Upload, Next
<1>2. IInv'
  BY <1>1, NextIInv
<1>3. pc \in [Requests -> {"new"} \cup Active \cup Returned] /\ DOMAIN response = Requests
  BY DEF IInv, TypeOK
<1>4. /\ pc[r] \in {"new", "begin", "copying", "aborting", "closing", "backoff"}
      /\ pc'[r] # "new"
      /\ \A q \in Requests \ {r} : pc'[q] = pc[q] /\ response'[q] = response[q]
  BY <1>3 DEF Upload, UploadToGcs, BeginAttempt, Attempt, CopyFails, FinishCopy, Close,
              CloseOk, CloseFails, attemptFailed, return
<1>5. pc[r] # "done" /\ response[r].err = "none"
  BY <1>4 DEF IInv, CallInv
<1>6. pc'[r] = "done" <=> response'[r].err # "none"
  BY <1>2 DEF IInv, CallInv
<1>7. response'[r].err \in {"none", "nil", "ErrUpload"} \cup Errors
  BY <1>2 DEF IInv, TypeOK
<1> QED
  BY <1>1, <1>4, <1>5, <1>6, <1>7, InputConstant DEF Upload

\* A step of an upload is the step UploadFile of the request, when it is the
\* return, and otherwise nothing the request sees.
LEMMA UploadIsUploadFile ==
  ASSUME IInv, NEW r \in Requests, Upload(r)
  PROVE  Http!UploadFile(r) \/ UNCHANGED Http!vars
<1>1. /\ stage[r] = "upload" /\ pc[r] # "done" /\ response[r].err = "none"
      /\ pc'[r] = "done" <=> response'[r].err # "none"
      /\ \A q \in Requests \ {r} : response'[q] = response[q]
      /\ pc'[r] = "done" => response'[r].err \in {"nil", "ErrUpload"} \cup Errors
  BY UploadEffect
<1>2. UNCHANGED <<http, conn, recorder, head, body, received, span, deferred, opened, requests,
                  errors>>
  BY DEF Upload
<1>3. stage' = IF pc'[r] = "done"
               THEN [stage EXCEPT ![r] = answerFor(response'[r].err)] ELSE stage
  BY DEF Upload
<1>4. r \notin stored /\ stored' \in {stored, stored \cup {r}}
      /\ (r \in stored' <=> response'[r].err \in {"nil", "ErrUpload"})
  BY <1>1 DEF stored
<1>5. CASE pc'[r] # "done"
  <2>1. UNCHANGED stored
    BY <1>1, <1>4, <1>5
  <2> QED
    BY <1>2, <1>3, <1>5, <2>1 DEF Http!vars
<1>6. CASE pc'[r] = "done" /\ response'[r].err = "nil"
  BY <1>1, <1>2, <1>3, <1>4, <1>6 DEF answerFor, Http!UploadFile, Http!goto
<1>7. CASE pc'[r] = "done" /\ response'[r].err \in Errors
  BY <1>1, <1>2, <1>3, <1>4, <1>7 DEF answerFor, Errors, Http!UploadFile, Http!goto
<1>8. CASE pc'[r] = "done" /\ response'[r].err = "ErrUpload"
  BY <1>1, <1>2, <1>3, <1>4, <1>8 DEF answerFor, Errors, Http!UploadFile, Http!goto
<1> QED
  BY <1>1, <1>5, <1>6, <1>7, <1>8

\* Every step of the server is a step of one request or leaves them alone.
LEMMA HttpStep == IInv /\ [ServiceNext]_serviceVars => [Http!Next]_(Http!vars)
<1> SUFFICES ASSUME IInv, [ServiceNext]_serviceVars
             PROVE  Http!Next \/ UNCHANGED Http!vars
  OBVIOUS
<1>0. UNCHANGED <<httpVars, response>> => UNCHANGED Http!vars
  BY StoredKept DEF httpVars, Http!vars
<1>1. CASE UNCHANGED serviceVars
  BY <1>0, <1>1 DEF serviceVars, vars
<1>2. ASSUME NEW r \in Requests, Handle(r) \/ Finish(r) \/ Break(r)
      PROVE  Http!Next
  BY <1>2 DEF Handle, Finish, Break, Http!Next, Http!Step
<1>3. ASSUME NEW r \in Requests, Upload(r)
      PROVE  Http!Next \/ UNCHANGED Http!vars
  BY <1>3, UploadIsUploadFile DEF Http!Next, Http!Step
<1>4. ASSUME NEW r \in Requests, EndContext(r)
      PROVE  UNCHANGED <<httpVars, response>>
  BY <1>4 DEF EndContext, Cancel
<1>5. CASE Process
  BY <1>0, <1>5 DEF Process, vars
<1>6. CASE End
  BY <1>0, <1>6 DEF End, ProcessExit, vars
<1>7. CASE Storage
  BY <1>0, <1>7 DEF Storage, GcsApply, GcsLose
<1> QED
  BY <1>0, <1>1, <1>2, <1>3, <1>4, <1>5, <1>6, <1>7 DEF ServiceNext, Step

\* The process, the requests and the uploads behave in the server as they do
\* alone: what their theorems say of them holds of the server, and the step
\* UploadFile of RequestPipeline allows all that UploadToGcs can do.
THEOREM PartsImplemented == ServiceSpec => PartsBehave
<1>1. ServiceInit => Init /\ Proc!Init /\ Http!Init
  BY DEF ServiceInit
<1>2. [ServiceNext]_serviceVars => [Next]_vars
  BY GcsStep
<1>3. [ServiceNext]_serviceVars => [Proc!Next]_(Proc!vars)
  BY ProcStep
<1>4. IInv /\ [ServiceNext]_serviceVars => [Http!Next]_(Http!vars)
  BY HttpStep
<1> QED
  BY <1>1, <1>2, <1>3, <1>4, GcsInvariance, PTL
  DEF ServiceSpec, PartsBehave, HttpBehaves, ProcBehaves, GcsBehaves

(***************************************************************************)
(* The answers and the bucket.                                             *)
(***************************************************************************)

\* A step of one request leaves what links the others alone.
LEMMA LinkAt ==
  ASSUME LinkInv, NEW r \in Requests, AnswerLink(r)',
         stage' \in [Requests -> Http!Stages], head' \in [Requests -> Http!Statuses],
         received' \in [Requests -> Http!Statuses],
         \A q \in Requests \ {r} :
           /\ stage'[q] = stage[q] /\ head'[q] = head[q] /\ received'[q] = received[q]
           /\ pc'[q] = pc[q] /\ response'[q] = response[q]
  PROVE  LinkInv'
<1> SUFFICES ASSUME NEW q \in Requests PROVE AnswerLink(q)'
  BY DEF LinkInv
<1>1. CASE q = r
  BY <1>1
<1>2. CASE q # r
  BY <1>2 DEF LinkInv, AnswerLink
<1> QED
  BY <1>1, <1>2

\* The handler chooses a status before the upload without it, and after it
\* the one its error calls for.
LEMMA HandleLink ==
  ASSUME LinkInv, NEW r \in Requests, Handle(r)
  PROVE  LinkInv'
<1>1. UNCHANGED <<pc, response, received>>
  <2>1. UNCHANGED <<pc, response>>
    BY DEF Handle, vars
  <2>2. UNCHANGED received
    BY DEF Handle, Http!ServeHTTP, Http!Security, Http!ParseForm, Http!OpenFile,
           Http!EncodeResponse, Http!encode, Http!Return
  <2> QED
    BY <2>1, <2>2
<1> USE DEF LinkInv, AnswerLink, BeforeUpload, Refusals, Http!Stages, Http!Statuses, Http!goto
<1>2. CASE Http!ServeHTTP(r)
  <2>1. AnswerLink(r)'
    BY <1>1, <1>2 DEF Http!ServeHTTP, Http!unrouted
  <2> QED
    BY <1>1, <1>2, <2>1, LinkAt DEF Http!ServeHTTP, Http!unrouted
<1>3. CASE Http!Security(r)
  <2>1. AnswerLink(r)'
    BY <1>1, <1>3 DEF Http!Security, Http!writeHeader, Http!newErrorStatus
  <2> QED
    BY <1>1, <1>3, <2>1, LinkAt DEF Http!Security, Http!writeHeader, Http!newErrorStatus
<1>4. CASE stage[r] \in {"parse", "form"} /\ Http!decodeFails(r)
  <2>1. AnswerLink(r)'
    BY <1>1, <1>4 DEF Http!decodeFails, Http!writeHeader, Http!decodeStatus
  <2> QED
    BY <1>1, <1>4, <2>1, LinkAt DEF Http!decodeFails, Http!writeHeader, Http!decodeStatus
<1>5. CASE stage[r] \in {"parse", "form"} /\ head' = head /\ Http!goto(r, stage'[r])
           /\ stage'[r] \in {"form", "upload"}
  <2>1. AnswerLink(r)'
    BY <1>1, <1>5
  <2> QED
    BY <1>1, <1>5, <2>1, LinkAt
<1>6. Http!ParseForm(r) \/ Http!OpenFile(r) =>
        /\ stage[r] \in {"parse", "form"}
        /\ \/ Http!decodeFails(r)
           \/ head' = head /\ Http!goto(r, stage'[r]) /\ stage'[r] \in {"form", "upload"}
  BY DEF Http!ParseForm, Http!OpenFile
<1>7. CASE Http!EncodeResponse(r)
  <2>1. AnswerLink(r)'
    BY <1>1, <1>7 DEF Http!EncodeResponse, Http!encode
  <2> QED
    BY <1>1, <1>7, <2>1, LinkAt DEF Http!EncodeResponse, Http!encode
<1>8. CASE Http!Return(r)
  <2>1. stage[r] = "return" /\ head' = head /\ stage' = [stage EXCEPT ![r] = "flush"]
    BY <1>8 DEF Http!Return
  <2>2. AnswerLink(r)'
    BY <1>1, <2>1
  <2> QED
    BY <1>1, <2>1, <2>2, LinkAt
<1> QED
  BY <1>2, <1>3, <1>4, <1>5, <1>6, <1>7, <1>8 DEF Handle

\* The stage after the upload is chosen from the error it returned.
LEMMA UploadLink ==
  ASSUME IInv, LinkInv, NEW r \in Requests, Upload(r)
  PROVE  LinkInv'
<1> USE DEF LinkInv, AnswerLink, BeforeUpload, Refusals, Http!Stages, Http!Statuses
<1>1. /\ stage[r] = "upload"
      /\ \A q \in Requests \ {r} : pc'[q] = pc[q] /\ response'[q] = response[q]
      /\ pc'[r] = "done" => response'[r].err \in {"nil", "ErrUpload"} \cup Errors
  BY UploadEffect
<1>2. /\ UNCHANGED <<head, received>>
      /\ stage' = IF pc'[r] = "done"
                  THEN [stage EXCEPT ![r] = answerFor(response'[r].err)] ELSE stage
  BY DEF Upload
<1>3. /\ answerFor(response'[r].err) \in {"encode200", "encode400", "encode500"}
      /\ answerFor(response'[r].err) = "encode200" => response'[r].err = "nil"
      /\ answerFor(response'[r].err) = "encode400" => response'[r].err \in Errors
  BY DEF answerFor
<1>4. CASE pc'[r] = "done"
  <2>1. stage' = [stage EXCEPT ![r] = answerFor(response'[r].err)]
    BY <1>2, <1>4
  <2>2. AnswerLink(r)'
    BY <1>1, <1>2, <1>3, <2>1
  <2> QED
    BY <1>1, <1>2, <1>3, <2>1, <2>2, LinkAt
<1>5. CASE pc'[r] # "done"
  <2>1. UNCHANGED <<stage, head, received>>
    BY <1>2, <1>5
  <2>2. AnswerLink(r)'
    BY <1>1, <1>5, <2>1
  <2> QED
    BY <1>1, <2>1, <2>2, LinkAt
<1> QED
  BY <1>4, <1>5

\* What was chosen is what the client receives, if anything.
LEMMA FinishLink ==
  ASSUME LinkInv, NEW r \in Requests, Finish(r)
  PROVE  LinkInv'
<1> USE DEF LinkInv, AnswerLink, BeforeUpload, Refusals, Http!Stages, Http!Statuses
<1>1. /\ UNCHANGED <<pc, response, head>> /\ stage[r] = "flush"
      /\ stage' = [stage EXCEPT ![r] = "over"]
      /\ received' = [received EXCEPT ![r] = IF conn[r] = "open" THEN head[r] ELSE 0]
  BY DEF Finish, vars, Http!Flush, Http!goto
<1>2. AnswerLink(r)'
  BY <1>1
<1> QED
  BY <1>1, <1>2, LinkAt

\* The end of the process takes back no answer.
LEMMA EndLink ==
  ASSUME IInv, LinkInv, End
  PROVE  LinkInv'
<1>1. /\ UNCHANGED <<stage, head, received, response>>
      /\ \A r \in Requests : pc'[r] = pc[r] \/ (pc[r] \in Active /\ pc'[r] = "crashed")
  <2>1. UNCHANGED <<stage, head, received>>
    BY DEF End, httpVars
  <2>2. CASE ProcessExit
    BY <2>1, <2>2 DEF ProcessExit
  <2>3. CASE UNCHANGED vars
    BY <2>1, <2>3 DEF vars
  <2> QED
    BY <2>2, <2>3 DEF End
<1> QED
  BY <1>1 DEF LinkInv, AnswerLink, Active

\* Every step keeps the link between the answers and the uploads.
LEMMA LinkStep == IInv /\ LinkInv /\ [ServiceNext]_serviceVars => LinkInv'
<1> SUFFICES ASSUME IInv, LinkInv, [ServiceNext]_serviceVars PROVE LinkInv'
  OBVIOUS
<1>0. UNCHANGED <<stage, head, received, pc, response>> => LinkInv'
  BY DEF LinkInv, AnswerLink
<1>1. CASE UNCHANGED serviceVars
  BY <1>0, <1>1 DEF serviceVars, vars, httpVars
<1>2. ASSUME NEW r \in Requests, Step(r) PROVE LinkInv'
  BY <1>2, HandleLink, UploadLink, FinishLink DEF Step
<1>3. ASSUME NEW r \in Requests, Break(r) \/ EndContext(r)
      PROVE  UNCHANGED <<stage, head, received, pc, response>>
  BY <1>3 DEF Break, EndContext, Cancel, Http!Break, vars, httpVars
<1>4. CASE Process
  BY <1>0, <1>4 DEF Process, vars, httpVars
<1>5. CASE End
  BY <1>5, EndLink
<1>6. CASE Storage
  BY <1>0, <1>6 DEF Storage, GcsApply, GcsLose, httpVars
<1> QED
  BY <1>0, <1>1, <1>2, <1>3, <1>4, <1>5, <1>6 DEF ServiceNext

\* The link between the answers and the uploads always holds.
LEMMA LinkInvariance == ServiceSpec => [](IInv /\ LinkInv)
<1>1. ServiceInit => LinkInv
  BY DEF ServiceInit, Init, Http!Init, LinkInv, AnswerLink, BeforeUpload, Refusals,
         Http!Stages, Http!Statuses
<1>2. IInv /\ LinkInv /\ [ServiceNext]_serviceVars => LinkInv'
  BY LinkStep
<1> QED
  BY <1>1, <1>2, GcsInvariance, PTL DEF ServiceSpec

\* A client that receives 200 has its whole file in the bucket, or a later
\* one of that name; nothing was ever sent of what was refused.
THEOREM AnswersMatch == ServiceSpec => []AnswerMatchesBucket
<1>1. IInv /\ LinkInv => AnswerMatchesBucket
  <2> SUFFICES ASSUME IInv, LinkInv, NEW r \in Requests
               PROVE  /\ received[r] = 200 =>
                           /\ \E w \in applied : w.req = r /\ w.size = size(r)
                           /\ \E w \in bucket : w.object = object(r)
                      /\ received[r] \in Refusals =>
                           \A w \in inflight \cup applied : w.req # r
    BY DEF AnswerMatchesBucket, Refusals
  <2>0. AnswerLink(r)
    BY DEF LinkInv
  <2>1. ASSUME received[r] = 200
        PROVE  /\ \E w \in applied : w.req = r /\ w.size = size(r)
               /\ \E w \in bucket : w.object = object(r)
    <3>1. response[r].err = "nil"
      BY <2>0, <2>1 DEF AnswerLink
    <3>2. PICK w \in applied : w.req = r
      BY <3>1 DEF IInv, SuccessInv
    <3>3. w.size = size(r) /\ w.object = object(r)
      BY <3>2 DEF IInv, OnlyCompleteValidObjects
    <3> QED
      BY <3>2, <3>3 DEF IInv, BucketInv
  <2>2. ASSUME received[r] \in Refusals, NEW w \in inflight \cup applied, w.req = r
        PROVE  FALSE
    <3>1. CASE pc[r] = "new"
      <4>1. attempt[r] = 0 /\ w.attempt <= attempt[r]
        BY <2>2, <3>1 DEF IInv, CallInv, WriteInv
      <4>2. w.attempt \in 1 .. MaxAttempts
        BY DEF IInv, TypeOK, Writes
      <4> QED
        BY <4>1, <4>2, MaxAttemptsAssumption
    <3>2. CASE response[r].err \in Errors
      BY <2>2, <3>2 DEF IInv, CallInv, OnlyCompleteValidObjects
    <3> QED
      BY <2>0, <2>2, <3>1, <3>2 DEF AnswerLink, Refusals
  <2> QED
    BY <2>1, <2>2
<1> QED
  BY <1>1, LinkInvariance, PTL


(***************************************************************************)
(* What is proved of the process and of the requests alone holds in the    *)
(* server.  The instances of the proofs have definitions of their own,     *)
(* equal to those of the instances of the parts.                           *)
(***************************************************************************)
ProcProofs == INSTANCE ServerLifecycleProofs
HttpProofs == INSTANCE RequestPipelineProofs

\* The process keeps its invariant in the server.
LEMMA ProcInvariance == ServiceSpec => []Proc!IInv
<1>1. ProcProofs!IInv <=> Proc!IInv
  BY DEF ProcProofs!IInv, Proc!IInv, ProcProofs!TypeOK, Proc!TypeOK,
        ProcProofs!ResourceInv, Proc!ResourceInv, ProcProofs!DrainInv, Proc!DrainInv,
        ProcProofs!ExitZeroMeansDrained, Proc!ExitZeroMeansDrained,
        ProcProofs!NothingLeaks, Proc!NothingLeaks, ProcProofs!SignalKillsNoRequest,
        Proc!SignalKillsNoRequest, ProcProofs!Phases, Proc!Phases,
        ProcProofs!RequestStates, Proc!RequestStates, ProcProofs!InHand, Proc!InHand,
        ProcProofs!Early, Proc!Early, ProcProofs!Unwinding, Proc!Unwinding
<1>2. Proc!Init => ProcProofs!Init
  BY DEF Proc!Init, ProcProofs!Init
<1>3. [Proc!Next]_(Proc!vars) => [ProcProofs!Next]_(ProcProofs!vars)
  BY DEF ProcProofs!NewClient, Proc!NewClient, ProcProofs!NewTelemetry,
        Proc!NewTelemetry, ProcProofs!NewServer, Proc!NewServer, ProcProofs!Listen,
        Proc!Listen, ProcProofs!Bind, Proc!Bind, ProcProofs!ServeReturns,
        Proc!ServeReturns, ProcProofs!ServeClosed, Proc!ServeClosed,
        ProcProofs!ServeFails, Proc!ServeFails, ProcProofs!become, Proc!become,
        ProcProofs!Accept, Proc!Accept, ProcProofs!Leave, Proc!Leave,
        ProcProofs!Serve, Proc!Serve, ProcProofs!Answer, Proc!Answer,
        ProcProofs!FinishCut, Proc!FinishCut, ProcProofs!SelectServerError,
        Proc!SelectServerError, ProcProofs!SelectSignal, Proc!SelectSignal,
        ProcProofs!Drained, Proc!Drained, ProcProofs!close, Proc!close,
        ProcProofs!DrainTimeout, Proc!DrainTimeout, ProcProofs!StopSignals,
        Proc!StopSignals, ProcProofs!CloseTelemetry, Proc!CloseTelemetry,
        ProcProofs!CloseGcs, Proc!CloseGcs, ProcProofs!die, Proc!die,
        ProcProofs!Exit, Proc!Exit, ProcProofs!Signal, Proc!Signal, ProcProofs!Main,
        Proc!Main, ProcProofs!Next, Proc!Next, ProcProofs!InHand, Proc!InHand,
        ProcProofs!vars, Proc!vars
<1>4. MaxSignals \in Nat
  BY ServiceAssumption
<1>5. ServiceInit => ProcProofs!IInv
  BY <1>2, <1>4, ProcProofs!InitIInv DEF ServiceInit
<1>6. ProcProofs!IInv /\ [ServiceNext]_serviceVars => ProcProofs!IInv'
  BY <1>3, <1>4, ProcStep, ProcProofs!NextIInv
<1> QED
  BY <1>1, <1>5, <1>6, PTL DEF ServiceSpec

\* The requests keep their invariant in the server.
LEMMA HttpInvariance == ServiceSpec => []Http!IInv
<1>1. HttpProofs!IInv <=> Http!IInv
  <2>1. HttpProofs!TypeOK <=> Http!TypeOK
    BY DEF HttpProofs!TypeOK, Http!TypeOK, HttpProofs!Statuses, Http!Statuses,
           HttpProofs!SpanStatuses, Http!SpanStatuses, HttpProofs!Shapes, Http!Shapes,
           HttpProofs!Stages, Http!Stages
  <2>2. ASSUME NEW r \in Requests
        PROVE  /\ HttpProofs!RouteInv(r) <=> Http!RouteInv(r)
               /\ HttpProofs!AnswerInv(r) <=> Http!AnswerInv(r)
               /\ HttpProofs!FormInv(r) <=> Http!FormInv(r)
               /\ HttpProofs!TelemetryInv(r) <=> Http!TelemetryInv(r)
    BY DEF HttpProofs!RouteInv, Http!RouteInv, HttpProofs!AnswerInv, Http!AnswerInv,
           HttpProofs!FormInv, Http!FormInv, HttpProofs!TelemetryInv, Http!TelemetryInv,
           HttpProofs!BeforeForm, Http!BeforeForm, HttpProofs!Encoding, Http!Encoding,
           HttpProofs!Unanswered, Http!Unanswered, HttpProofs!Returned, Http!Returned,
           HttpProofs!Refusals, Http!Refusals, HttpProofs!routed, Http!routed,
           HttpProofs!authenticated, Http!authenticated, HttpProofs!findAuthorization,
           Http!findAuthorization
  <2>3. /\ HttpProofs!counted = Http!counted /\ HttpProofs!unhandled = Http!unhandled
        /\ HttpProofs!unremoved = Http!unremoved /\ HttpProofs!spilledForms = Http!spilledForms
    BY DEF HttpProofs!counted, Http!counted, HttpProofs!unhandled, Http!unhandled,
           HttpProofs!unremoved, Http!unremoved, HttpProofs!spilledForms, Http!spilledForms,
         HttpProofs!closedForms, Http!closedForms, HttpProofs!Returned, Http!Returned
  <2>4. ASSUME NEW S PROVE HttpProofs!Cardinality(S) = Http!Cardinality(S)
    BY DEF HttpProofs!Cardinality, Http!Cardinality
  <2>5. HttpProofs!CountInv <=> Http!CountInv
    BY <2>3, <2>4 DEF HttpProofs!CountInv, Http!CountInv
  <2> QED
    BY <2>1, <2>2, <2>5 DEF HttpProofs!IInv, Http!IInv
<1>2. Http!Init => HttpProofs!Init
  BY DEF Http!Init, HttpProofs!Init
<1>3. [Http!Next]_(Http!vars) => [HttpProofs!Next]_(HttpProofs!vars)
  BY DEF HttpProofs!setStatus, Http!setStatus, HttpProofs!defer, Http!defer,
        HttpProofs!goto, Http!goto, HttpProofs!writeHeader, Http!writeHeader,
        HttpProofs!unrouted, Http!unrouted, HttpProofs!ServeHTTP, Http!ServeHTTP,
        HttpProofs!newErrorStatus, Http!newErrorStatus, HttpProofs!findAuthorization,
        Http!findAuthorization, HttpProofs!authenticated, Http!authenticated,
        HttpProofs!Security, Http!Security, HttpProofs!decodeStatus,
        Http!decodeStatus, HttpProofs!decodeFails, Http!decodeFails,
        HttpProofs!removeAll, Http!removeAll,
        HttpProofs!closeRequestErrors, Http!closeRequestErrors, HttpProofs!ParseForm, Http!ParseForm,
        HttpProofs!OpenFile, Http!OpenFile, HttpProofs!UploadFile, Http!UploadFile,
        HttpProofs!encode, Http!encode, HttpProofs!EncodeResponse,
        Http!EncodeResponse, HttpProofs!recorded, Http!recorded, HttpProofs!Return,
        Http!Return, HttpProofs!Flush, Http!Flush, HttpProofs!Break, Http!Break,
        HttpProofs!Step, Http!Step, HttpProofs!Next, Http!Next, HttpProofs!vars,
        Http!vars
<1>4. HttpProofs!IsFiniteSet(Requests)
  BY ServiceAssumption DEF IsFiniteSet, HttpProofs!IsFiniteSet
<1>5. HttpRequests \subseteq HttpProofs!AllHttpRequests
  BY ServiceAssumption DEF Http!AllHttpRequests, HttpProofs!AllHttpRequests,
     Http!Authorizations, HttpProofs!Authorizations, Http!Forms, HttpProofs!Forms
<1>6. ServiceInit => HttpProofs!IInv
  BY <1>2, <1>4, <1>5, HttpProofs!InitIInv DEF ServiceInit
<1>7. IInv /\ HttpProofs!IInv /\ [ServiceNext]_serviceVars => HttpProofs!IInv'
  BY <1>3, <1>4, <1>5, HttpStep, HttpProofs!NextIInv
<1> QED
  BY <1>1, <1>6, <1>7, GcsInvariance, PTL DEF ServiceSpec

(***************************************************************************)
(* The exit.                                                               *)
(***************************************************************************)

\* Until the process ends a request, its handler alone moves it, and writes a
\* status before it returns.
LEMMA HandleLife ==
  ASSUME LinkInv, LifeInv, NEW r \in Requests, Handle(r)
  PROVE  LifeInv'
<1>1. /\ UNCHANGED <<pc, request, conn, received>>
      /\ request[r] \in {"running", "cut"}
  <2>1. UNCHANGED <<pc, request>> /\ request[r] \in {"running", "cut"}
    BY DEF Handle, vars, procVars, runs
  <2>2. UNCHANGED <<conn, received>>
    BY DEF Handle, Http!ServeHTTP, Http!Security, Http!ParseForm, Http!OpenFile,
           Http!EncodeResponse, Http!encode, Http!Return
  <2> QED
    BY <2>1, <2>2
<1>2. /\ stage[r] \notin {"upload", "over"} /\ stage'[r] # "over"
      /\ stage' = [stage EXCEPT ![r] = stage'[r]] /\ head' = [head EXCEPT ![r] = head'[r]]
      /\ stage'[r] \in {"return", "flush"} => head'[r] # 0
  <2> USE DEF LinkInv, LifeInv, LifeLink, Http!goto, Http!Stages
  <2>1. CASE Http!ServeHTTP(r)
    BY <2>1 DEF Http!ServeHTTP, Http!unrouted
  <2>2. CASE Http!Security(r)
    BY <2>2 DEF Http!Security, Http!writeHeader, Http!newErrorStatus, AnswerLink, BeforeUpload
  <2>3. CASE Http!ParseForm(r)
    BY <2>3 DEF Http!ParseForm, Http!decodeFails, Http!writeHeader, Http!decodeStatus,
                AnswerLink, BeforeUpload
  <2>4. CASE Http!OpenFile(r)
    BY <2>4 DEF Http!OpenFile, Http!decodeFails, Http!writeHeader, Http!decodeStatus,
                AnswerLink, BeforeUpload
  <2>5. CASE Http!EncodeResponse(r)
    BY <2>5 DEF Http!EncodeResponse, Http!encode
  <2>6. CASE Http!Return(r)
    <3>1. stage[r] = "return" /\ stage' = [stage EXCEPT ![r] = "flush"] /\ head' = head
      BY <2>6 DEF Http!Return
    <3> QED
      BY <3>1
  <2> QED
    BY <2>1, <2>2, <2>3, <2>4, <2>5, <2>6 DEF Handle
<1>3. stage \in [Requests -> Http!Stages] /\ head \in [Requests -> Http!Statuses]
  BY DEF LinkInv
<1> SUFFICES ASSUME NEW q \in Requests PROVE LifeLink(q)'
  BY DEF LifeInv
<1>4. LifeLink(q)
  BY DEF LifeInv
<1>5. CASE q # r
  <2>1. stage'[q] = stage[q] /\ head'[q] = head[q]
    BY <1>2, <1>3, <1>5
  <2> QED
    BY <1>1, <1>4, <2>1 DEF LifeLink
<1>6. CASE q = r
  BY <1>1, <1>2, <1>4, <1>6 DEF LifeLink
<1> QED
  BY <1>5, <1>6

\* An upload is under way in its stage only.
LEMMA UploadLife ==
  ASSUME IInv, LinkInv, LifeInv, NEW r \in Requests, Upload(r)
  PROVE  LifeInv'
<1>1. /\ stage[r] = "upload" /\ pc'[r] # "new" /\ request[r] \in {"running", "cut"}
      /\ \A q \in Requests \ {r} : pc'[q] = pc[q]
      /\ UNCHANGED <<head, received, conn, request>>
      /\ stage' = IF pc'[r] = "done"
                  THEN [stage EXCEPT ![r] = answerFor(response'[r].err)] ELSE stage
  BY UploadEffect DEF Upload, procVars, runs
<1>2. answerFor(response'[r].err) \in {"encode200", "encode400", "encode500"}
  BY DEF answerFor
<1>3. stage \in [Requests -> Http!Stages]
  BY DEF LinkInv
<1> SUFFICES ASSUME NEW q \in Requests PROVE LifeLink(q)'
  BY DEF LifeInv
<1>4. LifeLink(q)
  BY DEF LifeInv
<1>5. CASE q # r
  <2>1. stage'[q] = stage[q] /\ pc'[q] = pc[q]
    BY <1>1, <1>3, <1>5
  <2> QED
    BY <1>1, <1>4, <2>1 DEF LifeLink
<1>6. CASE q = r /\ pc'[r] = "done"
  <2>1. stage'[r] \in {"encode200", "encode400", "encode500"}
    BY <1>1, <1>2, <1>3, <1>6
  <2> QED
    BY <1>1, <1>4, <1>6, <2>1 DEF LifeLink, Active
<1>7. CASE q = r /\ pc'[r] # "done"
  <2>1. stage' = stage
    BY <1>1, <1>7
  <2> QED
    BY <1>1, <1>4, <1>7, <2>1 DEF LifeLink
<1> QED
  BY <1>5, <1>6, <1>7

\* net/http is done with a request when it has sent the answer or cannot.
LEMMA FinishLife ==
  ASSUME LinkInv, LifeInv, Proc!IInv, Http!IInv, NEW r \in Requests, Finish(r)
  PROVE  LifeInv'
<1>1. /\ UNCHANGED <<pc, head, conn>> /\ stage[r] = "flush"
      /\ stage' = [stage EXCEPT ![r] = "over"]
      /\ received' = [received EXCEPT ![r] = IF conn[r] = "open" THEN head[r] ELSE 0]
  BY DEF Finish, vars, Http!Flush, Http!goto
<1>2. PICK to \in {"answered", "unanswered"} : request' = [request EXCEPT ![r] = to]
  BY DEF Finish, Proc!Answer, Proc!FinishCut, Proc!become
<1>3. /\ stage \in [Requests -> Http!Stages] /\ received \in [Requests -> Http!Statuses]
      /\ request \in [Requests -> Proc!RequestStates]
      /\ conn[r] \in {"open", "broken"}
  BY DEF LinkInv, Proc!IInv, Proc!TypeOK, Http!IInv, Http!TypeOK
<1> SUFFICES ASSUME NEW q \in Requests PROVE LifeLink(q)'
  BY DEF LifeInv
<1>4. LifeLink(q)
  BY DEF LifeInv
<1>5. CASE q # r
  <2>1. stage'[q] = stage[q] /\ received'[q] = received[q] /\ request'[q] = request[q]
    BY <1>1, <1>2, <1>3, <1>5
  <2> QED
    BY <1>1, <1>4, <2>1 DEF LifeLink
<1>6. CASE q = r
  <2>1. /\ stage[r] = "flush" /\ stage'[r] = "over" /\ request'[r] \in {"answered", "unanswered"}
        /\ received'[r] = IF conn[r] = "open" THEN head[r] ELSE 0
    BY <1>1, <1>2, <1>3
  <2> QED
    BY <1>1, <1>3, <1>4, <1>6, <2>1 DEF LifeLink
<1> QED
  BY <1>5, <1>6

\* The process alone takes no request back or forth that a handler has begun.
LEMMA ProcessLife ==
  ASSUME LifeInv, Proc!IInv, Process
  PROVE  LifeInv'
<1>1. UNCHANGED <<pc, stage, head, received, conn>>
  BY DEF Process, vars, httpVars
<1> SUFFICES ASSUME NEW r \in Requests PROVE LifeLink(r)'
  BY DEF LifeInv
<1>2. request'[r] \in {"answered", "unanswered"} => request'[r] = request[r]
  BY DEF Process
<1>3. request'[r] \in {"none", "connected"} => request[r] \in {"none", "connected"}
  <2> USE DEF Proc!IInv, Proc!TypeOK
  <2>1. CASE Proc!Signal \/ Proc!Exit
    BY <2>1 DEF Process, Proc!Signal, Proc!Exit, Proc!die
  <2>2. CASE \E q \in Requests : \/ Proc!Accept(q) \/ Proc!Leave(q) \/ Proc!Serve(q)
                                 \/ Proc!Answer(q) \/ Proc!FinishCut(q)
    BY <2>2 DEF Proc!Accept, Proc!Leave, Proc!Serve, Proc!Answer, Proc!FinishCut, Proc!become
  <2>3. CASE Proc!DrainTimeout
    BY <2>3 DEF Proc!DrainTimeout, Proc!close
  <2>4. CASE UNCHANGED request
    BY <2>4
  <2>5. \/ Proc!NewClient \/ Proc!NewTelemetry \/ Proc!NewServer \/ Proc!Listen
        \/ Proc!SelectServerError \/ Proc!SelectSignal \/ Proc!Drained
        \/ Proc!StopSignals \/ Proc!CloseTelemetry \/ Proc!CloseGcs
        \/ Proc!Bind \/ Proc!ServeClosed \/ Proc!ServeFails
        => UNCHANGED request
    BY DEF Proc!NewClient, Proc!NewTelemetry, Proc!NewServer, Proc!Listen,
           Proc!SelectServerError, Proc!SelectSignal, Proc!Drained, Proc!StopSignals,
           Proc!CloseTelemetry, Proc!CloseGcs, Proc!Bind, Proc!ServeClosed,
           Proc!ServeFails, Proc!ServeReturns
  <2> QED
    BY <2>1, <2>2, <2>3, <2>4, <2>5 DEF Process, Proc!Next, Proc!Main
<1> QED
  BY <1>1, <1>2, <1>3 DEF LifeInv, LifeLink

\* The end kills what is under way and brings no request to its end.
LEMMA EndLife ==
  ASSUME IInv, LifeInv, End
  PROVE  LifeInv'
<1>1. UNCHANGED <<stage, head, received, conn>>
  BY DEF End, httpVars
<1>2. \A r \in Requests : request'[r] = request[r] \/ request'[r] = "killed"
  <2>1. PICK code : Proc!die(code)
    BY DEF End, Proc!Exit, Proc!Signal
  <2> QED
    BY <2>1 DEF Proc!die
<1>3. \A r \in Requests : pc'[r] = pc[r] \/ pc[r] \in Active
  <2>1. CASE ProcessExit
    BY <2>1 DEF ProcessExit
  <2>2. CASE UNCHANGED vars
    BY <2>2 DEF vars
  <2> QED
    BY <2>1, <2>2 DEF End
<1> QED
  BY <1>1, <1>2, <1>3 DEF LifeInv, LifeLink

\* Every step keeps how far the parts of a request are in line.
LEMMA LifeStep ==
  IInv /\ LinkInv /\ Proc!IInv /\ Http!IInv /\ LifeInv /\ [ServiceNext]_serviceVars => LifeInv'
<1> SUFFICES ASSUME IInv, LinkInv, Proc!IInv, Http!IInv, LifeInv, [ServiceNext]_serviceVars
             PROVE  LifeInv'
  OBVIOUS
<1>0. UNCHANGED <<pc, stage, head, received, request, conn>> => LifeInv'
  BY DEF LifeInv, LifeLink
<1>1. CASE UNCHANGED serviceVars
  BY <1>0, <1>1 DEF serviceVars, vars, procVars, httpVars
<1>2. ASSUME NEW r \in Requests, Step(r) PROVE LifeInv'
  BY <1>2, HandleLife, UploadLife, FinishLife DEF Step
<1>3. ASSUME NEW r \in Requests, Break(r) PROVE LifeInv'
  <2>1. /\ UNCHANGED <<pc, stage, head, received, request>>
        /\ conn' = [conn EXCEPT ![r] = "broken"]
    BY <1>3 DEF Break, Http!Break, vars, procVars
  <2>2. conn \in [Requests -> {"open", "broken"}]
    BY DEF Http!IInv, Http!TypeOK
  <2> QED
    BY <2>1, <2>2 DEF LifeInv, LifeLink
<1>4. ASSUME NEW r \in Requests, EndContext(r) PROVE LifeInv'
  BY <1>0, <1>4 DEF EndContext, Cancel, procVars, httpVars
<1>5. CASE Process
  BY <1>5, ProcessLife
<1>6. CASE End
  BY <1>6, EndLife
<1>7. CASE Storage
  BY <1>0, <1>7 DEF Storage, GcsApply, GcsLose, procVars, httpVars
<1> QED
  BY <1>1, <1>2, <1>3, <1>4, <1>5, <1>6, <1>7 DEF ServiceNext

\* If the process exits with 0, nothing was interrupted, nobody is without an
\* answer but who left, and no temporary file stays behind unreported.
THEOREM ExitIsClean == ServiceSpec => []CleanExit
<1>1. ServiceInit => LifeInv
  BY DEF ServiceInit, Init, Proc!Init, Http!Init, LifeInv, LifeLink, Active
<1>2. IInv /\ LinkInv /\ Proc!IInv /\ Http!IInv /\ LifeInv /\ [ServiceNext]_serviceVars
      => LifeInv'
  BY LifeStep
<1>3. IInv /\ Proc!IInv /\ Http!IInv /\ LifeInv => CleanExit
  <2> SUFFICES ASSUME IInv, Proc!IInv, Http!IInv, LifeInv, exit = "0", NEW r \in Requests
               PROVE  /\ pc[r] \in {"new"} \cup Returned /\ pc[r] # "crashed"
                      /\ request[r] = "answered" =>
                           stage[r] = "over" /\ (received[r] # 0 \/ conn[r] = "broken")
                      /\ opened[r] # "open" /\ (opened[r] = "left" => errors > 0)
    BY DEF CleanExit
  <2>1. LifeLink(r)
    BY DEF LifeInv
  <2>2. request[r] \in {"none", "answered"}
    BY DEF Proc!IInv, Proc!ExitZeroMeansDrained
  <2>3. stage[r] \in {"new", "over"}
    BY <2>1, <2>2 DEF LifeLink
  <2>4. pc[r] \in {"new"} \cup Returned /\ pc[r] # "crashed"
    BY <2>1, <2>3 DEF LifeLink, IInv, TypeOK
  <2>5. opened[r] # "open" /\ (opened[r] = "left" => errors > 0)
    BY <2>3 DEF Http!IInv, Http!FormInv, Http!BeforeForm, Http!Returned
  <2> QED
    BY <2>1, <2>2, <2>3, <2>4, <2>5 DEF LifeLink
<1> QED
  BY <1>1, <1>2, <1>3, LinkInvariance, ProcInvariance, HttpInvariance, PTL DEF ServiceSpec
=============================================================================
