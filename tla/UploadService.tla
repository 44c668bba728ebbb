--------------------------- MODULE UploadService ---------------------------
(***************************************************************************)
(* The server as a whole: the process (ServerLifecycle), the requests it   *)
(* serves (RequestPipeline) and the uploads they make (GcsUpload), in one  *)
(* state.                                                                  *)
(*                                                                         *)
(*   - a request's handler runs while the process says it is running, or   *)
(*     cut off from its client, and dies with the process;                 *)
(*   - UploadFile, one step of RequestPipeline, is the whole call of       *)
(*     UploadToGcs, and its answer is made from what the call returned;    *)
(*   - the request's context ends only once its connection broke;          *)
(*   - Server.Close breaks the connections one after the other.            *)
(***************************************************************************)
EXTENDS GcsUpload, FiniteSets

CONSTANTS HttpRequests, MaxSignals

VARIABLES
  phase, listener, serverErrors, shutdown, notified, sent, request, gcsClient, telemetry,
  err, exit,
  http, stage, conn, recorder, head, body, received, span, deferred, opened, requests,
  errors

procVars == <<phase, listener, serverErrors, shutdown, notified, sent, request, gcsClient,
              telemetry, err, exit>>
httpVars == <<http, stage, conn, recorder, head, body, received, span, deferred, opened,
              requests, errors>>
serviceVars == <<vars, procVars, httpVars>>

\* What RequestPipeline leaves open: an upload counts as stored once its call
\* returned success, or gave up after attempts that may yet be applied.
stored == {r \in Requests : response[r].err \in {"nil", "ErrUpload"}}

Proc == INSTANCE ServerLifecycle

Http == INSTANCE RequestPipeline

\* What the parts assume of their constants.
ASSUME ServiceAssumption ==
  /\ MaxSignals \in Nat
  /\ IsFiniteSet(Requests)
  /\ HttpRequests \subseteq Http!AllHttpRequests

ServiceInit == Init /\ Proc!Init /\ Http!Init

\* The goroutine of a request exists.
runs(r) == exit = "no" /\ request[r] \in {"running", "cut"}

(***************************************************************************)
(* A request.                                                              *)
(***************************************************************************)
\* The handler around the upload.
Handle(r) ==
  /\ runs(r)
  /\ UNCHANGED <<vars, procVars>>
  /\ \/ Http!ServeHTTP(r) \/ Http!Security(r) \/ Http!ParseForm(r) \/ Http!OpenFile(r)
     \/ Http!EncodeResponse(r) \/ Http!Return(r)

\* Mutant: an upload that was given up is answered like one that was refused.
answerAllErrorsAlike(e) == IF e = "nil" THEN "encode200" ELSE "encode400"

\* UploadFile's switch over the error of UploadToGcs.
answerFor(e) ==
  IF e = "nil" THEN "encode200" ELSE IF e \in Errors THEN "encode400" ELSE "encode500"

\* UploadFile: the steps of UploadToGcs, and what its return is answered with.
Upload(r) ==
  /\ runs(r) /\ stage[r] = "upload"
  /\ UploadToGcs(r) \/ BeginAttempt(r) \/ Attempt(r) \/ Close(r)
  /\ stage' = IF pc'[r] = "done"
              THEN [stage EXCEPT ![r] = answerFor(response'[r].err)] ELSE stage
  /\ UNCHANGED <<procVars, http, conn, recorder, head, body, received, span, deferred,
                 opened, requests, errors>>

\* net/http sends the answer and is done with the request.  What was cut off
\* has lost its connection first.
Finish(r) ==
  /\ UNCHANGED vars
  /\ Http!Flush(r)
  /\ \/ Proc!Answer(r)
     \/ conn[r] = "broken" /\ Proc!FinishCut(r)

Step(r) == Handle(r) \/ Upload(r) \/ Finish(r)

\* The client leaves, a timeout passes, or Server.Close comes to the connection.
Break(r) == runs(r) /\ UNCHANGED <<vars, procVars>> /\ Http!Break(r)

\* net/http ends the context of a request without a connection.
EndContext(r) ==
  /\ runs(r) /\ conn[r] = "broken"
  /\ Cancel(r)
  /\ UNCHANGED <<procVars, httpVars>>

(***************************************************************************)
(* The process and Cloud Storage.                                          *)
(***************************************************************************)
\* Whatever the process does that does not end a request or itself.
Process ==
  /\ Proc!Next
  /\ exit' = "no"
  /\ \A r \in Requests :
       request'[r] # request[r] => request'[r] \notin {"answered", "unanswered"}
  /\ UNCHANGED <<vars, httpVars>>

\* The process ends, and with it every upload under way.
End ==
  /\ Proc!Exit \/ Proc!Signal
  /\ exit' # "no"
  /\ IF \E r \in Requests : pc[r] \in Active THEN ProcessExit ELSE UNCHANGED vars
  /\ UNCHANGED httpVars

Storage ==
  /\ \E w \in inflight : GcsApply(w) \/ GcsLose(w)
  /\ UNCHANGED <<procVars, httpVars>>

ServiceNext ==
  \/ \E r \in Requests : Step(r) \/ Break(r) \/ EndContext(r)
  \/ Process \/ End \/ Storage

\* A goroutine that can run does; Server.Close comes to every connection.
ServiceFairness ==
  \A r \in Requests :
    /\ WF_serviceVars(Step(r))
    /\ WF_serviceVars(request[r] = "cut" /\ Break(r))

ServiceSpec == ServiceInit /\ [][ServiceNext]_serviceVars /\ ServiceFairness

(***************************************************************************)
(* Properties.                                                             *)
(***************************************************************************)

\* What the client was told and what the bucket holds agree for ever, through
\* retries, late writes, shutdown and the death of the process: 200 means that
\* the whole file was applied and its object exists, a refusal that nothing of
\* the request was ever sent.
AnswerMatchesBucket ==
  \A r \in Requests :
    /\ received[r] = 200 =>
         /\ \E w \in applied : w.req = r /\ w.size = size(r)
         /\ \E w \in bucket : w.object = object(r)
    /\ received[r] \in {204, 400, 401, 404, 405, 415} =>
         \A w \in inflight \cup applied : w.req # r

\* If the process exits with 0, no upload was interrupted, nobody who was
\* accepted is without an answer but who left, and no temporary file of a form
\* is left behind unreported.
CleanExit ==
  exit = "0" => \A r \in Requests :
    /\ pc[r] \in {"new"} \cup Returned /\ pc[r] # "crashed"
    /\ request[r] = "answered" =>
         stage[r] = "over" /\ (received[r] # 0 \/ conn[r] = "broken")
    /\ opened[r] # "open" /\ (opened[r] = "left" => errors > 0)

\* The parts behave in the whole as they do alone, so what is shown of each
\* holds here: RequestPipeline's guess of what an upload can end in is right.
HttpBehaves == Http!Init /\ [][Http!Next]_(Http!vars)
ProcBehaves == Proc!Init /\ [][Proc!Next]_(Proc!vars)
GcsBehaves == Init /\ [][Next]_vars
PartsBehave == HttpBehaves /\ ProcBehaves /\ GcsBehaves

\* Every request that is served ends, or the process does: there is a bound on
\* attempts, and no step of a handler waits for the client or for Shutdown.
EveryRequestEnds ==
  \A r \in Requests : request[r] = "running" ~>
    request[r] \in {"answered", "unanswered", "killed"}

(***************************************************************************)
(* The invariant that joins the parts.                                     *)
(***************************************************************************)
Refusals == {204, 400, 401, 404, 405, 415}
BeforeUpload == {"new", "security", "parse", "form"}

\* The upload of a request is made in its stage, and its status is chosen once,
\* from the error the call returned.
AnswerLink(r) ==
  /\ stage[r] \in BeforeUpload => pc[r] = "new" /\ head[r] = 0
  /\ stage[r] = "upload" => pc[r] # "done" /\ head[r] = 0
  /\ stage[r] = "encode200" => response[r].err = "nil"
  /\ stage[r] = "encode400" => response[r].err \in Errors
  /\ head[r] = 200 => response[r].err = "nil"
  /\ head[r] \in Refusals => pc[r] = "new" \/ response[r].err \in Errors
  /\ received[r] \in {0, head[r]}
  /\ received[r] # 0 => stage[r] = "over"

LinkInv ==
  /\ stage \in [Requests -> Http!Stages]
  /\ head \in [Requests -> Http!Statuses]
  /\ received \in [Requests -> Http!Statuses]
  /\ \A r \in Requests : AnswerLink(r)

\* How far a request is in the process, its handler and its upload: one that
\* net/http has done with was answered or had lost its connection.
LifeLink(r) ==
  /\ request[r] \in {"none", "connected"} => stage[r] = "new"
  /\ request[r] \in {"answered", "unanswered"} => stage[r] = "over"
  /\ pc[r] \in Active \cup {"crashed"} => stage[r] = "upload"
  /\ stage[r] \in {"return", "flush", "over"} => head[r] # 0
  /\ stage[r] = "over" => received[r] # 0 \/ conn[r] = "broken"

LifeInv == \A r \in Requests : LifeLink(r)
=============================================================================
