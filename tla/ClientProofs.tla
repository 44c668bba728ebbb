---------------------------- MODULE ClientProofs ----------------------------
(***************************************************************************)
(* What Client's deferred functions see to and what its results are read   *)
(* from, for any number of calls, any credentials and any answers; and     *)
(* what a result says of the bucket when the server is ours, whatever is   *)
(* lost or broken off on either side.                                      *)
(***************************************************************************)
EXTENDS ClientServer, JsonProofs

(***************************************************************************)
(* The client alone.                                                       *)
(***************************************************************************)

\* What a call that takes a step changes is its own.
OthersKeep(c) ==
  \A d \in Calls \ {c} :
    /\ stage'[d] = stage[d] /\ respBody'[d] = respBody[d]
    /\ res'[d] = res[d] /\ err'[d] = err[d] /\ span'[d] = span[d]

\* So what is known of the other calls stays true, and who is counted depends
\* on the one that takes the step.
LEMMA OthersStay ==
  ASSUME NEW c \in Calls, OthersKeep(c)
  PROVE  /\ \A d \in Calls \ {c} : CallInv(d) => CallInv(d)'
         /\ begun \in SUBSET Calls /\ failed \in SUBSET Calls
         /\ ((stage[c] # "") <=> c \in begun) /\ ((err[c] # "nil") <=> c \in failed)
         /\ begun' = IF stage'[c] # "" THEN begun \cup {c} ELSE begun \ {c}
         /\ failed' = IF err'[c] # "nil" THEN failed \cup {c} ELSE failed \ {c}
<1>1. ASSUME NEW d \in Calls \ {c}, CallInv(d) PROVE CallInv(d)'
  <2>1. /\ stage'[d] = stage[d] /\ respBody'[d] = respBody[d]
        /\ res'[d] = res[d] /\ err'[d] = err[d] /\ span'[d] = span[d]
    BY DEF OthersKeep
  <2> QED
    BY <1>1, <2>1 DEF CallInv
<1>2. ASSUME NEW d \in Calls
      PROVE  /\ d \in (begun)' <=> IF d = c THEN stage'[c] # "" ELSE d \in begun
             /\ d \in (failed)' <=> IF d = c THEN err'[c] # "nil" ELSE d \in failed
  BY DEF OthersKeep, begun, failed
<1>3. begun \in SUBSET Calls /\ failed \in SUBSET Calls
      /\ begun' \in SUBSET Calls /\ failed' \in SUBSET Calls
  BY DEF begun, failed
<1>4. begun' = IF stage'[c] # "" THEN begun \cup {c} ELSE begun \ {c}
  BY <1>2, <1>3
<1>5. failed' = IF err'[c] # "nil" THEN failed \cup {c} ELSE failed \ {c}
  BY <1>2, <1>3
<1>6. ((stage[c] # "") <=> c \in begun) /\ ((err[c] # "nil") <=> c \in failed)
  BY DEF begun, failed
<1> QED
  BY <1>1, <1>3, <1>4, <1>5, <1>6

\* A set of calls that is finite gains at most one element by one step.
LEMMA Gain ==
  ASSUME NEW S \in SUBSET Calls, NEW c \in Calls, c \notin S
  PROVE  Cardinality(S) \in Nat /\ Cardinality(S \cup {c}) = Cardinality(S) + 1
<1>1. IsFiniteSet(S)
  BY CallsAssumption, FS_Subset
<1> QED
  BY <1>1, FS_AddElement, FS_CardinalityType

\* An answer is decoded into a result or into an error, never both or neither.
LEMMA DecodeGivesOne ==
  ASSUME NEW a
  PROVE  LET d == decodeUploadFileResponse(a) IN
           d.res \in Results /\ d.err \in ErrorNames /\ (d.res = "nil") = (d.err # "nil")
<1> DEFINE d == decodeUploadFileResponse(a)
<1>1. bodyError(a) \in {"parse media type", "unexpected Content-Type", "read body",
                        "decode body", "nil"}
  <2>1. CASE a.contentType = ""
    BY <2>1 DEF bodyError
  <2>2. CASE a.contentType \notin {"", "application/json"}
    BY <2>2 DEF bodyError
  <2>3. CASE a.contentType = "application/json"
    BY <2>3 DEF bodyError
  <2> QED
    BY <2>1, <2>2, <2>3
<1>2. CASE bodyError(a) # "nil"
  BY <1>1, <1>2 DEF decodeUploadFileResponse, Results, ErrorNames
<1>3. CASE bodyError(a) = "nil" /\ a.status \in {200, 400, 401, 500}
  <2>1. d.res = resultOf(a.status) /\ d.err = "nil"
    BY <1>3 DEF decodeUploadFileResponse
  <2>2. resultOf(a.status) \in Results \ {"nil"}
    BY <1>3 DEF resultOf, Results
  <2> QED
    BY <2>1, <2>2 DEF ErrorNames
<1>4. CASE bodyError(a) = "nil" /\ a.status \notin {200, 400, 401, 500}
  <2>1. d.res = "nil" /\ d.err = resultOf(a.status)
    BY <1>4 DEF decodeUploadFileResponse
  <2>2. resultOf(a.status) = "ErrorStatusCodeWithHeaders"
    BY <1>4 DEF resultOf
  <2> QED
    BY <2>1, <2>2 DEF ErrorNames, Results
<1> QED
  BY <1>2, <1>3, <1>4

\* Before any call nothing is counted.
LEMMA InitIInv == Init => IInv
<1> SUFFICES ASSUME Init PROVE IInv
  OBVIOUS
<1>1. begun = {} /\ failed = {}
  BY DEF Init, begun, failed
<1>2. CountInv
  BY <1>1, FS_EmptySet DEF Init, CountInv
<1>3. CallTypes /\ \A c \in Calls : CallInv(c)
  BY DEF Init, CallTypes, CallInv, Stages, Results, ErrorNames
<1> QED
  BY <1>2, <1>3 DEF IInv

\* A call that is begun is counted; if it returns at once, so is its error.
LEMMA BeginStep ==
  ASSUME IInv, NEW c \in Calls, Begin(c)
  PROVE  IInv'
<1> USE DEF IInv, CallTypes
<1>1. stage[c] = "" /\ err[c] = "nil" /\ res[c] = "nil" /\ respBody[c] # "open"
  BY DEF Begin, CallInv
<1>2. /\ stage'[c] \in {"Security:BasicAuth", "returned"} /\ requests' = requests + 1
      /\ UNCHANGED <<res, respBody>>
      /\ IF stage'[c] = "returned"
         THEN err'[c] = "create request" /\ span'[c] = "Error" /\ errors' = errors + 1
         ELSE err'[c] = "nil" /\ span'[c] = "Unset" /\ errors' = errors
  BY <1>1 DEF Begin, goto
<1>3. OthersKeep(c)
  BY DEF Begin, goto, OthersKeep
<1>4. CallTypes'
  BY DEF Begin, goto, Stages, ErrorNames
<1>5. CallInv(c)'
  BY <1>1, <1>2 DEF CallInv
<1>6. c \notin begun /\ begun' = begun \cup {c} /\ begun \in SUBSET Calls
  BY <1>1, <1>2, <1>3, OthersStay
<1>7. /\ c \notin failed /\ failed \in SUBSET Calls
      /\ failed' = IF stage'[c] = "returned" THEN failed \cup {c} ELSE failed
  BY <1>1, <1>2, <1>3, OthersStay
<1>8. CountInv'
  BY <1>2, <1>6, <1>7, Gain DEF CountInv
<1> QED
  BY <1>3, <1>4, <1>5, <1>8, OthersStay

\* A return closes the body and counts the error, if there is one.
LEMMA ReturnStep ==
  ASSUME IInv, NEW c \in Calls, stage[c] \notin {"", "returned"},
         NEW r \in Results, NEW e \in ErrorNames, (r = "nil") = (e # "nil"),
         return(c, r, e), UNCHANGED <<source, sent, requests>>
  PROVE  IInv'
<1> USE DEF IInv, CallTypes
<1>1. err[c] = "nil" /\ span[c] = "Unset"
  BY DEF CallInv
<1>2. /\ stage'[c] = "returned" /\ res'[c] = r /\ err'[c] = e /\ respBody'[c] # "open"
      /\ (span'[c] = "Error") = (e # "nil")
      /\ errors' = IF e = "nil" THEN errors ELSE errors + 1
  BY <1>1 DEF return, goto
<1>3. OthersKeep(c)
  BY DEF return, goto, OthersKeep
<1>4. CallTypes'
  <2>1. "returned" \in Stages
    BY DEF Stages
  <2>2. UNCHANGED <<source, sent>>
    OBVIOUS
  <2>3. stage' \in [Calls -> Stages] /\ res' \in [Calls -> Results]
        /\ err' \in [Calls -> ErrorNames]
    BY <2>1 DEF return, goto
  <2>4. respBody' \in [Calls -> {"none", "open", "closed"}]
        /\ span' \in [Calls -> {"none", "Unset", "Error"}]
    BY DEF return
  <2> QED
    BY <2>2, <2>3, <2>4
<1>5. CallInv(c)'
  BY <1>2 DEF CallInv
<1>6. begun' = begun
  <2>1. c \in begun /\ begun' = begun \cup {c}
    BY <1>2, <1>3, OthersStay
  <2> QED
    BY <2>1
<1>7. /\ c \notin failed /\ failed \in SUBSET Calls
      /\ failed' = IF e = "nil" THEN failed ELSE failed \cup {c}
  <2>1. c \notin failed /\ failed \in SUBSET Calls
        /\ failed' = IF e # "nil" THEN failed \cup {c} ELSE failed \ {c}
    BY <1>1, <1>2, <1>3, OthersStay
  <2>2. failed \ {c} = failed
    BY ONLY <2>1
  <2> QED
    BY ONLY <2>1, <2>2
<1>8. CountInv'
  BY <1>2, <1>6, <1>7, Gain DEF CountInv
<1> QED
  BY <1>3, <1>4, <1>5, <1>8, OthersStay

\* On the way to the answer nothing is counted.
LEMMA ProceedStep ==
  ASSUME IInv, NEW c \in Calls, NEW s \in Stages \ {"", "returned"},
         stage[c] \notin {"", "returned"}, goto(c, s),
         UNCHANGED <<source, res, err, span, requests, errors>>,
         sent' \in [Calls -> {"none", "right", "wrong"}],
         \/ respBody' = respBody
         \/ (s = "DecodeResponse" /\ respBody' = [respBody EXCEPT ![c] = "open"]),
         stage[c] # "DecodeResponse"
  PROVE  IInv'
<1> USE DEF IInv, CallTypes
<1>1. OthersKeep(c) /\ stage'[c] = s
  BY DEF goto, OthersKeep
<1>2. CallTypes'
  BY DEF goto
<1>3. CallInv(c)'
  BY <1>1 DEF CallInv
<1>4. begun' = begun /\ failed' = failed
  <2>1. err'[c] = "nil" /\ err[c] = "nil" /\ stage'[c] # ""
    BY <1>1 DEF CallInv
  <2>2. c \in begun /\ begun' = begun \cup {c} /\ c \notin failed /\ failed' = failed \ {c}
    BY <1>1, <2>1, OthersStay
  <2> QED
    BY <2>2
<1>5. CountInv'
  BY <1>4 DEF CountInv
<1> QED
  BY <1>1, <1>2, <1>3, <1>5, OthersStay

\* Any answer may come back.
LEMMA DoReturnsStep ==
  ASSUME IInv, NEW c \in Calls, NEW a, DoReturns(c, a)
  PROVE  IInv'
<1> QED
  BY ProceedStep DEF DoReturns, Stages, IInv, CallTypes

\* No step disturbs the invariant.
LEMMA NextIInv == IInv /\ [Next]_vars => IInv'
<1> SUFFICES ASSUME IInv, [Next]_vars PROVE IInv'
  OBVIOUS
<1>1. CASE UNCHANGED vars
  BY <1>1 DEF vars, IInv, CallTypes, CallInv, CountInv, begun, failed
<1>2. ASSUME NEW c \in Calls, Security(c) PROVE IInv'
  <2>1. stage[c] = "Security:BasicAuth" /\ source[c] \in AllSources
    BY <1>2, SourcesAssumption DEF Security, IInv, CallTypes
  <2>2. \A e \in {"security \"BasicAuth\"", "ErrSecurityRequirementIsNotSatisfied"} :
          "nil" \in Results /\ e \in ErrorNames /\ e # "nil"
    BY DEF Results, ErrorNames
  <2>3. CASE source[c] \in {"error", "skip"}
    <3>1. PICK e \in {"security \"BasicAuth\"", "ErrSecurityRequirementIsNotSatisfied"} :
            return(c, "nil", e) /\ UNCHANGED <<source, sent, requests>>
      BY <1>2, <2>3 DEF Security
    <3> QED
      BY <2>1, <2>2, <3>1, ReturnStep
  <2>4. CASE source[c] \in {"right", "wrong"}
    <3>1. /\ goto(c, "SendRequest") /\ sent' = [sent EXCEPT ![c] = source[c]]
          /\ UNCHANGED <<source, respBody, res, err, span, requests, errors>>
      BY <1>2, <2>4 DEF Security
    <3>2. sent' \in [Calls -> {"none", "right", "wrong"}]
      BY <2>4, <3>1 DEF IInv, CallTypes
    <3>3. "SendRequest" \in Stages \ {"", "returned"}
      BY DEF Stages
    <3> QED
      BY <2>1, <3>1, <3>2, <3>3, ProceedStep
  <2> QED
    BY <2>1, <2>3, <2>4 DEF AllSources
<1>3. ASSUME NEW c \in Calls, DoFails(c) PROVE IInv'
  BY <1>3, ReturnStep DEF DoFails, Results, ErrorNames
<1>4. ASSUME NEW c \in Calls, NEW a \in Answers, DoReturns(c, a) PROVE IInv'
  BY <1>4, DoReturnsStep
<1>5. ASSUME NEW c \in Calls, DecodeResponse(c) PROVE IInv'
  <2>1. PICK a \in resp[c] : LET d == decodeUploadFileResponse(a) IN return(c, d.res, d.err)
    BY <1>5 DEF DecodeResponse
  <2>2. stage[c] \notin {"", "returned"} /\ UNCHANGED <<source, sent, requests>>
    BY <1>5 DEF DecodeResponse
  <2> QED
    BY <2>1, <2>2, DecodeGivesOne, ReturnStep
<1> QED
  BY <1>1, <1>2, <1>3, <1>4, <1>5, BeginStep DEF Next

\* The invariant always holds.
THEOREM Invariance == Spec => []IInv
<1> QED
  BY InitIInv, NextIInv, PTL DEF Spec

\* Every variable keeps its type; no credentials but the source's are sent.
THEOREM TypeCorrect == Spec => []TypeOK
<1>1. IInv => TypeOK
  <2> SUFFICES ASSUME IInv PROVE TypeOK
    OBVIOUS
  <2>1. failed \subseteq begun /\ begun \subseteq Calls
    BY DEF IInv, CallTypes, CallInv, failed, begun
  <2>2. /\ IsFiniteSet(begun) /\ Cardinality(begun) <= Cardinality(Calls)
        /\ Cardinality(failed) <= Cardinality(begun)
    BY <2>1, CallsAssumption, FS_Subset
  <2>3. /\ Cardinality(Calls) \in Nat /\ Cardinality(begun) \in Nat
        /\ Cardinality(failed) \in Nat
    BY <2>1, <2>2, CallsAssumption, FS_Subset, FS_CardinalityType
  <2> QED
    BY <2>2, <2>3 DEF IInv, CallTypes, CountInv, TypeOK
<1> QED
  BY <1>1, Invariance, PTL

\* However calls overlap and wherever each fails, what it opened is closed, it
\* gives a result or an error, and the counters and spans agree with that.
THEOREM CleanedUp == Spec => []ReturnsAreCleanedUp
<1>1. IInv => ReturnsAreCleanedUp
  BY DEF IInv, CallInv, CountInv, failed, ReturnsAreCleanedUp
<1> QED
  BY <1>1, Invariance, PTL

\* An answer that is decoded without an error was whole, had nothing after the
\* object, and Decode of its type found nothing missing.
LEMMA DecodedAnswer ==
  ASSUME NEW a, Len(a.members) \in Nat, DOMAIN a.members = 1 .. Len(a.members),
         bodyError(a) = "nil"
  PROVE  /\ a.whole /\ ~ a.trailing
         /\ \A field \in typeOf(a.status).required :
              \E i \in DOMAIN a.members : a.members[i].key = field
<1> DEFINE type == typeOf(a.status)
<1>1. a.whole /\ ~ a.trailing /\ Decode(type, a.members).err = "nil"
  <2>1. CASE a.contentType = ""
    BY <2>1 DEF bodyError
  <2>2. CASE a.contentType \notin {"", "application/json"}
    BY <2>2 DEF bodyError
  <2>3. CASE a.contentType = "application/json"
    BY <2>3 DEF bodyError
  <2> QED
    BY <2>1, <2>2, <2>3
<1>2. Table(type)
  BY Tables DEF typeOf
<1> HIDE DEF type
<1>3. Missing(type, a.members) = {}
  BY <1>1, <1>2, DecodeMeetsTheSchema DEF meetsSchema
<1>4. \A field \in type.required : \E i \in DOMAIN a.members : a.members[i].key = field
  <2>1. ASSUME NEW field \in type.required
        PROVE  \E n \in DOMAIN type.names : field = type.names[n]
    BY <1>2 DEF Table
  <2>2. \A n \in DOMAIN type.names : type.names[n] \in type.required =>
          \E i \in DOMAIN a.members : a.members[i].key = type.names[n]
    BY <1>3 DEF Missing, Given
  <2> QED
    BY <2>1, <2>2
<1> QED
  BY <1>1, <1>4 DEF type

\* Only DecodeResponse returns a result, and it returns that of its answer.
LEMMA NextResult == IInv /\ ResultInv /\ [Next]_vars => ResultInv'
<1> SUFFICES ASSUME IInv, ResultInv, [Next]_vars PROVE ResultInv'
  OBVIOUS
<1> USE DEF IInv, CallTypes
<1>1. CASE UNCHANGED vars
  BY <1>1 DEF vars, ResultInv
<1>2. ASSUME NEW c \in Calls, resp' = resp, OthersKeep(c), stage'[c] = "returned" => err'[c] # "nil"
      PROVE  ResultInv'
  BY <1>2 DEF ResultInv, OthersKeep
<1>3. ASSUME NEW c \in Calls, Begin(c) PROVE ResultInv'
  <2>1. stage'[c] = "returned" => err'[c] # "nil"
    BY <1>3 DEF Begin, goto
  <2>2. OthersKeep(c) /\ resp' = resp
    BY <1>3 DEF Begin, goto, OthersKeep
  <2> QED
    BY <1>2, <2>1, <2>2
<1>4. ASSUME NEW c \in Calls, Security(c) PROVE ResultInv'
  <2>1. stage'[c] = "returned" => err'[c] # "nil"
    BY <1>4 DEF Security, return, goto
  <2>2. OthersKeep(c) /\ resp' = resp
    BY <1>4 DEF Security, return, goto, OthersKeep
  <2> QED
    BY <1>2, <2>1, <2>2
<1>5. ASSUME NEW c \in Calls, DoFails(c) PROVE ResultInv'
  <2>1. err'[c] # "nil" /\ OthersKeep(c) /\ resp' = resp
    BY <1>5 DEF DoFails, return, goto, OthersKeep
  <2> QED
    BY <1>2, <2>1
<1>6. ASSUME NEW c \in Calls, NEW a \in Answers, DoReturns(c, a) PROVE ResultInv'
  <2>1. stage'[c] = "DecodeResponse" /\ OthersKeep(c)
    BY <1>6 DEF DoReturns, goto, OthersKeep
  <2>2. resp' \in [Calls -> SUBSET Answers] /\ \A d \in Calls \ {c} : resp'[d] = resp[d]
    BY <1>6 DEF DoReturns, ResultInv
  <2> QED
    BY <2>1, <2>2 DEF ResultInv, OthersKeep
<1>7. ASSUME NEW c \in Calls, DecodeResponse(c) PROVE ResultInv'
  <2>1. PICK a \in resp[c] : return(c, decodeUploadFileResponse(a).res,
                                    decodeUploadFileResponse(a).err)
    BY <1>7 DEF DecodeResponse
  <2>2. /\ res'[c] = decodeUploadFileResponse(a).res
        /\ err'[c] = decodeUploadFileResponse(a).err
        /\ OthersKeep(c) /\ resp' = resp
    BY <1>7, <2>1 DEF DecodeResponse, return, goto, OthersKeep
  <2>3. err'[c] = "nil" => bodyError(a) = "nil" /\ res'[c] = resultOf(a.status)
    <3>1. a.status \notin {200, 400, 401, 500} => resultOf(a.status) # "nil"
      BY DEF resultOf
    <3> QED
      BY <2>2, <3>1 DEF decodeUploadFileResponse
  <2> QED
    BY <2>1, <2>2, <2>3 DEF ResultInv, OthersKeep
<1> QED
  BY <1>1, <1>3, <1>4, <1>5, <1>6, <1>7 DEF Next

\* Every result is the one its status stands for, read from a whole object with
\* all its required fields and nothing after it.
THEOREM WholeResult == Spec => []ResultIsWholeAnswer
<1>1. Init => ResultInv
  BY DEF Init, ResultInv
<1>2. ResultInv => ResultIsWholeAnswer
  <2> SUFFICES ASSUME ResultInv, NEW c \in Calls, stage[c] = "returned", err[c] = "nil"
               PROVE  \E a \in resp[c] :
                        /\ res[c] = resultOf(a.status) /\ a.whole /\ ~a.trailing
                        /\ \A field \in typeOf(a.status).required :
                             \E i \in DOMAIN a.members : a.members[i].key = field
    BY DEF ResultIsWholeAnswer
  <2>1. PICK a \in resp[c] : bodyError(a) = "nil" /\ res[c] = resultOf(a.status)
    BY DEF ResultInv
  <2>2. a \in Answers
    BY <2>1 DEF ResultInv
  <2> QED
    BY <2>1, <2>2, AnswersAssumption, DecodedAnswer
<1> QED
  BY <1>1, <1>2, NextResult, Invariance, PTL DEF Spec

(***************************************************************************)
(* The client and the server behave in the system as they do alone.        *)
(***************************************************************************)

\* The client takes its own steps only; any answer of the server will do.
LEMMA ClientStep == IInv /\ [SystemNext]_systemVars => IInv'
<1> SUFFICES ASSUME IInv, [SystemNext]_systemVars PROVE IInv'
  OBVIOUS
<1>1. CASE UNCHANGED vars
  BY <1>1, NextIInv
<1>2. ASSUME NEW c \in Calls, Run(c) PROVE IInv'
  BY <1>2, NextIInv DEF Run, Next
<1>3. ASSUME NEW c \in Calls, Do(c) PROVE IInv'
  <2>1. CASE DoFails(c)
    BY <2>1, NextIInv DEF Next
  <2> QED
    BY <1>3, <2>1, DoReturnsStep DEF Do
<1> QED
  BY <1>1, <1>2, <1>3 DEF SystemNext, ServerStep, systemVars

\* The server takes its own steps only.
LEMMA ServerSteps == [SystemNext]_systemVars => [Server!Next]_(Server!vars)
BY DEF SystemNext, Run, Do, ServerStep, systemVars, serverVars, Server!Next, Server!vars

\* The proofs of the server, about its own instance of the definitions.
Prf ==
  INSTANCE RequestPipelineProofs WITH
    Requests <- Calls, stage <- serverStage, body <- shape, span <- serverSpan,
    requests <- serverRequests, errors <- serverErrors

\* The instance of the proofs has definitions of its own, equal to those of the
\* instance of the server.
LEMMA SameInvariant == Prf!IInv <=> Server!IInv
<1>1. Prf!TypeOK <=> Server!TypeOK
  BY DEF Prf!TypeOK, Server!TypeOK, Prf!Statuses, Server!Statuses,
         Prf!SpanStatuses, Server!SpanStatuses, Prf!Shapes, Server!Shapes,
         Prf!Stages, Server!Stages
<1>2. ASSUME NEW r \in Calls
      PROVE  /\ Prf!RouteInv(r) <=> Server!RouteInv(r)
             /\ Prf!AnswerInv(r) <=> Server!AnswerInv(r)
             /\ Prf!FormInv(r) <=> Server!FormInv(r)
             /\ Prf!TelemetryInv(r) <=> Server!TelemetryInv(r)
  BY DEF Prf!RouteInv, Server!RouteInv, Prf!AnswerInv, Server!AnswerInv,
         Prf!FormInv, Server!FormInv, Prf!TelemetryInv, Server!TelemetryInv,
         Prf!BeforeForm, Server!BeforeForm, Prf!Encoding, Server!Encoding,
         Prf!Unanswered, Server!Unanswered, Prf!Returned, Server!Returned,
         Prf!Refusals, Server!Refusals, Prf!routed, Server!routed,
         Prf!authenticated, Server!authenticated, Prf!findAuthorization,
         Server!findAuthorization
<1>3. /\ Prf!counted = Server!counted /\ Prf!unhandled = Server!unhandled
      /\ Prf!unremoved = Server!unremoved /\ Prf!spilledForms = Server!spilledForms
  BY DEF Prf!counted, Server!counted, Prf!unhandled, Server!unhandled,
         Prf!unremoved, Server!unremoved, Prf!spilledForms, Server!spilledForms,
         Prf!closedForms, Server!closedForms, Prf!Returned, Server!Returned
<1>4. ASSUME NEW S PROVE Prf!Cardinality(S) = Server!Cardinality(S)
  BY DEF Prf!Cardinality, Server!Cardinality
<1>5. Prf!CountInv <=> Server!CountInv
  BY <1>3, <1>4 DEF Prf!CountInv, Server!CountInv
<1> QED
  BY <1>1, <1>2, <1>5 DEF Prf!IInv, Server!IInv

\* They are equal for the steps too.
LEMMA SameSteps ==
  /\ Server!Init => Prf!Init
  /\ [Server!Next]_(Server!vars) => [Prf!Next]_(Prf!vars)
<1>1. Server!Init => Prf!Init
  BY DEF Server!Init, Prf!Init
<1>2. [Server!Next]_(Server!vars) => [Prf!Next]_(Prf!vars)
  BY DEF Prf!setStatus, Server!setStatus, Prf!defer, Server!defer,
        Prf!goto, Server!goto, Prf!writeHeader, Server!writeHeader,
        Prf!unrouted, Server!unrouted, Prf!ServeHTTP, Server!ServeHTTP,
        Prf!newErrorStatus, Server!newErrorStatus, Prf!findAuthorization,
        Server!findAuthorization, Prf!authenticated, Server!authenticated,
        Prf!Security, Server!Security, Prf!decodeStatus,
        Server!decodeStatus, Prf!decodeFails, Server!decodeFails,
        Prf!removeAll, Server!removeAll,
        Prf!closeRequestErrors, Server!closeRequestErrors, Prf!ParseForm, Server!ParseForm,
        Prf!OpenFile, Server!OpenFile, Prf!UploadFile, Server!UploadFile,
        Prf!encode, Server!encode, Prf!EncodeResponse,
        Server!EncodeResponse, Prf!recorded, Server!recorded, Prf!Return,
        Server!Return, Prf!Flush, Server!Flush, Prf!Break, Server!Break,
        Prf!Step, Server!Step, Prf!Next, Server!Next, Prf!vars,
        Server!vars
<1> QED
  BY <1>1, <1>2

\* What the client can send is what the server can be asked.
LEMMA ServerAssumptions == Prf!IsFiniteSet(Calls) /\ HttpRequests \subseteq Prf!AllHttpRequests
<1>1. Prf!IsFiniteSet(Calls)
  BY CallsAssumption DEF IsFiniteSet, Prf!IsFiniteSet
<1>2. ASSUME NEW p \in Paths, NEW a \in {"right", "wrong"}, NEW b \in BOOLEAN
      PROVE  httpRequest(p, a, b) \in Prf!AllHttpRequests
  <2>1. <<a>> \in Seq(Prf!Authorizations)
    BY DEF Prf!Authorizations
  <2> QED
    BY <2>1, PathsAssumption DEF httpRequest, Prf!AllHttpRequests, Prf!Forms
<1> QED
  BY <1>1, <1>2 DEF HttpRequests

\* Both keep their invariants in the system.
LEMMA PartsInvariance == SystemSpec => [](IInv /\ Server!IInv)
<1>1. SystemInit => IInv /\ Prf!IInv
  BY InitIInv, SameSteps, ServerAssumptions, Prf!InitIInv DEF SystemInit
<1>2. Prf!IInv /\ [SystemNext]_systemVars => Prf!IInv'
  BY ServerSteps, SameSteps, ServerAssumptions, Prf!NextIInv
<1> QED
  BY <1>1, <1>2, ClientStep, SameInvariant, PTL DEF SystemSpec

(***************************************************************************)
(* The link.                                                               *)
(***************************************************************************)

\* A request that is over does not change, and no step touches another's.
LEMMA ServerFrame ==
  ASSUME Server!IInv, NEW c \in Calls, Server!Step(c) \/ Server!Break(c)
  PROVE  /\ serverStage[c] # "over"
         /\ \A d \in Calls \ {c} :
              /\ serverStage'[d] = serverStage[d] /\ received'[d] = received[d]
              /\ shape'[d] = shape[d] /\ (d \in stored' <=> d \in stored)
<1>1. serverStage[c] # "over"
  BY DEF Server!Step, Server!Break, Server!ServeHTTP, Server!Security, Server!ParseForm,
         Server!OpenFile, Server!UploadFile, Server!EncodeResponse, Server!Return,
         Server!Flush
<1>2. Prf!Step(c) \/ Prf!Break(c)
  BY DEF Prf!setStatus, Server!setStatus, Prf!defer, Server!defer, Prf!goto, Server!goto,
         Prf!writeHeader, Server!writeHeader, Prf!unrouted, Server!unrouted,
         Prf!ServeHTTP, Server!ServeHTTP, Prf!newErrorStatus, Server!newErrorStatus,
         Prf!findAuthorization, Server!findAuthorization, Prf!authenticated,
         Server!authenticated, Prf!Security, Server!Security, Prf!decodeStatus,
         Server!decodeStatus, Prf!decodeFails, Server!decodeFails, Prf!removeAll,
         Server!removeAll, Prf!closeRequestErrors, Server!closeRequestErrors,
         Prf!ParseForm, Server!ParseForm, Prf!OpenFile, Server!OpenFile,
         Prf!UploadFile, Server!UploadFile, Prf!encode, Server!encode, Prf!EncodeResponse,
         Server!EncodeResponse, Prf!recorded, Server!recorded, Prf!Return, Server!Return,
         Prf!Flush, Server!Flush, Prf!Break, Server!Break, Prf!Step, Server!Step
<1>3. Prf!Frame(c)
  BY <1>2, SameInvariant, ServerAssumptions, Prf!StepFrame DEF Prf!IInv
<1> QED
  BY <1>1, <1>3 DEF Prf!Frame

\* The client's own steps.
LEMMA RunLink ==
  ASSUME IInv, LinkInv, NEW c \in Calls, Run(c)
  PROVE  LinkInv'
<1>0. UNCHANGED serverVars /\ UNCHANGED resp
  BY DEF Run, Begin, Security, DecodeResponse
<1>1. /\ sent \in [Calls -> {"none", "right", "wrong"}] /\ res \in [Calls -> Results]
      /\ source \in [Calls -> Sources]
  BY DEF IInv, CallTypes
<1>2. ASSUME NEW d \in Calls PROVE sent'[d] = "none" => sent[d] = "none"
  <2>1. CASE UNCHANGED sent
    BY <2>1
  <2>2. CASE sent' = [sent EXCEPT ![c] = source[c]] /\ source[c] \notin {"error", "skip"}
    BY <1>1, <2>2, SourcesAssumption DEF AllSources
  <2> QED
    BY <2>1, <2>2 DEF Run, Begin, Security, DecodeResponse
<1>3. ASSUME NEW d \in Calls, res'[d] # "nil"
      PROVE  \E a \in resp[d] :
               a.status \in {200, 400, 401, 500} /\ res'[d] = resultOf(a.status)
  <2>1. CASE res'[d] = res[d]
    BY <1>3, <2>1 DEF LinkInv
  <2>2. CASE res'[d] # res[d]
    <3>1. CASE Begin(c)
      BY <2>2, <3>1 DEF Begin
    <3>2. CASE Security(c)
      BY <1>1, <1>3, <2>2, <3>2 DEF Security, return
    <3>3. CASE DecodeResponse(c)
      <4>1. PICK a \in resp[c] : return(c, decodeUploadFileResponse(a).res,
                                        decodeUploadFileResponse(a).err)
        BY <3>3 DEF DecodeResponse
      <4>2. d = c /\ res'[c] = decodeUploadFileResponse(a).res
        BY <1>1, <2>2, <4>1 DEF return
      <4> QED
        BY <1>3, <4>2 DEF decodeUploadFileResponse
    <3> QED
      BY <3>1, <3>2, <3>3 DEF Run
  <2> QED
    BY <2>1, <2>2
<1> QED
  BY <1>0, <1>2, <1>3 DEF LinkInv, serverVars

\* The answer that arrives is the one the server sent.
LEMMA DoLink ==
  ASSUME IInv, LinkInv, NEW c \in Calls, Do(c)
  PROVE  LinkInv'
<1>0. UNCHANGED serverVars /\ UNCHANGED sent
  BY DEF Do, DoFails, DoReturns
<1>1. res[c] = "nil" /\ res \in [Calls -> Results] /\ res' = res
  <2>1. res[c] = "nil" /\ res \in [Calls -> Results]
    BY DEF Do, DoFails, DoReturns, IInv, CallTypes, CallInv
  <2>2. \/ res' = [res EXCEPT ![c] = "nil"]
        \/ res' = res
    BY DEF Do, DoFails, DoReturns, return
  <2> QED
    BY <2>1, <2>2
<1>2. \/ resp' = resp
      \/ /\ serverStage[c] = "over"
         /\ \E whole \in BOOLEAN : resp' = [resp EXCEPT ![c] = {answer(c, whole)}]
  BY DEF Do, DoFails, DoReturns
<1>3. CASE resp' = resp
  BY <1>0, <1>1, <1>3 DEF LinkInv, serverVars
<1>4. ASSUME serverStage[c] = "over",
             NEW whole \in BOOLEAN, resp' = [resp EXCEPT ![c] = {answer(c, whole)}]
      PROVE  LinkInv'
  <2>1. /\ DOMAIN resp' = Calls /\ resp'[c] = {answer(c, whole)}
        /\ \A d \in Calls \ {c} : resp'[d] = resp[d]
    BY <1>4 DEF LinkInv
  <2>2. answer(c, whole).status = received[c]
    BY DEF answer
  <2> QED
    BY <1>0, <1>1, <1>4, <2>1, <2>2 DEF LinkInv, serverVars
<1> QED
  BY <1>2, <1>3, <1>4

\* The server changes nothing of a request that was answered or not sent.
LEMMA ServerLink ==
  ASSUME Server!IInv, LinkInv, NEW c \in Calls, ServerStep(c)
  PROVE  LinkInv'
<1>1. sent[c] # "none" /\ UNCHANGED <<sent, resp, res>>
  BY DEF ServerStep, vars
<1>2. /\ serverStage[c] # "over"
      /\ \A d \in Calls \ {c} :
           /\ serverStage'[d] = serverStage[d] /\ received'[d] = received[d]
           /\ d \in stored' <=> d \in stored
  BY ServerFrame DEF ServerStep
<1> QED
  BY <1>1, <1>2 DEF LinkInv

\* The link holds.
LEMMA LinkInvariance == SystemSpec => []LinkInv
<1>1. SystemInit => LinkInv
  BY DEF SystemInit, Init, Server!Init, LinkInv
<1>2. IInv /\ Server!IInv /\ LinkInv /\ [SystemNext]_systemVars => LinkInv'
  <2> SUFFICES ASSUME IInv, Server!IInv, LinkInv, [SystemNext]_systemVars PROVE LinkInv'
    OBVIOUS
  <2>1. CASE UNCHANGED systemVars
    BY <2>1 DEF systemVars, vars, serverVars, LinkInv
  <2> QED
    BY <2>1, RunLink, DoLink, ServerLink DEF SystemNext
<1> QED
  BY <1>1, <1>2, PartsInvariance, PTL DEF SystemSpec

\* A result tells the truth of the bucket: by the link its status is the one the
\* server ended with, and by the server's own invariant that status is true.
THEOREM TruthfulResult == SystemSpec => []ResultTellsTruth
<1>1. IInv /\ Server!IInv /\ LinkInv => ResultTellsTruth
  <2> SUFFICES ASSUME IInv, Server!IInv, LinkInv, NEW c \in Calls
               PROVE  /\ res[c] = "UploadResponseHeaders" => c \in stored
                      /\ res[c] \in {"UploadFileBadRequest", "UploadFileUnauthorized"} =>
                           c \notin stored
                      /\ sent[c] = "none" => c \notin stored
    BY DEF ResultTellsTruth
  <2>1. /\ received[c] = 200 => c \in stored
        /\ received[c] \in {400, 401} => c \notin stored
    <3>1. Server!AnswerInv(c)
      BY DEF Server!IInv
    <3> QED
      BY <3>1 DEF Server!AnswerInv, Server!Refusals
  <2>2. res[c] # "nil" => received[c] \in {200, 400, 401, 500} /\ res[c] = resultOf(received[c])
    BY DEF LinkInv
  <2>3. CASE res[c] = "UploadResponseHeaders"
    BY <2>1, <2>2, <2>3 DEF resultOf, LinkInv
  <2>4. CASE res[c] \in {"UploadFileBadRequest", "UploadFileUnauthorized"}
    BY <2>1, <2>2, <2>4 DEF resultOf, LinkInv
  <2> QED
    BY <2>3, <2>4 DEF LinkInv
<1> QED
  BY <1>1, PartsInvariance, LinkInvariance, PTL

(***************************************************************************)
(* The answers.                                                            *)
(***************************************************************************)

\* Before there is an answer nothing is decoded, and what is decoded is it.
LEMMA RunAnswers ==
  ASSUME IInv, AnswersInv, NEW c \in Calls, Run(c)
  PROVE  AnswersInv'
<1>1. UNCHANGED serverVars /\ UNCHANGED resp /\ OthersKeep(c)
  <2>1. UNCHANGED serverVars /\ UNCHANGED resp
    BY DEF Run, Begin, Security, DecodeResponse
  <2>2. ASSUME Begin(c) PROVE OthersKeep(c)
    BY <2>2 DEF Begin, goto, OthersKeep, IInv, CallTypes
  <2>3. ASSUME Security(c) PROVE OthersKeep(c)
    BY <2>3 DEF Security, return, goto, OthersKeep, IInv, CallTypes
  <2>4. ASSUME DecodeResponse(c) PROVE OthersKeep(c)
    BY <2>4 DEF DecodeResponse, return, goto, OthersKeep, IInv, CallTypes
  <2> QED
    BY <2>1, <2>2, <2>3, <2>4 DEF Run
<1>2. \A d \in Calls, whole \in BOOLEAN : answer(d, whole)' = answer(d, whole)
  BY <1>1 DEF answer, serverVars
<1>3. /\ stage'[c] \notin {"DecodeResponse", "returned"} => resp[c] = {}
      /\ stage'[c] = "returned" =>
           \A a \in resp[c] : err'[c] = decodeUploadFileResponse(a).err
  <2>1. CASE Begin(c) \/ Security(c)
    BY <2>1 DEF Begin, Security, AnswersInv
  <2>2. CASE DecodeResponse(c)
    <3>1. PICK a \in resp[c] : return(c, decodeUploadFileResponse(a).res,
                                      decodeUploadFileResponse(a).err)
      BY <2>2 DEF DecodeResponse
    <3>2. stage'[c] = "returned" /\ err'[c] = decodeUploadFileResponse(a).err
      BY <3>1 DEF return, goto, IInv, CallTypes
    <3>3. resp[c] = {a}
      BY <3>1 DEF AnswersInv
    <3> QED
      BY <3>2, <3>3
  <2> QED
    BY <2>1, <2>2 DEF Run
<1> QED
  BY <1>1, <1>2, <1>3 DEF AnswersInv, serverVars, OthersKeep

\* What arrives is the answer of a request that is over.
LEMMA DoAnswers ==
  ASSUME IInv, AnswersInv, NEW c \in Calls, Do(c)
  PROVE  AnswersInv'
<1>1. UNCHANGED serverVars /\ OthersKeep(c) /\ resp[c] = {}
  <2>1. UNCHANGED serverVars /\ stage[c] = "SendRequest"
    BY DEF Do, DoFails, DoReturns
  <2>2. ASSUME DoFails(c) PROVE OthersKeep(c)
    BY <2>2 DEF DoFails, return, goto, OthersKeep, IInv, CallTypes
  <2>3. ASSUME NEW a, DoReturns(c, a) PROVE OthersKeep(c)
    BY <2>3 DEF DoReturns, goto, OthersKeep, IInv, CallTypes
  <2> QED
    BY <2>1, <2>2, <2>3 DEF Do, AnswersInv
<1>2. \A d \in Calls, whole \in BOOLEAN : answer(d, whole)' = answer(d, whole)
  BY <1>1 DEF answer, serverVars
<1>3. CASE DoFails(c)
  <2>1. resp' = resp /\ UNCHANGED <<serverStage, received>>
    BY <1>1, <1>3 DEF DoFails, serverVars
  <2>2. DOMAIN resp = Calls
    BY DEF AnswersInv
  <2>3. ASSUME NEW d \in Calls \ {c} PROVE stage'[d] = stage[d] /\ err'[d] = err[d]
    BY <1>1 DEF OthersKeep
  <2> QED
    BY <1>1, <1>2, <2>1, <2>2, <2>3 DEF AnswersInv
<1>4. ASSUME NEW whole \in BOOLEAN, DoReturns(c, answer(c, whole)), serverStage[c] = "over",
             received[c] # 0
      PROVE  AnswersInv'
  <2>1. /\ DOMAIN resp' = Calls /\ resp'[c] = {answer(c, whole)}
        /\ \A d \in Calls \ {c} : resp'[d] = resp[d]
        /\ stage'[c] = "DecodeResponse"
    BY <1>4 DEF DoReturns, goto, AnswersInv, IInv, CallTypes
  <2> QED
    BY <1>1, <1>2, <1>4, <2>1 DEF AnswersInv, serverVars, OthersKeep
<1> QED
  BY <1>3, <1>4 DEF Do

\* A server that has answered a request is done with it.
LEMMA ServerAnswers ==
  ASSUME Server!IInv, AnswersInv, NEW c \in Calls, ServerStep(c)
  PROVE  AnswersInv'
<1>1. UNCHANGED vars
  BY DEF ServerStep
<1>2. /\ serverStage[c] # "over"
      /\ \A d \in Calls \ {c} :
           serverStage'[d] = serverStage[d] /\ received'[d] = received[d] /\ shape'[d] = shape[d]
  BY ServerFrame DEF ServerStep
<1>3. \A d \in Calls \ {c}, whole \in BOOLEAN : answer(d, whole)' = answer(d, whole)
  BY <1>2 DEF answer
<1> QED
  BY <1>1, <1>2, <1>3 DEF AnswersInv, vars

\* The bodies of the server are those of its proofs.
LEMMA SameBodies ==
  (\A c \in Calls : Prf!BodyInv(c)) <=> (\A c \in Calls : Server!BodyInv(c))
BY DEF Prf!BodyInv, Server!BodyInv, Prf!Unanswered, Server!Unanswered, Prf!BeforeForm,
       Server!BeforeForm, Prf!Encoding, Server!Encoding, Prf!routed, Server!routed,
       Prf!Bodies, Server!Bodies

\* The zero values are values of their types.
LEMMA ZerosFit ==
  /\ \A k \in DOMAIN ErrorType.names :
       Fits(ErrorType.types[k], ErrorType.zero[ErrorType.names[k]])
  /\ \A k \in DOMAIN UploadResponseType.names :
       Fits(UploadResponseType.types[k], UploadResponseType.zero[UploadResponseType.names[k]])
<1>1. /\ Fits("int32", 0) /\ Fits("int64", 0) /\ Fits("string", "")
      /\ Fits("[]string", {}) /\ Fits("time.Time", "0001-01-01")
  BY IntsAreOrdered, SecondsAreWhole DEF Fits, IntAssumption, MomentAssumption
<1>2. ASSUME NEW k \in DOMAIN ErrorType.names
      PROVE  Fits(ErrorType.types[k], ErrorType.zero[ErrorType.names[k]])
  <2>1. k \in {1, 2, 3}
    BY DEF ErrorType
  <2>2. /\ ErrorType.types[1] = "int32" /\ ErrorType.names[1] = "code"
        /\ ErrorType.types[2] = "string" /\ ErrorType.names[2] = "message"
        /\ ErrorType.types[3] = "[]string" /\ ErrorType.names[3] = "details"
    BY DEF ErrorType
  <2>3. /\ ErrorType.zero["code"] = 0
        /\ ErrorType.zero["message"] = ""
        /\ ErrorType.zero["details"] = {}
    BY DEF ErrorType
  <2> QED
    BY <1>1, <2>1, <2>2, <2>3
<1>3. ASSUME NEW k \in DOMAIN UploadResponseType.names
      PROVE  Fits(UploadResponseType.types[k],
                  UploadResponseType.zero[UploadResponseType.names[k]])
  <2>1. k \in {1, 2, 3, 4, 5}
    BY DEF UploadResponseType
  <2>2. /\ UploadResponseType.types[1] = "string" /\ UploadResponseType.names[1] = "filename"
        /\ UploadResponseType.types[2] = "int64" /\ UploadResponseType.names[2] = "fileSize"
        /\ UploadResponseType.types[3] = "string" /\ UploadResponseType.names[3] = "bucket"
        /\ UploadResponseType.types[4] = "string" /\ UploadResponseType.names[4] = "gcspath"
        /\ UploadResponseType.types[5] = "time.Time" /\ UploadResponseType.names[5] = "uploadTime"
    BY DEF UploadResponseType
  <2>3. /\ UploadResponseType.zero["filename"] = ""
        /\ UploadResponseType.zero["fileSize"] = 0
        /\ UploadResponseType.zero["bucket"] = ""
        /\ UploadResponseType.zero["gcspath"] = ""
        /\ UploadResponseType.zero["uploadTime"] = "0001-01-01"
    BY DEF UploadResponseType
  <2> QED
    BY <1>1, <2>1, <2>2, <2>3
<1> QED
  BY <1>2, <1>3

\* A body the server writes on its one route is read as what it is: an object of
\* its type, or an object that has not a type's required fields.
LEMMA DocumentsDecode ==
  ASSUME NEW c \in Calls, <<received[c], shape[c]>> \in Server!Bodies
  PROVE  LET e == decodeUploadFileResponse(answer(c, TRUE)).err IN
         e # "nil" => shape[c] = "error_message" /\ e = "decode body"
<1> DEFINE a == answer(c, TRUE)
           T == typeOf(received[c])
<1>1. /\ a.status = received[c] /\ a.contentType = "application/json" /\ a.whole
      /\ ~ a.trailing /\ a.members = document(shape[c])
  <2>1. shape[c] \in {"UploadResponse", "Error", "error_message"}
    BY DEF Server!Bodies
  <2> QED
    BY <2>1 DEF answer, mediaType
<1> HIDE DEF a, T
<1>2. bodyError(a) = IF Decode(T, document(shape[c])).err # "nil" THEN "decode body" ELSE "nil"
  BY <1>1 DEF bodyError, T
<1>3. CASE shape[c] = "UploadResponse"
  <2>1. T = UploadResponseType /\ received[c] = 200
    BY <1>3 DEF Server!Bodies, typeOf, T
  <2>3. Decode(T, document(shape[c])).err = "nil"
    BY <1>3, <2>1, ZerosFit, Tables, EncodedIsDecoded DEF document
  <2>4. bodyError(a) = "nil"
    BY <1>2, <2>3
  <2>5. a.status = received[c] /\ received[c] \in {200, 400, 401, 500}
    BY <1>1, <2>1
  <2>6. decodeUploadFileResponse(a).err = "nil"
    BY ONLY <2>4, <2>5 DEF decodeUploadFileResponse
  <2> QED
    BY ONLY <2>6 DEF a
<1>4. CASE shape[c] = "Error"
  <2>1. T = ErrorType /\ received[c] \in {400, 401, 500}
    BY <1>4 DEF Server!Bodies, typeOf, T
  <2>3. Decode(T, document(shape[c])).err = "nil"
    BY <1>4, <2>1, ZerosFit, Tables, EncodedIsDecoded DEF document
  <2>4. bodyError(a) = "nil"
    BY <1>2, <2>3
  <2>5. a.status = received[c] /\ received[c] \in {200, 400, 401, 500}
    BY <1>1, <2>1
  <2>6. decodeUploadFileResponse(a).err = "nil"
    BY ONLY <2>4, <2>5 DEF decodeUploadFileResponse
  <2> QED
    BY ONLY <2>6 DEF a
<1>5. CASE shape[c] = "error_message"
  <2>1. T = ErrorType
    <3>1. received[c] \in {400, 415}
      BY <1>5 DEF Server!Bodies
    <3> QED
      BY <3>1 DEF typeOf, T
  <2>2. document(shape[c]) = <<[key |-> "error_message", value |-> Str("")]>>
    BY <1>5 DEF document
  <2>3. /\ DOMAIN document(shape[c]) = 1 .. 1
        /\ document(shape[c])[1].key = "error_message"
    <3> DEFINE m == [key |-> "error_message", value |-> Str("")]
    <3>1. m.key = "error_message"
      BY DEF Str
    <3> HIDE DEF m
    <3>2. DOMAIN <<m>> = 1 .. 1 /\ <<m>>[1] = m
      OBVIOUS
    <3> QED
      BY <2>2, <3>1, <3>2 DEF m
  <2>4. Given(ErrorType, document(shape[c]), 1) = {}
    <3>1. ErrorType.names[1] = "code"
      BY DEF ErrorType
    <3> QED
      BY <2>3, <3>1 DEF Given
  <2>5. 1 \in DOMAIN ErrorType.names /\ ErrorType.names[1] \in ErrorType.required
    BY DEF ErrorType
  <2>6. 1 \in Missing(ErrorType, document(shape[c]))
    BY <2>4, <2>5 DEF Missing
  <2>7. Decode(ErrorType, document(shape[c])).err # "nil"
    BY <2>3, <2>6, Tables, DecodeMeetsTheSchema DEF meetsSchema
  <2>8. bodyError(a) = "decode body"
    BY <1>2, <2>1, <2>7
  <2> QED
    BY <1>5, <2>8 DEF decodeUploadFileResponse, a
<1> QED
  BY <1>3, <1>4, <1>5 DEF Server!Bodies, a

\* Whatever is lost and however the calls overlap, an answer to the operation
\* that arrives whole is understood by the client, unless ErrorHandler wrote it.
THEOREM UnderstoodAnswers == SystemSpec => []WholeAnswersAreUnderstood
<1>1. SystemInit => AnswersInv /\ \A c \in Calls : Prf!BodyInv(c)
  BY SameSteps, Prf!InitBodies, ServerAssumptions DEF SystemInit, Init, AnswersInv
<1>2. IInv /\ Server!IInv /\ AnswersInv /\ [SystemNext]_systemVars => AnswersInv'
  <2> SUFFICES ASSUME IInv, Server!IInv, AnswersInv, [SystemNext]_systemVars PROVE AnswersInv'
    OBVIOUS
  <2>1. CASE UNCHANGED systemVars
    BY <2>1 DEF systemVars, vars, serverVars, AnswersInv, answer
  <2> QED
    BY <2>1, RunAnswers, DoAnswers, ServerAnswers DEF SystemNext
<1>3. Prf!IInv /\ (\A c \in Calls : Prf!BodyInv(c)) /\ [SystemNext]_systemVars
        => (\A c \in Calls : Prf!BodyInv(c))'
  BY ServerSteps, SameSteps, ServerAssumptions, Prf!NextBodies
<1>4. IInv /\ Server!IInv /\ AnswersInv /\ (\A c \in Calls : Server!BodyInv(c))
        => WholeAnswersAreUnderstood
  <2> SUFFICES ASSUME Server!IInv, AnswersInv, \A c \in Calls : Server!BodyInv(c),
                      NEW c \in Calls, NEW a \in resp[c], stage[c] = "returned", a.whole,
                      err[c] # "nil", http[c].path = "/upload"
               PROVE  shape[c] = "error_message" /\ err[c] = "decode body"
    BY DEF WholeAnswersAreUnderstood
  <2>1. PICK whole \in BOOLEAN : resp[c] = {answer(c, whole)}
    BY DEF AnswersInv
  <2>2. a = answer(c, TRUE) /\ err[c] = decodeUploadFileResponse(a).err
    <3>1. a = answer(c, whole)
      BY <2>1
    <3>2. answer(c, whole).whole = whole
      BY DEF answer
    <3>3. whole = TRUE
      BY <3>1, <3>2
    <3>4. err[c] = decodeUploadFileResponse(a).err
      BY DEF AnswersInv
    <3> QED
      BY <3>1, <3>3, <3>4
  <2>3. Server!routed(http[c])
    <3>1. http[c] \in HttpRequests
      BY DEF Server!IInv, Server!TypeOK
    <3> QED
      BY <3>1 DEF HttpRequests, httpRequest, Server!routed
  <2>4. received[c] = head[c] /\ serverStage[c] = "over"
    BY DEF Server!IInv, Server!AnswerInv, AnswersInv
  <2>5. <<received[c], shape[c]>> \in Server!Bodies
    BY <2>3, <2>4 DEF Server!BodyInv, Server!Unanswered, Server!BeforeForm, Server!Encoding
  <2> QED
    BY <2>2, <2>5, DocumentsDecode
<1> QED
  BY <1>1, <1>2, <1>3, <1>4, SameInvariant, SameBodies, PartsInvariance, PTL DEF SystemSpec
=============================================================================
