--------------------------- MODULE GcsUploadProofs ---------------------------
(***************************************************************************)
(* The safety properties of GcsUpload, for any calls, names, files, number *)
(* of attempts and size limit.                                             *)
(***************************************************************************)
EXTENDS GcsUploadRefinement, TLAPS

\* The validation of UploadToGcs ends in one of its errors or in "nil".
LEMMA ValidationResult ==
  ASSUME NEW name, NEW file, NEW maxSize
  PROVE  validationError(name, file, maxSize) \in Errors \cup {"nil"}
<1>1. readFileWithLimit(file, maxSize) \in Errors \cup {"nil"}
  BY DEF readFileWithLimit, Errors
<1>2. detectContentType(sanitizeFilename(name), file.sniff)
        \in ContentTypes \cup {"ErrInvalidFileType"}
  BY DEF detectContentType, ContentTypes
<1> QED
  BY <1>1, <1>2 DEF validationError, Errors

\* What passes it is the whole payload, within the limit, of a known type.
LEMMA ValidationSound ==
  ASSUME NEW name, NEW file, file.len \in Nat, NEW maxSize \in Nat,
         validationError(name, file, maxSize) = "nil"
  PROVE  /\ file.len \in 1 .. maxSize
         /\ bytesRead(file, maxSize) = file.len
         /\ detectContentType(sanitizeFilename(name), file.sniff) \in ContentTypes
<1>1. readFileWithLimit(file, maxSize) = "nil"
  BY DEF validationError, Errors
<1>2. detectContentType(sanitizeFilename(name), file.sniff) \in ContentTypes
  <2>1. detectContentType(sanitizeFilename(name), file.sniff)
          \in ContentTypes \cup {"ErrInvalidFileType"}
    BY DEF detectContentType, ContentTypes
  <2> QED
    BY <1>1, <2>1 DEF validationError
<1>3. ~ (bytesRead(file, maxSize) > maxSize) /\ bytesRead(file, maxSize) # 0
  BY <1>1 DEF readFileWithLimit
<1> QED
  BY <1>2, <1>3 DEF bytesRead

\* Nothing a call was given ever changes, nor what is derived from it.
LEMMA InputConstant ==
  ASSUME Next
  PROVE  /\ input' = input
         /\ \A r : /\ object(r)' = object(r)
                   /\ size(r)' = size(r)
                   /\ contentType(r)' = contentType(r)
                   /\ invalid(r)' = invalid(r)
<1>1. input' = input
  BY DEF Next, UploadToGcs, BeginAttempt, Attempt, CopyFails, FinishCopy, Close,
         CloseOk, CloseFails, Cancel, GcsApply, GcsLose, ProcessExit
<1> QED
  BY <1>1 DEF object, size, contentType, invalid

\* What is known of a call's input in a well-typed state.
LEMMA InputFacts ==
  ASSUME TypeOK, NEW r \in Requests
  PROVE  /\ object(r) \in Objects
         /\ size(r) \in Nat
         /\ invalid(r) \in Errors \cup {"nil"}
         /\ invalid(r) = "nil" => size(r) \in 1 .. MaxUploadSize
                                  /\ contentType(r) \in ContentTypes
<1>1. input[r].name \in Names /\ input[r].file \in Files
  BY DEF TypeOK, Inputs
<1>2. object(r) \in Objects
  BY <1>1 DEF object, Objects
<1>3. size(r) \in Nat
  BY <1>1, FilesAssumption DEF size
<1>4. invalid(r) \in Errors \cup {"nil"}
  BY ValidationResult DEF invalid
<1>5. ASSUME invalid(r) = "nil"
      PROVE  size(r) \in 1 .. MaxUploadSize /\ contentType(r) \in ContentTypes
  BY <1>3, <1>5, ValidationSound, MaxUploadSizeAssumption
  DEF invalid, size, contentType, object
<1> QED
  BY <1>2, <1>3, <1>4, <1>5

\* The inductive invariant holds at the start.
LEMMA InitIInv == Init => IInv
<1> SUFFICES ASSUME Init PROVE IInv
  OBVIOUS
<1>1. TypeOK
  BY MaxAttemptsAssumption DEF Init, TypeOK, Active, Returned
<1>2. CallInv /\ SuccessInv /\ WriteInv
  BY DEF Init, CallInv, SuccessInv, WriteInv, Active, Writing, Errors
<1>3. BucketInv /\ BeforeInv /\ OnlyCompleteValidObjects /\ AcknowledgedWriteIsNeverLate
  BY DEF Init, BucketInv, BeforeInv, OnlyCompleteValidObjects, AcknowledgedWriteIsNeverLate
<1> QED
  BY <1>1, <1>2, <1>3 DEF IInv

\* A call that begins, or is refused at once, keeps it.
LEMMA UploadToGcsStep ==
  ASSUME IInv, NEW r \in Requests, UploadToGcs(r)
  PROVE  IInv'
<1> USE DEF IInv
<1>a. Next /\ r \in Requests
  BY DEF Next
<1>b. /\ pc[r] = "new"
      /\ \A q \in Requests \ {r} : pc'[q] = pc[q] /\ response'[q] = response[q]
                                     /\ before'[q] = before[q]
      /\ before'[r] = {q \in Requests : pc[q] = "done"}
      /\ UNCHANGED <<input, attempt, remaining, cancelled, inflight, applied, bucket>>
  BY DEF UploadToGcs, return, TypeOK
<1>c. \/ /\ invalid(r) = "nil" /\ pc'[r] = "begin" /\ response'[r] = response[r]
      \/ /\ invalid(r) \in Errors /\ pc'[r] = "done"
         /\ response'[r] = [err |-> invalid(r), size |-> 0]
  BY InputFacts DEF UploadToGcs, return, TypeOK
<1>d. response[r].err = "none" /\ attempt[r] = 0
  BY <1>b DEF CallInv
<1>1. TypeOK'
  <2>1. pc' \in [Requests -> {"new"} \cup Active \cup Returned]
    BY <1>c DEF TypeOK, UploadToGcs, return, Active, Returned
  <2>2. response' \in [Requests -> [err : {"none", "nil", "ErrUpload"} \cup Errors, size : Nat]]
    BY <1>c DEF TypeOK, UploadToGcs, return
  <2>3. before' \in [Requests -> SUBSET Requests]
    BY DEF TypeOK, UploadToGcs
  <2> QED
    BY <1>b, <2>1, <2>2, <2>3 DEF TypeOK
<1>2. CallInv'
  BY <1>a, <1>b, <1>c, <1>d, InputConstant DEF CallInv, Active, Writing, Errors
<1>3. SuccessInv'
  BY <1>a, <1>b, <1>c, <1>d, InputConstant DEF SuccessInv, Errors
<1>4. WriteInv'
  BY <1>b, <1>c DEF WriteInv, TypeOK, Writes
<1>5. BucketInv'
  BY <1>b DEF BucketInv
<1>6. BeforeInv'
  BY <1>b, <1>c DEF BeforeInv
<1>7. OnlyCompleteValidObjects'
  BY <1>a, <1>b, InputConstant DEF OnlyCompleteValidObjects
<1>8. AcknowledgedWriteIsNeverLate'
  <2>1. \A w \in applied : w.req # r
    BY <1>d DEF WriteInv, TypeOK, Writes
  <2> QED
    BY <1>a, <1>b, <1>c, <2>1, InputConstant DEF AcknowledgedWriteIsNeverLate, Errors
<1> QED
  BY <1>1, <1>2, <1>3, <1>4, <1>5, <1>6, <1>7, <1>8

\* So does a new attempt, whose writer is a new one.
LEMMA BeginAttemptStep ==
  ASSUME IInv, NEW r \in Requests, BeginAttempt(r)
  PROVE  IInv'
<1> USE DEF IInv
<1>a. Next /\ r \in Requests
  BY DEF Next
<1>b. /\ pc[r] \in {"begin", "backoff"}
      /\ \A q \in Requests \ {r} : pc'[q] = pc[q] /\ attempt'[q] = attempt[q]
                                     /\ remaining'[q] = remaining[q]
      /\ attempt'[r] = attempt[r] + 1
      /\ remaining'[r] = size(r)
      /\ pc'[r] \in {"aborting", "copying"}
      /\ UNCHANGED <<input, response, cancelled, inflight, applied, bucket, before>>
  BY DEF BeginAttempt, TypeOK
<1>c. attempt[r] \in 0 .. MaxAttempts - 1 /\ invalid(r) = "nil" /\ response[r].err = "none"
  BY <1>b, MaxAttemptsAssumption DEF CallInv, Active
<1>1. TypeOK'
  <2>1. pc' \in [Requests -> {"new"} \cup Active \cup Returned]
    BY DEF TypeOK, BeginAttempt, Active, Returned
  <2>2. attempt' \in [Requests -> 0 .. MaxAttempts]
    BY <1>c, MaxAttemptsAssumption DEF TypeOK, BeginAttempt
  <2>3. remaining' \in [Requests -> Nat]
    BY InputFacts DEF TypeOK, BeginAttempt
  <2> QED
    BY <1>b, <2>1, <2>2, <2>3 DEF TypeOK
<1>2. CallInv'
  BY <1>a, <1>b, <1>c, InputConstant, MaxAttemptsAssumption DEF CallInv, Active, Writing
<1>3. SuccessInv'
  BY <1>a, <1>b, <1>c, InputConstant DEF SuccessInv
<1>4. WriteInv'
  <2>1. \A w \in inflight \cup applied : w.req \in Requests /\ w.attempt \in Nat
    BY MaxAttemptsAssumption DEF TypeOK, Writes
  <2>2. \A q \in Requests : attempt[q] \in Nat
    BY MaxAttemptsAssumption DEF TypeOK
  <2> QED
    BY <1>b, <2>1, <2>2 DEF WriteInv
<1>5. BucketInv'
  BY <1>b DEF BucketInv
<1>6. BeforeInv'
  BY <1>b DEF BeforeInv
<1>7. OnlyCompleteValidObjects'
  BY <1>a, <1>b, InputConstant DEF OnlyCompleteValidObjects
<1>8. AcknowledgedWriteIsNeverLate'
  BY <1>a, <1>b, <1>c, InputConstant DEF AcknowledgedWriteIsNeverLate
<1> QED
  BY <1>1, <1>2, <1>3, <1>4, <1>5, <1>6, <1>7, <1>8

\* The two ways an attempt ends in an error differ only in what is left of the
\* payload, which nothing reads any more.
LEMMA FailedAttemptStep ==
  ASSUME IInv, NEW r \in Requests, CopyFails(r) \/ CloseFails(r)
  PROVE  IInv'
<1> USE DEF IInv
<1>a. Next /\ r \in Requests
  BY DEF Next, Attempt, Close
<1>b. /\ pc[r] \in Writing
      /\ attemptFailed(r)
      /\ \A q \in Requests \ {r} : remaining'[q] = remaining[q]
      /\ UNCHANGED <<input, attempt, cancelled, inflight, applied, bucket, before>>
  BY DEF CopyFails, CloseFails, Writing, TypeOK
<1>c. /\ \A q \in Requests \ {r} : pc'[q] = pc[q] /\ response'[q] = response[q]
      /\ \/ /\ attempt[r] < MaxAttempts /\ pc'[r] = "backoff"
            /\ response'[r] = response[r]
         \/ /\ pc'[r] = "done" /\ response'[r] = [err |-> "ErrUpload", size |-> 0]
  BY <1>b DEF attemptFailed, return, TypeOK
<1>d. /\ attempt[r] \in 1 .. MaxAttempts /\ invalid(r) = "nil"
      /\ response[r].err = "none"
  BY <1>b DEF CallInv, Active, Writing
<1>1. TypeOK'
  <2>1. pc' \in [Requests -> {"new"} \cup Active \cup Returned]
    BY <1>b DEF TypeOK, attemptFailed, return, Active, Returned
  <2>2. response' \in [Requests -> [err : {"none", "nil", "ErrUpload"} \cup Errors, size : Nat]]
    BY <1>b DEF TypeOK, attemptFailed, return
  <2>3. remaining' \in [Requests -> Nat]
    <3>1. CASE CopyFails(r)
      <4>1. PICK n \in 0 .. remaining[r] : remaining' = [remaining EXCEPT ![r] = n]
        BY <3>1 DEF CopyFails
      <4>2. n \in Nat
        BY DEF TypeOK
      <4> QED
        BY <4>1, <4>2 DEF TypeOK
    <3>2. CASE CloseFails(r)
      BY <3>2 DEF CloseFails, TypeOK
    <3> QED
      BY <3>1, <3>2
  <2> QED
    BY <1>b, <2>1, <2>2, <2>3 DEF TypeOK
<1>2. CallInv'
  BY <1>a, <1>b, <1>c, <1>d, InputConstant, MaxAttemptsAssumption
  DEF CallInv, Active, Writing, Errors
<1>3. SuccessInv'
  BY <1>a, <1>b, <1>c, <1>d, InputConstant DEF SuccessInv
<1>4. WriteInv'
  BY <1>b, <1>c DEF WriteInv, TypeOK, Writes
<1>5. BucketInv'
  BY <1>b DEF BucketInv
<1>6. BeforeInv'
  BY <1>b, <1>c DEF BeforeInv, Writing
<1>7. OnlyCompleteValidObjects'
  BY <1>a, <1>b, InputConstant DEF OnlyCompleteValidObjects
<1>8. AcknowledgedWriteIsNeverLate'
  BY <1>a, <1>b, <1>c, <1>d, InputConstant DEF AcknowledgedWriteIsNeverLate
<1> QED
  BY <1>1, <1>2, <1>3, <1>4, <1>5, <1>6, <1>7, <1>8

\* So does handing a write to Cloud Storage.
LEMMA FinishCopyStep ==
  ASSUME IInv, NEW r \in Requests, FinishCopy(r)
  PROVE  IInv'
<1> USE DEF IInv
<1> DEFINE sent == [req |-> r, attempt |-> attempt[r], object |-> object(r),
                    size |-> remaining[r], type |-> contentType(r)]
<1>a. Next /\ r \in Requests
  BY DEF Next, Attempt
<1>b. /\ pc[r] = "copying" /\ pc'[r] = "closing"
      /\ \A q \in Requests \ {r} : pc'[q] = pc[q] /\ remaining'[q] = remaining[q]
      /\ inflight' = inflight \cup {sent}
      /\ UNCHANGED <<input, attempt, response, cancelled, applied, bucket, before>>
  BY DEF FinishCopy, TypeOK
<1>c. /\ attempt[r] \in 1 .. MaxAttempts /\ invalid(r) = "nil"
      /\ remaining[r] = size(r) /\ response[r].err = "none"
  BY <1>b DEF CallInv, Active, Writing
<1>d. /\ object(r) \in Objects /\ size(r) \in 1 .. MaxUploadSize
      /\ contentType(r) \in ContentTypes
  BY <1>c, InputFacts
<1>e. \A w \in inflight \cup applied : w.req = r => w.attempt # attempt[r]
  BY <1>b, <1>c DEF WriteInv, TypeOK, Writes
<1>1. TypeOK'
  <2>1. pc' \in [Requests -> {"new"} \cup Active \cup Returned]
    BY DEF TypeOK, FinishCopy, Active, Returned
  <2>2. remaining' \in [Requests -> Nat]
    BY DEF TypeOK, FinishCopy
  <2>3. sent \in Writes
    BY <1>c, <1>d, MaxUploadSizeAssumption DEF Writes
  <2> QED
    BY <1>b, <2>1, <2>2, <2>3 DEF TypeOK
<1>2. CallInv'
  BY <1>a, <1>b, <1>c, InputConstant DEF CallInv, Active, Writing
<1>3. SuccessInv'
  BY <1>a, <1>b, InputConstant DEF SuccessInv
<1>4. WriteInv'
  <2>1. sent.req = r /\ sent.attempt = attempt[r] /\ attempt[r] \in Nat
    BY <1>c
  <2>2. (inflight \cap applied = {})'
    BY <1>b, <1>e, <2>1 DEF WriteInv
  <2>3. \A v, w \in inflight' \cup applied' :
          v.req = w.req /\ v.attempt = w.attempt => v = w
    BY <1>b, <1>e, <2>1 DEF WriteInv
  <2>4. \A w \in inflight' \cup applied' :
          /\ w.attempt <= attempt'[w.req]
          /\ pc'[w.req] \in {"copying", "aborting"} => w.attempt < attempt'[w.req]
    BY <1>b, <2>1 DEF WriteInv, TypeOK, Writes
  <2> QED
    BY <2>2, <2>3, <2>4 DEF WriteInv
<1>5. BucketInv'
  BY <1>b DEF BucketInv
<1>6. BeforeInv'
  BY <1>b DEF BeforeInv
<1>7. OnlyCompleteValidObjects'
  BY <1>a, <1>b, <1>c, <1>d, InputConstant DEF OnlyCompleteValidObjects
<1>8. AcknowledgedWriteIsNeverLate'
  BY <1>a, <1>b, InputConstant DEF AcknowledgedWriteIsNeverLate
<1> QED
  BY <1>1, <1>2, <1>3, <1>4, <1>5, <1>6, <1>7, <1>8

\* So does a Close that reports success.
LEMMA CloseOkStep ==
  ASSUME IInv, NEW r \in Requests, CloseOk(r)
  PROVE  IInv'
<1> USE DEF IInv
<1>a. Next /\ r \in Requests
  BY DEF Next, Close
<1>b. /\ pc[r] = "closing" /\ pc'[r] = "done"
      /\ \A q \in Requests \ {r} : pc'[q] = pc[q] /\ response'[q] = response[q]
      /\ response'[r] = [err |-> "nil", size |-> size(r)]
      /\ \E w \in applied : w.req = r /\ w.attempt = attempt[r]
      /\ UNCHANGED <<input, attempt, remaining, cancelled, inflight, applied, bucket,
                    before>>
  BY DEF CloseOk, return, TypeOK
<1>c. size(r) \in Nat
  BY InputFacts
<1>1. TypeOK'
  <2>1. pc' \in [Requests -> {"new"} \cup Active \cup Returned]
    BY DEF TypeOK, CloseOk, return, Active, Returned
  <2>2. response' \in [Requests -> [err : {"none", "nil", "ErrUpload"} \cup Errors, size : Nat]]
    BY <1>c DEF TypeOK, CloseOk, return
  <2> QED
    BY <1>b, <2>1, <2>2 DEF TypeOK
<1>2. CallInv'
  BY <1>a, <1>b, InputConstant DEF CallInv, Active, Writing, Errors
<1>3. SuccessInv'
  BY <1>a, <1>b, InputConstant DEF SuccessInv
<1>4. WriteInv'
  BY <1>b DEF WriteInv, TypeOK, Writes
<1>5. BucketInv'
  BY <1>b DEF BucketInv
<1>6. BeforeInv'
  BY <1>b DEF BeforeInv
<1>7. OnlyCompleteValidObjects'
  BY <1>a, <1>b, InputConstant DEF OnlyCompleteValidObjects
<1>8. AcknowledgedWriteIsNeverLate'
  <2>1. \A q \in Requests : r \notin before[q]
    BY <1>b DEF BeforeInv
  <2> QED
    BY <1>a, <1>b, <2>1, InputConstant DEF AcknowledgedWriteIsNeverLate
<1> QED
  BY <1>1, <1>2, <1>3, <1>4, <1>5, <1>6, <1>7, <1>8

\* So does a client that goes away.
LEMMA CancelStep ==
  ASSUME IInv, NEW r \in Requests, Cancel(r)
  PROVE  IInv'
<1> USE DEF IInv
<1>a. Next /\ r \in Requests
  BY DEF Next
<1>b. /\ cancelled' = cancelled \cup {r}
      /\ UNCHANGED <<input, pc, attempt, remaining, response, inflight, applied,
                    bucket, before>>
  BY DEF Cancel
<1>1. TypeOK'
  BY <1>b DEF TypeOK
<1>2. CallInv' /\ SuccessInv'
  BY <1>a, <1>b, InputConstant DEF CallInv, SuccessInv
<1>3. WriteInv' /\ BucketInv' /\ BeforeInv'
  BY <1>b DEF WriteInv, BucketInv, BeforeInv
<1>4. OnlyCompleteValidObjects' /\ AcknowledgedWriteIsNeverLate'
  BY <1>a, <1>b, InputConstant DEF OnlyCompleteValidObjects, AcknowledgedWriteIsNeverLate
<1> QED
  BY <1>1, <1>2, <1>3, <1>4

\* So does the end of the process, which leaves no call behind.
LEMMA ProcessExitStep ==
  ASSUME IInv, ProcessExit
  PROVE  IInv'
<1> USE DEF IInv
<1>a. Next
  BY DEF Next
<1>b. /\ \A q \in Requests : pc'[q] = IF pc[q] \in Active THEN "crashed" ELSE pc[q]
      /\ UNCHANGED <<input, attempt, remaining, response, cancelled, inflight,
                    applied, bucket, before>>
  BY DEF ProcessExit
<1>1. TypeOK'
  <2>1. pc' \in [Requests -> {"new"} \cup Active \cup Returned]
    BY DEF TypeOK, ProcessExit, Returned
  <2> QED
    BY <1>b, <2>1 DEF TypeOK
<1>2. CallInv'
  BY <1>a, <1>b, InputConstant DEF CallInv, Active, Writing, Errors
<1>3. SuccessInv'
  BY <1>a, <1>b, InputConstant DEF SuccessInv
<1>4. WriteInv'
  BY <1>b DEF WriteInv, TypeOK, Writes, Active
<1>5. BucketInv' /\ BeforeInv'
  BY <1>b DEF BucketInv, BeforeInv, Active
<1>6. OnlyCompleteValidObjects' /\ AcknowledgedWriteIsNeverLate'
  BY <1>a, <1>b, InputConstant DEF OnlyCompleteValidObjects, AcknowledgedWriteIsNeverLate
<1> QED
  BY <1>1, <1>2, <1>3, <1>4, <1>5, <1>6

\* So does a write that takes effect, whoever still waits for it.
LEMMA GcsApplyStep ==
  ASSUME IInv, NEW w \in inflight, GcsApply(w)
  PROVE  IInv'
<1> USE DEF IInv
<1>a. Next
  BY DEF Next
<1>b. /\ inflight' = inflight \ {w}
      /\ applied' = applied \cup {w}
      /\ bucket' = {v \in bucket : v.object # w.object} \cup {w}
      /\ UNCHANGED <<input, pc, attempt, remaining, response, cancelled, before>>
  BY DEF GcsApply
<1>c. w \in Writes /\ w \notin applied
  BY DEF TypeOK, WriteInv
<1>1. TypeOK'
  BY <1>b DEF TypeOK
<1>2. CallInv'
  BY <1>a, <1>b, InputConstant DEF CallInv
<1>3. SuccessInv'
  BY <1>a, <1>b, InputConstant DEF SuccessInv
<1>4. WriteInv'
  BY <1>b, <1>c DEF WriteInv
<1>5. BucketInv'
  BY <1>b DEF BucketInv
<1>6. BeforeInv'
  BY <1>b DEF BeforeInv
<1>7. OnlyCompleteValidObjects'
  BY <1>a, <1>b, InputConstant DEF OnlyCompleteValidObjects
<1>8. AcknowledgedWriteIsNeverLate'
  <2> SUFFICES ASSUME NEW r1 \in Requests, NEW r2 \in Requests,
                      r1 \in before[r2], response[r1].err = "nil", object(r1) = object(r2),
                      NEW u \in applied', u.req = r2,
                      NEW v \in bucket', v.req = r1, v.attempt = attempt[r1]
               PROVE  FALSE
    BY <1>a, <1>b, InputConstant DEF AcknowledgedWriteIsNeverLate
  <2>1. PICK x \in applied : x.req = r1 /\ x.attempt = attempt[r1]
    BY DEF SuccessInv
  \* The acknowledged write was applied already, so it is not the one now applied.
  <2>2. v # w
    BY <1>c, <2>1 DEF WriteInv
  <2>3. v \in bucket /\ v.object # w.object
    BY <1>b, <2>2
  <2>4. u # w
    <3>1. v \in applied /\ v.object = object(r1)
      BY <2>3 DEF BucketInv, OnlyCompleteValidObjects
    <3>2. w.object = object(w.req)
      BY DEF OnlyCompleteValidObjects
    <3> QED
      BY <2>3, <3>1, <3>2
  <2> QED
    BY <1>b, <2>3, <2>4 DEF AcknowledgedWriteIsNeverLate
<1> QED
  BY <1>1, <1>2, <1>3, <1>4, <1>5, <1>6, <1>7, <1>8

\* So does a write that is lost.
LEMMA GcsLoseStep ==
  ASSUME IInv, NEW w \in inflight, GcsLose(w)
  PROVE  IInv'
<1> USE DEF IInv
<1>a. Next
  BY DEF Next
<1>b. /\ inflight' = inflight \ {w}
      /\ UNCHANGED <<input, pc, attempt, remaining, response, cancelled, applied,
                    bucket, before>>
  BY DEF GcsLose
<1>1. TypeOK'
  BY <1>b DEF TypeOK
<1>2. CallInv' /\ SuccessInv'
  BY <1>a, <1>b, InputConstant DEF CallInv, SuccessInv
<1>3. WriteInv'
  BY <1>b DEF WriteInv
<1>4. BucketInv' /\ BeforeInv'
  BY <1>b DEF BucketInv, BeforeInv
<1>5. OnlyCompleteValidObjects' /\ AcknowledgedWriteIsNeverLate'
  BY <1>a, <1>b, InputConstant DEF OnlyCompleteValidObjects, AcknowledgedWriteIsNeverLate
<1> QED
  BY <1>1, <1>2, <1>3, <1>4, <1>5

\* Every step keeps it.
LEMMA NextIInv == IInv /\ [Next]_vars => IInv'
<1> SUFFICES ASSUME IInv, [Next]_vars PROVE IInv'
  OBVIOUS
<1>1. CASE UNCHANGED vars
  BY <1>1
  DEF vars, IInv, TypeOK, CallInv, SuccessInv, WriteInv, BucketInv, BeforeInv,
      OnlyCompleteValidObjects, AcknowledgedWriteIsNeverLate, object, size, contentType,
      invalid
<1>2. ASSUME NEW r \in Requests, Attempt(r) \/ Close(r) PROVE IInv'
  BY <1>2, FinishCopyStep, FailedAttemptStep, CloseOkStep DEF Attempt, Close
<1>3. CASE Next
  BY <1>2, <1>3, UploadToGcsStep, BeginAttemptStep, CancelStep, GcsApplyStep, GcsLoseStep,
     ProcessExitStep
  DEF Next
<1> QED
  BY <1>1, <1>3

\* The inductive invariant of the upload holds for any number of calls,
\* attempts and writes.
THEOREM Invariance == Spec => []IInv
<1> QED
  BY InitIInv, NextIInv, PTL DEF Spec

\* Every variable keeps its type; in particular no call makes more than
\* MaxAttempts attempts.
THEOREM TypeCorrect == Spec => []TypeOK
<1>1. IInv => TypeOK
  BY DEF IInv
<1> QED
  BY <1>1, Invariance, PTL

\* No rejected, truncated or misnamed file ever reaches Cloud Storage.
THEOREM CompleteObjects == Spec => []OnlyCompleteValidObjects
<1>1. IInv => OnlyCompleteValidObjects
  BY DEF IInv
<1> QED
  BY <1>1, Invariance, PTL

\* An upload that was answered with success was stored in full.
THEOREM SuccessStored == Spec => []SuccessMeansStored
<1>1. ASSUME IInv PROVE SuccessMeansStored
  <2> SUFFICES ASSUME NEW r \in Requests, response[r].err = "nil"
               PROVE  /\ \E w \in applied : w.req = r /\ w.size = response[r].size
                      /\ \E w \in bucket : w.object = object(r)
    BY DEF SuccessMeansStored
  <2>1. PICK w \in applied : w.req = r
    BY <1>1 DEF IInv, SuccessInv
  <2>2. w.size = response[r].size /\ w.object = object(r)
    BY <1>1, <2>1 DEF IInv, SuccessInv, OnlyCompleteValidObjects
  <2>3. \E v \in bucket : v.object = w.object
    BY <1>1 DEF IInv, BucketInv
  <2> QED
    BY <2>1, <2>2, <2>3
<1> QED
  BY <1>1, Invariance, PTL

\* Whatever a late write overwrites, it is not the write that was acknowledged.
THEOREM AcknowledgedNotLate == Spec => []AcknowledgedWriteIsNeverLate
<1>1. IInv => AcknowledgedWriteIsNeverLate
  BY DEF IInv
<1> QED
  BY <1>1, Invariance, PTL

(***************************************************************************)
(* GcsUpload implements UploadStore.                                       *)
(***************************************************************************)

\* A request with a write under way or applied was accepted.
LEMMA WriterAccepted ==
  ASSUME IInv, NEW w \in inflight \cup applied
  PROVE  /\ w.req \in Requests /\ w.attempt \in 1 .. MaxAttempts
         /\ w.object = object(w.req)
         /\ answer(w.req) \in {"open", "ok", "failed", "dead"}
<1>1. w \in Writes
  BY DEF IInv, TypeOK
<1>2. w.req \in Requests /\ w.attempt \in 1 .. MaxAttempts
  BY <1>1 DEF Writes
<1>3. invalid(w.req) = "nil" /\ w.object = object(w.req)
  BY DEF IInv, OnlyCompleteValidObjects
<1>4. pc[w.req] # "new"
  BY <1>2 DEF IInv, CallInv, WriteInv
<1>5. pc[w.req] = "done" => response[w.req].err \in {"nil", "ErrUpload"}
  BY <1>2, <1>3 DEF IInv, CallInv, TypeOK
<1>6. pc[w.req] \in Active \cup Returned
  BY <1>2, <1>4 DEF IInv, TypeOK
<1> QED
  BY <1>2, <1>3, <1>4, <1>5, <1>6 DEF answer, Active, Returned

\* The upload starts as the abstract store does.
LEMMA StoreInit == Init => Store!Init
<1> SUFFICES ASSUME Init PROVE Store!Init
  OBVIOUS
<1>1. TypeOK
  BY InitIInv DEF IInv
<1>2. [r \in Requests |-> object(r)] \in [Requests -> Objects]
  BY <1>1, InputFacts
<1>3. [r \in Requests |-> answer(r)] = [r \in Requests |-> "idle"]
  <2>1. \A r \in Requests : answer(r) = "idle"
    BY DEF Init, answer, Active
  <2> QED
    BY <2>1
<1>4. pairs(applied) = {} /\ pairs(bucket) = {}
  BY DEF Init, pairs
<1> QED
  BY <1>2, <1>3, <1>4 DEF Store!Init

\* A step that leaves every answer and both sets of effects as they are.
LEMMA StoreStutter ==
  ASSUME Next, \A q \in Requests : answer(q)' = answer(q), UNCHANGED <<applied, bucket>>
  PROVE  UNCHANGED Store!vars
<1>1. [q \in Requests |-> object(q)]' = [q \in Requests |-> object(q)]
  BY InputConstant
<1>2. [q \in Requests |-> answer(q)]' = [q \in Requests |-> answer(q)]
  OBVIOUS
<1>3. pairs(applied)' = pairs(applied) /\ pairs(bucket)' = pairs(bucket)
  BY DEF pairs
<1> QED
  BY <1>1, <1>2, <1>3 DEF Store!vars

\* A step that changes the answer of one call.
LEMMA StoreMove ==
  ASSUME Next, NEW r \in Requests, NEW from, NEW to,
         answer(r) = from, answer(r)' = to,
         \A q \in Requests \ {r} : answer(q)' = answer(q),
         UNCHANGED <<applied, bucket>>
  PROVE  Store!Move(r, from, to)
<1>1. [q \in Requests |-> object(q)]' = [q \in Requests |-> object(q)]
  BY InputConstant
<1>2. [q \in Requests |-> answer(q)]' = [[q \in Requests |-> answer(q)] EXCEPT ![r] = to]
  OBVIOUS
<1>3. pairs(applied)' = pairs(applied) /\ pairs(bucket)' = pairs(bucket)
  BY DEF pairs
<1> QED
  BY <1>1, <1>2, <1>3 DEF Store!Move

\* A call whose pc and response stay gives the same answer.
LEMMA SameAnswer ==
  ASSUME NEW q, pc'[q] = pc[q], response'[q] = response[q]
  PROVE  answer(q)' = answer(q)
BY DEF answer

\* While a call is under way its answer is open.
LEMMA OpenAnswer ==
  ASSUME NEW q, pc[q] \in Active
  PROVE  answer(q) = "open"
BY DEF answer, Active

\* The call that validates its input is accepted or rejected.
LEMMA ValidateImplements ==
  ASSUME IInv, NEW r \in Requests, UploadToGcs(r)
  PROVE  Store!Accept(r) \/ Store!Reject(r)
<1>1. Next
  BY DEF Next
<1>2. /\ pc[r] = "new"
      /\ UNCHANGED <<applied, bucket>>
      /\ \A q \in Requests \ {r} : pc'[q] = pc[q] /\ response'[q] = response[q]
  BY DEF UploadToGcs, return, IInv, TypeOK
<1>3. \A q \in Requests \ {r} : answer(q)' = answer(q)
  BY <1>2, SameAnswer
<1>4. answer(r) = "idle"
  BY <1>2 DEF answer, Active
<1>5. CASE invalid(r) = "nil"
  <2>1. pc'[r] = "begin"
    BY <1>5 DEF UploadToGcs, IInv, TypeOK
  <2>2. answer(r)' = "open"
    BY <2>1 DEF answer, Active
  <2> QED
    BY <1>1, <1>2, <1>3, <1>4, <2>2, StoreMove DEF Store!Accept
<1>6. CASE invalid(r) # "nil"
  <2>1. pc'[r] = "done" /\ response'[r].err = invalid(r)
    BY <1>6 DEF UploadToGcs, return, IInv, TypeOK
  <2>2. invalid(r) \in Errors
    BY <1>6, InputFacts DEF IInv
  <2>3. answer(r)' = "rejected"
    BY <2>1, <2>2 DEF answer, Active, Errors
  <2> QED
    BY <1>1, <1>2, <1>3, <1>4, <2>3, StoreMove DEF Store!Reject
<1> QED
  BY <1>5, <1>6

\* A failed attempt is invisible unless it is the last.
LEMMA FailureImplements ==
  ASSUME IInv, NEW r \in Requests, CopyFails(r) \/ CloseFails(r)
  PROVE  Store!ReplyFailed(r) \/ UNCHANGED Store!vars
<1>1. Next
  BY DEF Next, Attempt, Close
<1>2. pc[r] \in Active /\ attemptFailed(r) /\ UNCHANGED <<applied, bucket>>
  BY DEF CopyFails, CloseFails, Active
<1>3. \A q \in Requests \ {r} : pc'[q] = pc[q] /\ response'[q] = response[q]
  BY <1>2 DEF attemptFailed, return, IInv, TypeOK
<1>4. \A q \in Requests \ {r} : answer(q)' = answer(q)
  BY <1>3, SameAnswer
<1>5. answer(r) = "open"
  BY <1>2, OpenAnswer
<1>6. CASE attempt[r] < MaxAttempts
  <2>1. pc'[r] = "backoff"
    BY <1>2, <1>6 DEF attemptFailed, IInv, TypeOK
  <2>2. answer(r)' = "open"
    BY <2>1 DEF answer, Active
  <2> QED
    BY <1>1, <1>2, <1>4, <1>5, <2>2, StoreStutter
<1>7. CASE ~ (attempt[r] < MaxAttempts)
  <2>1. pc'[r] = "done" /\ response'[r].err = "ErrUpload"
    BY <1>2, <1>7 DEF attemptFailed, return, IInv, TypeOK
  <2>2. answer(r)' = "failed"
    BY <2>1 DEF answer, Active
  <2> QED
    BY <1>1, <1>2, <1>4, <1>5, <2>2, StoreMove DEF Store!ReplyFailed
<1> QED
  BY <1>6, <1>7

\* Success is answered after an effect.
LEMMA CloseOkImplements ==
  ASSUME IInv, NEW r \in Requests, CloseOk(r)
  PROVE  Store!ReplyOk(r)
<1>1. Next
  BY DEF Next, Close
<1>2. /\ pc[r] = "closing" /\ UNCHANGED <<applied, bucket>>
      /\ \A q \in Requests \ {r} : pc'[q] = pc[q] /\ response'[q] = response[q]
      /\ pc'[r] = "done" /\ response'[r].err = "nil"
  BY DEF CloseOk, return, IInv, TypeOK
<1>3. \A q \in Requests \ {r} : answer(q)' = answer(q)
  BY <1>2, SameAnswer
<1>4. answer(r) = "open"
  BY <1>2, OpenAnswer DEF Active
<1>5. answer(r)' = "ok"
  BY <1>2 DEF answer, Active
<1>6. Store!Move(r, "open", "ok")
  BY <1>1, <1>2, <1>3, <1>4, <1>5, StoreMove
<1>7. PICK w \in applied : w.req = r
  BY DEF CloseOk
<1>8. <<w.req, w.attempt>> \in pairs(applied)
  BY DEF pairs
<1> QED
  BY <1>6, <1>7, <1>8 DEF Store!ReplyOk

\* The other steps of a call, and its cancellation, are invisible.
LEMMA QuietStep ==
  ASSUME IInv, NEW r \in Requests, BeginAttempt(r) \/ FinishCopy(r) \/ Cancel(r)
  PROVE  UNCHANGED Store!vars
<1>1. Next
  BY DEF Next, Attempt
<1>2. /\ pc[r] \in Active /\ pc'[r] \in Active
      /\ UNCHANGED <<applied, bucket, response>>
      /\ \A q \in Requests \ {r} : pc'[q] = pc[q]
  BY DEF BeginAttempt, FinishCopy, Cancel, Active, IInv, TypeOK
<1>3. \A q \in Requests \ {r} : answer(q)' = answer(q)
  BY <1>2, SameAnswer
<1>4. answer(r) = "open" /\ answer(r)' = "open"
  BY <1>2 DEF answer, Active
<1> QED
  BY <1>1, <1>2, <1>3, <1>4, StoreStutter

\* The end of the process is the store's.
LEMMA ExitImplements ==
  ASSUME IInv, ProcessExit
  PROVE  Store!Die
<1>1. Next
  BY DEF Next
<1>2. /\ UNCHANGED <<applied, bucket, response>>
      /\ \A q \in Requests : pc'[q] = IF pc[q] \in Active THEN "crashed" ELSE pc[q]
  BY DEF ProcessExit
<1>3. ASSUME NEW q \in Requests
      PROVE  answer(q)' = IF answer(q) = "open" THEN "dead" ELSE answer(q)
  <2>1. CASE pc[q] \in Active
    <3>1. pc'[q] = "crashed"
      BY <1>2, <2>1
    <3>2. answer(q)' = "dead"
      BY <3>1 DEF answer, Active
    <3> QED
      BY <2>1, <3>2, OpenAnswer
  <2>2. CASE pc[q] \notin Active
    <3>1. answer(q)' = answer(q)
      BY <1>2, <2>2, SameAnswer
    <3>2. answer(q) # "open"
      BY <2>2 DEF answer
    <3> QED
      BY <3>1, <3>2
  <2> QED
    BY <2>1, <2>2
<1>4. [q \in Requests |-> object(q)]' = [q \in Requests |-> object(q)]
  BY <1>1, InputConstant
<1>5. pairs(applied)' = pairs(applied) /\ pairs(bucket)' = pairs(bucket)
  BY <1>2 DEF pairs
<1> QED
  BY <1>3, <1>4, <1>5 DEF Store!Die

\* Cloud Storage applying a write is the effect of one attempt.
LEMMA ApplyImplements ==
  ASSUME IInv, NEW w \in inflight, GcsApply(w)
  PROVE  w.req \in Requests /\ w.attempt \in 1 .. MaxAttempts /\ Store!Effect(w.req, w.attempt)
<1> DEFINE p == <<w.req, w.attempt>>
<1>1. Next
  BY DEF Next
<1>2. /\ applied' = applied \cup {w}
      /\ bucket' = {v \in bucket : v.object # w.object} \cup {w}
      /\ UNCHANGED <<pc, response>>
  BY DEF GcsApply
<1>3. /\ w.req \in Requests /\ w.attempt \in 1 .. MaxAttempts /\ w.object = object(w.req)
      /\ answer(w.req) \in {"open", "ok", "failed", "dead"}
  BY WriterAccepted
<1>4. p \notin pairs(applied)
  BY DEF pairs, IInv, WriteInv
<1>5. pairs(applied)' = pairs(applied) \cup {p}
  BY <1>2 DEF pairs
<1>6. \A v \in bucket : v.req \in Requests /\ v.object = object(v.req)
  BY WriterAccepted DEF IInv, BucketInv
<1>7. pairs(bucket)' = {x \in pairs(bucket) : object(x[1]) # object(w.req)} \cup {p}
  BY <1>2, <1>3, <1>6 DEF pairs
<1>8. \A x \in pairs(bucket) : x[1] \in Requests
  BY <1>6 DEF pairs
<1>9. [q \in Requests |-> object(q)]' = [q \in Requests |-> object(q)]
  BY <1>1, InputConstant
<1>10. [q \in Requests |-> answer(q)]' = [q \in Requests |-> answer(q)]
  <2>1. \A q : answer(q)' = answer(q)
    BY <1>2 DEF answer
  <2> QED
    BY <2>1
<1> HIDE DEF p
<1>11. pairs(bucket)' =
         {x \in pairs(bucket) : [q \in Requests |-> object(q)][x[1]]
                               # [q \in Requests |-> object(q)][w.req]} \cup {p}
  BY <1>3, <1>7, <1>8
<1> QED
  BY <1>3, <1>4, <1>5, <1>9, <1>10, <1>11 DEF Store!Effect, p

\* A lost write is no step of the store.
LEMMA LoseImplements ==
  ASSUME IInv, NEW w \in inflight, GcsLose(w)
  PROVE  UNCHANGED Store!vars
<1>1. Next
  BY DEF Next
<1>2. UNCHANGED <<pc, response, applied, bucket>>
  BY DEF GcsLose
<1> QED
  BY <1>1, <1>2, SameAnswer, StoreStutter

\* Every step of the upload is one of the store, or none.
LEMMA StoreStep == IInv /\ [Next]_vars => [Store!Next]_(Store!vars)
<1> SUFFICES ASSUME IInv, [Next]_vars PROVE Store!Next \/ UNCHANGED Store!vars
  OBVIOUS
<1>1. CASE UNCHANGED vars
  <2>1. UNCHANGED <<input, pc, response, applied, bucket>>
    BY <1>1 DEF vars
  <2> QED
    BY <2>1 DEF Store!vars, answer, object, pairs
<1>2. ASSUME NEW r \in Requests,
             UploadToGcs(r) \/ BeginAttempt(r) \/ Attempt(r) \/ Close(r) \/ Cancel(r)
      PROVE  Store!Next \/ UNCHANGED Store!vars
  BY <1>2, ValidateImplements, FailureImplements, CloseOkImplements, QuietStep
  DEF Attempt, Close, Store!Next
<1>3. ASSUME NEW w \in inflight, GcsApply(w) \/ GcsLose(w)
      PROVE  Store!Next \/ UNCHANGED Store!vars
  BY <1>3, ApplyImplements, LoseImplements DEF Store!Next
<1>4. CASE ProcessExit
  BY <1>4, ExitImplements DEF Store!Next
<1> QED
  BY <1>1, <1>2, <1>3, <1>4 DEF Next

\* UploadToGcs and the bucket do what UploadStore promises: an upload takes
\* effect at most once per attempt, never when it was rejected, and before it
\* is answered with success.
THEOREM Refinement == Spec => ImplementsStore
<1>1. Init => Store!Init
  BY StoreInit
<1>2. IInv /\ [Next]_vars => [Store!Next]_(Store!vars)
  BY StoreStep
<1> QED
  BY <1>1, <1>2, Invariance, PTL DEF Spec, ImplementsStore, Store!Spec

\* Every object ever written has one content, and it is an accepted upload's.
THEOREM OneVersion == Spec => []OneVersionPerObject
<1>1. ASSUME IInv PROVE OneVersionPerObject
  <2> DEFINE tgt == [r \in Requests |-> object(r)]
             st == [r \in Requests |-> answer(r)]
  <2>1. \A w \in applied \cup bucket :
          /\ w.req \in Requests /\ tgt[w.req] = w.object
          /\ st[w.req] \notin {"idle", "rejected"}
    BY <1>1, WriterAccepted DEF IInv, BucketInv
  <2> HIDE DEF tgt, st
  <2>2. ASSUME NEW p \in pairs(applied)
        PROVE  \E q \in pairs(bucket) : tgt[q[1]] = tgt[p[1]]
    <3>1. PICK w \in applied : p = <<w.req, w.attempt>>
      BY DEF pairs
    <3>2. PICK v \in bucket : v.object = w.object
      BY <1>1 DEF IInv, BucketInv
    <3>3. <<v.req, v.attempt>> \in pairs(bucket)
      BY DEF pairs
    <3> QED
      BY <2>1, <3>1, <3>2, <3>3
  <2>3. \A p, q \in pairs(bucket) : tgt[p[1]] = tgt[q[1]] => p = q
    BY <1>1, <2>1 DEF IInv, BucketInv, pairs
  <2>4. \A p \in pairs(bucket) : st[p[1]] \notin {"idle", "rejected"}
    BY <2>1 DEF pairs
  <2> QED
    BY <2>2, <2>3, <2>4 DEF OneVersionPerObject, Store!OneLivePerTarget, tgt, st
<1> QED
  BY <1>1, Invariance, PTL
=============================================================================
