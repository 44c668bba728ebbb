----------------------------- MODULE GcsUpload -----------------------------
(***************************************************************************)
(* UploadToGcs (internal/gcs/gcs.go), called by several request goroutines *)
(* of the server at once, and the bucket they all write to.                *)
(*                                                                         *)
(* A call validates its input, then makes up to MaxAttempts attempts, each *)
(* with a new reader over the payload and a new storage.Writer.  The bytes *)
(* reach Cloud Storage while io.Copy runs; the object is complete, and may *)
(* become visible, once Close has been called.  Close may report an error  *)
(* although the object was stored, and the write of an attempt that was    *)
(* given up may still be applied later, even after the call has returned.  *)
(* Cloud Storage is external and modelled by what the code relies on: the  *)
(* last write applied to an object wins.                                   *)
(***************************************************************************)
EXTENDS UploadValidation

CONSTANTS
  Requests,       \* the calls of UploadToGcs, each made at most once
  Names,          \* the file names a client may send
  Files,          \* the files a client may send
  MaxAttempts,    \* maxAttempts in uploadWithRetry
  MaxUploadSize   \* GcsConfig.maxUploadSize()

ASSUME MaxAttemptsAssumption == MaxAttempts \in Nat \ {0}

ASSUME MaxUploadSizeAssumption == MaxUploadSize \in Nat \ {0}

ASSUME FilesAssumption == \A f \in Files : f.len \in Nat

VARIABLES
  input,      \* what each call is given
  pc,         \* where each call stands
  attempt,    \* the loop counter of uploadWithRetry
  remaining,  \* bytes of the payload the attempt's reader still holds
  response,   \* the error ("nil": success) and the size UploadToGcs returns
  cancelled,  \* the requests whose context is done
  inflight,   \* complete writes Cloud Storage has neither applied nor lost
  applied,    \* the writes Cloud Storage has applied
  bucket,     \* the last write applied to each object that exists
  before      \* history: the calls that had returned when a call was made

vars == <<input, pc, attempt, remaining, response, cancelled, inflight,
          applied, bucket, before>>

Active == {"begin", "copying", "aborting", "closing", "backoff"}
Returned == {"done", "crashed"}

Objects == {sanitizeFilename(n) : n \in Names}

Inputs == [name : Names, file : Files]

\* What an attempt sends: whose it is, which attempt, and the object written.
Writes == [req : Requests, attempt : 1 .. MaxAttempts, object : Objects,
           size : Nat, type : ContentTypes]

object(r) == sanitizeFilename(input[r].name)
size(r) == input[r].file.len
contentType(r) == detectContentType(object(r), input[r].file.sniff)
invalid(r) == validationError(input[r].name, input[r].file, MaxUploadSize)

TypeOK ==
  /\ input \in [Requests -> Inputs]
  /\ pc \in [Requests -> {"new"} \cup Active \cup Returned]
  /\ attempt \in [Requests -> 0 .. MaxAttempts]
  /\ remaining \in [Requests -> Nat]
  /\ response \in [Requests -> [err : {"none", "nil", "ErrUpload"} \cup Errors,
                                size : Nat]]
  /\ cancelled \in SUBSET Requests
  /\ inflight \in SUBSET Writes
  /\ applied \in SUBSET Writes
  /\ bucket \in SUBSET Writes
  /\ before \in [Requests -> SUBSET Requests]

Init ==
  /\ input \in [Requests -> Inputs]
  /\ pc = [r \in Requests |-> "new"]
  /\ attempt = [r \in Requests |-> 0]
  /\ remaining = [r \in Requests |-> 0]
  /\ response = [r \in Requests |-> [err |-> "none", size |-> 0]]
  /\ cancelled = {}
  /\ inflight = {}
  /\ applied = {}
  /\ bucket = {}
  /\ before = [r \in Requests |-> {}]

(***************************************************************************)
(* The steps of a call.                                                    *)
(***************************************************************************)
return(r, err, n) ==
  /\ pc' = [pc EXCEPT ![r] = "done"]
  /\ response' = [response EXCEPT ![r] = [err |-> err, size |-> n]]

\* Name, size, payload and content type are checked before the first attempt;
\* none of it touches shared state.
UploadToGcs(r) ==
  /\ pc[r] = "new"
  /\ before' = [before EXCEPT ![r] = {q \in Requests : pc[q] = "done"}]
  /\ IF invalid(r) = "nil"
     THEN pc' = [pc EXCEPT ![r] = "begin"] /\ UNCHANGED response
     ELSE return(r, invalid(r), 0)
  /\ UNCHANGED <<input, attempt, remaining, cancelled, inflight, applied, bucket>>

\* Mutant: one reader for all attempts.
BeginWithOldReader(r) ==
  /\ pc[r] \in {"begin", "backoff"}
  /\ attempt' = [attempt EXCEPT ![r] = @ + 1]
  /\ remaining' = IF pc[r] = "begin" THEN [remaining EXCEPT ![r] = size(r)] ELSE remaining
  /\ pc' = [pc EXCEPT ![r] = IF r \in cancelled THEN "aborting" ELSE "copying"]
  /\ UNCHANGED <<input, response, cancelled, inflight, applied, bucket, before>>

\* Mutant: retries are not counted.
BeginUncounted(r) ==
  /\ pc[r] \in {"begin", "backoff"}
  /\ attempt' = [attempt EXCEPT ![r] = 1]
  /\ remaining' = [remaining EXCEPT ![r] = size(r)]
  /\ pc' = [pc EXCEPT ![r] = IF r \in cancelled THEN "aborting" ELSE "copying"]
  /\ UNCHANGED <<input, response, cancelled, inflight, applied, bucket, before>>

\* The next turn of the retry loop, at once or after the backoff, with a fresh
\* reader and a new Writer; attemptFailed has seen to the loop's bound.  The context is not consulted; on a context that
\* is done the Writer fails before anything complete is sent.
BeginAttempt(r) ==
  /\ pc[r] \in {"begin", "backoff"}
  /\ attempt' = [attempt EXCEPT ![r] = @ + 1]
  /\ remaining' = [remaining EXCEPT ![r] = size(r)]
  /\ pc' = [pc EXCEPT ![r] = IF r \in cancelled THEN "aborting" ELSE "copying"]
  /\ UNCHANGED <<input, response, cancelled, inflight, applied, bucket, before>>

\* Mutant: one attempt too many.
failedOffByOne(r) ==
  IF attempt[r] <= MaxAttempts
  THEN pc' = [pc EXCEPT ![r] = "backoff"] /\ UNCHANGED response
  ELSE return(r, "ErrUpload", 0)

\* The attempt returned an error: sleep, unless it was the last.
attemptFailed(r) ==
  IF attempt[r] < MaxAttempts
  THEN pc' = [pc EXCEPT ![r] = "backoff"] /\ UNCHANGED response
  ELSE return(r, "ErrUpload", 0)

\* io.Copy fails after some of the payload; the Writer is closed, its error
\* dropped, and no complete object was sent.
CopyFails(r) ==
  /\ pc[r] \in {"copying", "aborting"}
  /\ \E n \in 0 .. remaining[r] : remaining' = [remaining EXCEPT ![r] = n]
  /\ attemptFailed(r)
  /\ UNCHANGED <<input, attempt, cancelled, inflight, applied, bucket, before>>

\* Mutant: success is returned before Close was heard of.
FinishCopyUnconfirmed(r) ==
  /\ pc[r] = "copying"
  /\ inflight' = inflight \cup {[req |-> r, attempt |-> attempt[r],
                                 object |-> object(r), size |-> remaining[r],
                                 type |-> contentType(r)]}
  /\ remaining' = [remaining EXCEPT ![r] = 0]
  /\ return(r, "nil", size(r))
  /\ UNCHANGED <<input, attempt, cancelled, applied, bucket, before>>

\* Mutant: the object is named as the client named it.
FinishCopyRawName(r) ==
  /\ pc[r] = "copying"
  /\ inflight' = inflight \cup {[req |-> r, attempt |-> attempt[r],
                                 object |-> input[r].name, size |-> remaining[r],
                                 type |-> contentType(r)]}
  /\ remaining' = [remaining EXCEPT ![r] = 0]
  /\ pc' = [pc EXCEPT ![r] = "closing"]
  /\ UNCHANGED <<input, attempt, response, cancelled, applied, bucket, before>>

\* io.Copy reads the reader to its end and Close finishes the object.
FinishCopy(r) ==
  /\ pc[r] = "copying"
  /\ inflight' = inflight \cup {[req |-> r, attempt |-> attempt[r],
                                 object |-> object(r), size |-> remaining[r],
                                 type |-> contentType(r)]}
  /\ remaining' = [remaining EXCEPT ![r] = 0]
  /\ pc' = [pc EXCEPT ![r] = "closing"]
  /\ UNCHANGED <<input, attempt, response, cancelled, applied, bucket, before>>

\* Close reports success: Cloud Storage acknowledged this attempt's write.
CloseOk(r) ==
  /\ pc[r] = "closing"
  /\ \E w \in applied : w.req = r /\ w.attempt = attempt[r]
  /\ return(r, "nil", size(r))
  /\ UNCHANGED <<input, attempt, remaining, cancelled, inflight, applied, bucket,
                 before>>

\* Mutant: the error of Close is dropped.
CloseErrorDropped(r) ==
  /\ pc[r] = "closing"
  /\ return(r, "nil", size(r))
  /\ UNCHANGED <<input, attempt, remaining, cancelled, inflight, applied, bucket,
                 before>>

\* Close reports an error, whatever became of the write.
CloseFails(r) ==
  /\ pc[r] = "closing"
  /\ attemptFailed(r)
  /\ UNCHANGED <<input, attempt, remaining, cancelled, inflight, applied, bucket,
                 before>>

(***************************************************************************)
(* The environment: the client or the server's Close ends the request's    *)
(* context, the process exits with calls in progress, Cloud Storage        *)
(* applies a write or loses it.                                            *)
(***************************************************************************)
Cancel(r) ==
  /\ pc[r] \in Active \ {"aborting"}
  /\ cancelled' = cancelled \cup {r}
  /\ UNCHANGED <<input, pc, attempt, remaining, response, inflight, applied,
                 bucket, before>>

ProcessExit ==
  /\ \E r \in Requests : pc[r] \in Active
  /\ pc' = [r \in Requests |-> IF pc[r] \in Active THEN "crashed" ELSE pc[r]]
  /\ UNCHANGED <<input, attempt, remaining, response, cancelled, inflight,
                 applied, bucket, before>>

GcsApply(w) ==
  /\ w \in inflight
  /\ inflight' = inflight \ {w}
  /\ applied' = applied \cup {w}
  /\ bucket' = {v \in bucket : v.object # w.object} \cup {w}
  /\ UNCHANGED <<input, pc, attempt, remaining, response, cancelled, before>>

GcsLose(w) ==
  /\ w \in inflight
  /\ inflight' = inflight \ {w}
  /\ UNCHANGED <<input, pc, attempt, remaining, response, cancelled, applied,
                 bucket, before>>

Attempt(r) == CopyFails(r) \/ FinishCopy(r)
Close(r) == CloseOk(r) \/ CloseFails(r)

Next ==
  \/ \E r \in Requests :
       \/ UploadToGcs(r)
       \/ BeginAttempt(r)
       \/ Attempt(r)
       \/ Close(r)
       \/ Cancel(r)
  \/ \E w \in inflight : GcsApply(w) \/ GcsLose(w)
  \/ ProcessExit

\* A goroutine that can run does, and the storage client ends every copy and
\* every Close one way or the other.  Clients owe nothing, nor does Cloud
\* Storage: a write may stay in flight for ever.
Fairness ==
  \A r \in Requests :
    /\ WF_vars(BeginAttempt(r))
    /\ WF_vars(Attempt(r))
    /\ WF_vars(Close(r))

Spec == Init /\ [][Next]_vars /\ Fairness

(***************************************************************************)
(* Properties.                                                             *)
(***************************************************************************)

\* Everything sent to the bucket, under way or stored, is the whole payload
\* of a file that passed every check, under its sanitized name and with the
\* content type of its extension: no retry sends what an earlier attempt's
\* reader had left, and no rejected file leaves a trace.
OnlyCompleteValidObjects ==
  \A w \in inflight \cup applied \cup bucket :
    /\ invalid(w.req) = "nil"
    /\ w.size = size(w.req)
    /\ w.size \in 1 .. MaxUploadSize
    /\ w.object = object(w.req)
    /\ w.type = contentType(w.req)

\* A call that returned success had its file applied with exactly the size it
\* reports, and its object exists from then on, whoever wrote it last.
SuccessMeansStored ==
  \A r \in Requests : response[r].err = "nil" =>
    /\ \E w \in applied : w.req = r /\ w.size = response[r].size
    /\ \E w \in bucket : w.object = object(r)

\* The write a call was acknowledged for is never the late one: what a call
\* made after that answer stored under the same name is not overwritten by it.
\* (Only an attempt the earlier call had given up can be applied late.)
AcknowledgedWriteIsNeverLate ==
  \A r1, r2 \in Requests :
    /\ r1 \in before[r2]
    /\ response[r1].err = "nil"
    /\ object(r1) = object(r2)
    /\ \E w \in applied : w.req = r2
    => ~ \E w \in bucket : w.req = r1 /\ w.attempt = attempt[r1]

\* A call that is under way returns, whatever Cloud Storage does and whether
\* or not its client is still there, unless the process exits first.
EveryCallReturns ==
  \A r \in Requests : pc[r] \in Active ~> pc[r] \in Returned

(***************************************************************************)
(* The inductive invariant behind the safety properties.                   *)
(***************************************************************************)
Writing == {"copying", "aborting", "closing"}

\* What each program counter says of the call's own state.
CallInv ==
  \A r \in Requests :
    /\ pc[r] \in {"new", "begin"} => attempt[r] = 0
    /\ pc[r] = "backoff" => attempt[r] \in 1 .. MaxAttempts - 1
    /\ pc[r] \in Writing => attempt[r] \in 1 .. MaxAttempts
    /\ pc[r] \in Active => invalid(r) = "nil"
    /\ pc[r] = "done" <=> response[r].err # "none"
    /\ response[r].err \in Errors => invalid(r) # "nil"
    /\ pc[r] = "copying" => remaining[r] = size(r)

\* A success is of a write that was applied.
SuccessInv ==
  \A r \in Requests : response[r].err = "nil" =>
    /\ response[r].size = size(r)
    /\ \E w \in applied : w.req = r /\ w.attempt = attempt[r]

\* An attempt sends at most one write, at its end; it is in one place, and the
\* attempt being made has sent none.
WriteInv ==
  /\ inflight \cap applied = {}
  /\ \A v, w \in inflight \cup applied :
       v.req = w.req /\ v.attempt = w.attempt => v = w
  /\ \A w \in inflight \cup applied :
       /\ w.attempt <= attempt[w.req]
       /\ pc[w.req] \in {"copying", "aborting"} => w.attempt < attempt[w.req]

\* The bucket holds one applied write of each object that has any.
BucketInv ==
  /\ bucket \subseteq applied
  /\ \A v, w \in bucket : v.object = w.object => v = w
  /\ \A w \in applied : \E v \in bucket : v.object = w.object

\* Only calls that returned precede a call, and none precedes itself.
BeforeInv ==
  \A r, q \in Requests :
    q \in before[r] => q # r /\ pc[q] = "done" /\ pc[r] # "new"

IInv ==
  /\ TypeOK
  /\ CallInv
  /\ SuccessInv
  /\ WriteInv
  /\ BucketInv
  /\ BeforeInv
  /\ OnlyCompleteValidObjects
  /\ AcknowledgedWriteIsNeverLate
===========================================================================
