# Verification of ogen-gcs-file-upload

TLA+ models of the file-upload service, what TLC checks about them on small
instances, and what TLAPS proves about them for every value of the constants.
References such as `gcs.go:87` are to the repository's source; `*_gen.go` is
`internal/fileupload/oas_*_gen.go`, code generated by ogen.

## The system

A Go HTTP server with one operation, `POST /upload`: it takes a CSV or XLSX
file in a multipart form and stores it in a Cloud Storage bucket. The
repository also holds the generated client of that operation.

| part | source | state | operations |
|---|---|---|---|
| server process | `cmd/server/server.go` | start-up progress, signal and error channels, open clients | `run`, `main` |
| router | `router_gen.go`, `cfg_gen.go` | none | `ServeHTTP`, not found, method not allowed |
| operation handler | `handlers_gen.go` | recorded status, span, counters, deferred functions | `handleUploadFileRequest` |
| security | `security_gen.go`, `handlers/security.go` | configured credentials | `securityBasicAuth`, `HandleBasicAuth` |
| form decoding | `request_decoders_gen.go` | the form's temporary files, closers | `decodeUploadFileRequest` |
| upload handler | `handlers/fileupload.go` | none | `UploadFile`, `NewError` |
| Cloud Storage upload | `gcs/gcs.go` | attempt counter, payload reader; the bucket (external) | `UploadToGcs`, `uploadWithRetry`, `readFileWithLimit`, `detectContentType`, `sanitizeFilename` |
| response encoding | `response_encoders_gen.go` | what was written | `encodeUploadFileResponse`, `encodeErrorResponse` |
| telemetry set-up | `observability/observability.go` | tracer and meter providers | `New`, `Shutdown` |
| generated client | `client_gen.go`, `security_gen.go`, `response_decoders_gen.go`, `request_encoders_gen.go` | stage, span, counters, open body | `UploadFile`, decoding by status |
| JSON codec | `json_gen.go` | required-field bits | `Encode`, `Decode` |
| the rest | logs, `auth`, schemas, labeler, `cmd/client` | none | accessors; `cmd/client` does not compile |

**Interaction.** `run` opens the storage client and telemetry, then serves in
a goroutine of its own. net/http runs one goroutine per connection, which goes
through router, security, form decoding, `UploadFile` and `UploadToGcs`, all by
plain calls; the deferred functions of the operation handler then run in
reverse order and net/http sends what was buffered. Goroutines share the
storage client, the counters and, outside the process, the bucket. A signal
makes `run` call `Shutdown`, which waits for the goroutines at most
`ShutdownTimeout`; the deferred functions of `run` then close telemetry and the
storage client, under handlers that may still be running. The client is another
process: it sees of all this an answer, part of one, or none.

**What is hard.** `Close` of a storage writer may report an error although the
object was stored; a write that was given up may be applied after the call has
returned; the retry loop ignores the request's context; different names become
one object; the answer may be lost after the upload took effect; deferred
functions read state that later code overwrites; the process may exit in the
middle of everything. `PROJECT.json` lists each hazard at its line.

**What makes it correct**

- upload: only complete, valid files reach the bucket; success is only
  answered for what was stored; every call returns; the size limit is the one
  that was set;
- request: a refusal means nothing was stored, nothing is kept before
  authentication, temporary files do not outlive the request, telemetry agrees
  with what the client got, bodies have the documented shape;
- process: a signal ends it, status 0 means nobody was cut off, what was opened
  is closed;
- client: a result is a whole answer of the documented shape, an error leaves
  nothing open, and each says no more about the file than is true.

## The modules

| module | models | checked by |
|---|---|---|
| `UploadValidation` | the pure checks of `gcs.go` | `MCAlgorithms`, `AlgorithmProofs` |
| `UploadLimit` | the size limit in 64-bit words | `MCAlgorithms`, `AlgorithmProofs` |
| `CsvSniff` | what is learnt from the first 512 bytes | `MCAlgorithms`, `AlgorithmProofs` |
| `JsonFields` | `Encode` and `Decode` of the two schemas | `MCAlgorithms`, `JsonProofs` |
| `Algorithms` | inputs of these four, and reference definitions to hold them against | `MCAlgorithms`, `AlgorithmProofs` |
| `GcsUpload` | concurrent calls of `UploadToGcs`, the retry loop, the bucket | `MCGcsUpload`, `GcsUploadProofs` |
| `UploadStore` | abstract: what an upload promises | through the refinement |
| `GcsUploadRefinement` | the mapping from `GcsUpload` to `UploadStore` | `MCGcsUpload`, `GcsUploadProofs` |
| `FormDecoding` | the parts of one form, its temporary files and closers | `MCFormDecoding`, `FormDecodingProofs` |
| `RequestPipeline` | one HTTP request from `ServeHTTP` to what is sent | `MCRequestPipeline`, `RequestPipelineProofs` |
| `ServerLifecycle` | `run` from start-up to exit | `MCServerLifecycle`, `ServerLifecycleProofs` |
| `UploadService` | the three above composed: the whole server | `MCUploadService`, `UploadServiceProofs` |
| `Client` | `sendUploadFile` against any server | `MCClient`, `ClientProofs` |
| `ClientServer` | the client against `RequestPipeline` | `MCClientServer`, `ClientProofs` |

Definitions called "Mutant" in their comment are plausible bugs. They are part
of no specification; replacing the definition they follow by one of them must
make the property named in `PROJECT.json` fail.

### UploadValidation, UploadLimit, CsvSniff

A name is a sequence of fragments: a dot, a run of characters
`sanitizeFilename` keeps, or one character it replaces. That is all the code
looks at: pairs of dots, allowed characters, and the text after the last dot.
A file is its declared size, the number of bytes its reader delivers, whether
the reader then fails, and the three questions the code asks of the first 512
bytes. `readFails` reflects that a reader's error is met only if the limit does
not cut the reading off first.

`UploadLimit` is `FILE_UPLOAD_LIMIT` times 1024 times 1024 with each product
wrapped to a word, `maxUploadSize`'s default, and the `maxSize + 1` of
`readFileWithLimit`. A word holds `-Half .. Half - 1`; the code has
`Half = 2^63` and `Kilo = 1024`.

`CsvSniff` answers those three questions from a payload: a sequence over the
characters that csv tells apart, with the four-byte magic number of a zip file
as one more. encoding/csv and `http.DetectContentType` are external; the reader
is a small automaton folded over the window. `Window` is the 512 bytes.

`Algorithms` makes their inputs variables, so that what a pure function
promises is a state predicate: `InputSpec` starts with any name, file, setting,
payload and document and changes none of them. The proofs are about it;
`MCAlgorithms` lets one input at a time grow up to a bound, through states that
all satisfy `Inputs`. The reference definitions say the same as the code in
another way: runs of dots and how long they are instead of pairs removed from
the left; the csv grammar as a set of commas between which fields stand, and a
field's quotes as a set of pairs, instead of a character at a time; a schema
about the object as a whole instead of a walk over its members.

### GcsUpload

`pc[r]` is where call `r` stands: `new`, `begin`, `copying` or `aborting`
(inside `io.Copy`), `closing`, `backoff`, `done`, `crashed`. Validation is one
step since it touches nothing shared. `BeginAttempt` takes a new reader
(`remaining` becomes the whole payload). `FinishCopy` is the end of `io.Copy`
and the call of `Close`, from which on the complete object is on its way: a
record in `inflight`. `CloseOk` needs the attempt's write applied, `CloseFails`
needs nothing, and both `CopyFails` and `CloseFails` end in `attemptFailed`,
the bottom of the retry loop. If the context is done, an attempt cannot send
anything complete (`aborting`), yet is still counted and slept through.

Cloud Storage is external: `GcsApply` makes a write the object's content,
`GcsLose` drops it, at any time, also after the call returned. `ProcessExit`
ends every call in progress. `before` is a history variable.

`UploadStore` says the same without attempts under way or writers: an upload is
accepted or rejected, takes effect at most once per attempt and possibly after
it was answered, and is answered with success only after an effect.

### FormDecoding

The state `decodeUploadFileRequest` leaves behind, part by part: `ReadPart` may
spill a part to a temporary file (`disk`), `OpenFile` opens the first part
named "file" (`handle`), `closers` is the list `close()` walks from its end, one
`Close` step per closer, each of which may fail. Of several parts of that name
the first is taken, which a comment in the source calls a bug; the property
about what is uploaded therefore holds only that it is one of them, and that the
others are dropped is a finding. mime/multipart is external:
what it does with the files of a form it could not read it does itself, and
silently.

### RequestPipeline

One step per stage of the handler: `ServeHTTP`, `Security`, `ParseForm`,
`OpenFile`, `UploadFile`, `EncodeResponse`, `Return` (all deferred functions, in
their order), `Flush` (net/http). `recorder` is `codeRecorder.status`, which
keeps the last status written; `head` is what net/http keeps, the first.
`deferred` holds the handler's deferred calls. `conn` breaks at any point, for
a client that left or a `ReadTimeout` or `WriteTimeout` that passed; only then
may reading the form or writing an answer fail. The deferred `close()` reports
what any of its closers reports: `RemoveAll` if the temporary file is left
(`removeAll`), and `f.Close` perhaps even if it was removed; `closeRequestErrors`
is how often `recordError` is called for it, so that the error counter is known
between two bounds only (`CountersAddUp`). The recorder may be given a 500 that
nobody receives, when the answer could not be written;
`TelemetryMatchesAnswer` allows another status than the one chosen in that case
only, and with the failure recorded. The upload is one step whose
outcomes are those of `GcsUpload`; an upload that failed may have been stored.
`UploadFile` of this repository never returns an error, so the branches of the
generated handler for one are not modelled.

### ServerLifecycle

`phase` is the position in `run`, one phase per thing that can fail or block;
what fails returns through the deferred functions registered so far. The
goroutine of `ListenAndServe` is `listener` and its channel `serverErrors`.
`Shutdown` closes the listener at once (`SelectSignal`), then either finds no
request in hand (`Drained`) or runs into its timeout (`DrainTimeout`), after
which `Close` takes the connections away and the handlers go on as `cut`. The
signal channel has capacity one. Without `Notify`, before start-up has got
there or after `signal.Stop`, a signal kills the process: `exit = "signal"`.

### UploadService

One state for the process, the requests and the uploads. A step of a handler
needs its goroutine (`runs`): the process alive and the request accepted.
`Upload` puts the whole of `GcsUpload` where `RequestPipeline` has its single
step `UploadFile`, and makes the answer from the error the call returned.
`Finish` is the end of a request for net/http, `Break` a client that leaves or
`Server.Close` coming to the connection, `EndContext` the context ending only
after that. When the process ends, by `Exit` or a signal, the uploads under way
crash. `RequestPipeline`'s variable for what was stored is not a variable here
but a function of `response`, so that `PartsBehave` compares its guess with what
`GcsUpload` does.

### JsonFields, Client, ClientServer

A JSON object is the sequence of its members, in which a key may be missing,
repeated or unknown. The generated methods of `Error` and `UploadResponse`
differ in tables only (`ErrorType`, `UploadResponseType`): the names and types
of the fields, the mask of required ones, and which ones `spec.yaml` requires,
which only the references look at. `Decode` walks the members,
collects the required bits, and names the missing fields from them, lowest bit
first.

`Client` has one step per `stage` of `sendUploadFile`. `return` is a return
with its deferred functions: body closed, span and counter. `Do` is external:
it fails at any time or gives one of `Answers`, whose status, media type,
members, completeness and trailing text are arbitrary. `decodeUploadFileResponse`
is the switch over status and media type.

`ClientServer` puts `RequestPipeline` behind `Do`: the client's credentials
become the request's header, the server's status and body shape the client's
answer, which may be cut or lost. The client's base URL may lead elsewhere than
to `/upload` (`Paths`).

## What is checked

| run | instance | what it shows |
|---|---|---|
| `algorithms` | names of up to 4 of 7 fragments, limit 2, lengths 0 to 4; every setting of a 12-bit word; payloads of up to 7 of 4 characters; objects of up to 6 members | `sanitizeFilename` leaves single dots and allowed characters only, one dot per odd run, and is idempotent; the extension survives unless it follows an even run of dots (`report..csv` is refused); a file is accepted exactly if it is whole, within the limit and of a matching type; the limit is positive, its successor does not wrap, and it is never laxer than asked for; looksLikeCSV decides by the grammar of csv, and where it does not, the window is why; Decode takes exactly the objects of the schema; Encode loses only fractions of a second |
| `gcs` | 2 calls, 2 attempts, 3 names for 2 objects, 3 files | types; only complete valid objects are sent; success means stored; an acknowledged write is never late; one content per object; implements `UploadStore`; every call returns unless the process exits |
| `form` | forms of up to 3 files | what is uploaded is a part named "file", open and in its place; whatever fails, every closer runs and no file is left open, or left behind unreported |
| `pipeline` | 2 requests, each of 17 kinds | the five properties of a request, in every interleaving |
| `lifecycle` | 3 requests, 3 signals | status 0 means drained, no use after close without an error, nothing leaks, a signal kills no request unless `run` was failing anyway; a received signal ends the process |
| `service` | 1 request of 3 kinds, 2 files, 2 attempts, 2 signals | the answer agrees with the bucket for ever; exit status 0 means that nothing was interrupted; each part behaves as it does alone; a request that is served ends |
| `client` | 2 calls, 5 sources of credentials, answers of 5 statuses | types and credentials; bodies closed, errors recorded and counted; a result is a whole, complete answer of its status |
| `client_server` | 1 call | what each result says of the bucket; which answers cannot be read; the call returns |
| `bad_request_body` | 1 request | **violated**, see below |
| `csv_window` | payloads of up to 7 characters | **violated**, see below |
| `json_as_csv` | payloads of up to 7 characters | **violated**, see below |
| `form_files` | forms of up to 2 files | **violated**, see below |

**Bounds.** `gcs`: two calls are enough for every property of the upload: each
relates one call, or one call and a later one, to the bucket. The constant of
the code is three attempts; two have a first, a retried and a last one, a third
would add a retry that is neither, and the theorems below are for any number.
Sizes around the limit are all there, and one byte past `maxSize + 1`. Four
fragments hold every order of two runs of dots or of a run and an extension.
`limit`: with `Half = 2048` and `Kilo = 4` the products wrap at 128 many times
over, to positive, zero and negative values; the theorems are for any width.
`csv`: the window has 4 characters and payloads up to 3 more, room for a
quoted field with a doubled quote inside the window and for one that crosses its
end. `json`: six members are all five fields of an upload response and a
repeated one, in any order. `form`: three files are two of the right name with
another before, between or after. `service`: one request, since the composition
multiplies everything; several uploads at a time are the matter of `gcs`,
several requests of `pipeline` and `lifecycle`; and the theorems of
`UploadServiceProofs` are for any number.
`client_server`: calls share counters only, and those are checked by `client`.
Three signals: one received, one left in the channel, one dropped or after
`Stop`. `MaxSignals` is the only bound in a guard. Symmetry over requests or
calls is used in `pipeline` and `client` only, which check invariants.
`CHECK_DEADLOCK FALSE` everywhere: each model is of finitely many calls or
inputs and ends when all have been dealt with or the process has exited.

**Fairness.** `GcsUpload`: a goroutine that can run does, and the storage client
ends each copy and each `Close` in one way or the other. The latter is an
assumption: the code sets no deadline of its own on a write, and relies on the
client library and on the request's context. Cloud Storage owes nothing.
`ServerLifecycle`: only `run` is fair (its timers fire, and closing the two
clients returns); handlers and clients are not, so that `SignalLeadsToExit`
holds because of the timeout. `UploadService`: the steps of a handler, with the
same assumption about storage calls, and `Server.Close` comes to every
connection it takes; neither clients nor signals owe anything. `FormDecoding`:
the goroutine runs on. `ClientServer`: goroutines run on both sides, and `Do`
has to end only when the server is done with the request, because
`NewTracingClient` sets no timeout. `RequestPipeline` and `Client` alone state
no liveness.

### Findings

- `bad_request_body`: `spec.yaml:61-70` describes 400, for a missing file too,
  with an `Error` body. A form that cannot be decoded goes to
  `DefaultErrorHandler` (`handlers_gen.go:164`), whose body is
  `{"error_message": ...}`; `NewError`'s branch for it is never reached.
- `csv_window`: `spec.yaml:64` gives "Invalid file format (not CSV/XLSX)" as the
  reason to refuse a file. A csv file whose first record has a quoted field
  across the 512-byte mark (`gcs.go:135`) is refused for that reason.
- `form_files`: of several parts named "file" the first is uploaded
  (`request_decoders_gen.go:65`) and the others are removed with the form,
  without an error that says so. The comment at `handlers/fileupload.go:39` says "TODO: bug when
  multiple files are uploaded".
- `json_as_csv`: the test for `application/json` (`gcs.go:157`) is never true,
  since `http.DetectContentType` has no such answer, and `[1]` is taken for csv.
  `gcs_test.go:24`, `TestDetectContentTypeRejectsJSONRenamedToCSV`, and the
  repository's `README.md:11` say that JSON is refused; the JSON of the test is,
  for the bare quotes in it.

Two divergences were met that have no run. The comment in
`handlers_gen.go:88-91` demands that the span status of a 2xx be left unset, and
be Error if something else failed; `response_encoders_gen.go:42` sets it to Ok,
which the SDK never takes back (`setStatus` models it). `client_test.go:38-43`
answers without `gcspath` and `client_test.go:99` asserts that there is no error;
`gcspath` is required (`spec.yaml:134`), so the client returns a decoding error.

The models show other behaviour that no document rules out, and that a reader
should know:

- a 500 may be answered for a file that was, or will be, stored;
- an attempt that was given up may overwrite a later, acknowledged upload of the
  same name (`AcknowledgedWriteIsNeverLate` is the strongest statement that
  holds);
- a second signal during the last steps of `run` kills the process before the
  storage client is closed;
- a size setting that overflows becomes the default of 10MB, or any smaller
  limit;
- only the first record, and only what of it is in the window, decides that a
  file is csv: text after it may be anything, and a JSON object whose first line
  is a brace alone passes;
- the client takes a 401 for a result with a nil error, so a caller that looks
  at the error alone (as `client_test.go:129` does, of a server that is not
  there) takes a refused upload for a stored one.

## What is proved

`GcsUploadProofs`, for any set of calls, names and files, and any number of
attempts and size limit at least 1 (`MaxAttemptsAssumption`,
`MaxUploadSizeAssumption`, `FilesAssumption`): `TypeCorrect`, `CompleteObjects`, `SuccessStored`,
`AcknowledgedNotLate`, `OneVersion`, and `Refinement`.

The invariant `IInv` adds to the properties what makes them inductive.
`CallInv`: what each `pc` says of the attempt counter, the payload and the
answer. `SuccessInv`: a success names an applied write of its own attempt.
`WriteInv`: an attempt has at most one write, in one place, and the attempt
being copied has none. Without it a write of the acknowledged attempt could
still be in flight and be applied over a later upload. `BucketInv`: one applied
write per object. `BeforeInv`: only calls that returned come before a call.
There is one lemma per action, with a step per conjunct. The lemmas
`ValidationSound` and `ValidationResult` say what passing `validationError`
gives. For the refinement, each action is shown to be the abstract action of
its name or a stutter: `GcsApply` is `Effect`, `CloseOk` is `ReplyOk`, a last
failure is `ReplyFailed`, `ProcessExit` is `Die`.

`RequestPipelineProofs`, for any finite set of requests (`RequestsAssumption`;
finite, for the counters) of any kinds: `TypeCorrect`, `TruthfulAnswer`,
`AuthenticatedFirst`, `FormFilesSeenTo`, `TelemetryAgrees`, `CountersExact`. The
invariant has a part per concern, each a statement about one request and its
stage: `RouteInv` (which stages a routing decision leads to, and from which on
there is a span and a deferred function), `AnswerInv` (how the status to be
written, the one recorded and the one kept by net/http relate, and what each
says about the upload), `FormInv` (when temporary files exist), `TelemetryInv`
(the span, and when the recorder may differ from what net/http keeps), and
`CountInv`, the only one about all requests together: the request counter is the
size of the set of requests that were routed, the error counter at least that of
the sets that failed and that left a file, and at most that with the files
removed as well.
Every action changes one request, which `OthersKeep` uses once for all; the
`...Keeps` lemmas are then about that request alone, and `CountReturn` about the
sets, with the cardinality theorems of the library.

`ServerLifecycleProofs`, for any requests and number of signals: `TypeCorrect`,
`ExitZeroDrained`, `NoLeak`, `NoUseAfterClosing`, `SignalSparesRequests`.
`ResourceInv` gives what is open in each phase; `DrainInv` says that nothing is
accepted once `run` is past its select without an error, nothing is cut off
before Shutdown gives up, and `Notify` is in force as long as requests may be
served by a `run` that has not failed.

`AlgorithmProofs` is about every input: `name` any sequence of fragments,
`file` of any size, `payload` and `Window` of any length, any document, and words
of any width that hold the default limit and have a multiple of `Kilo * Kilo`
values (`WordAssumption`, true of 2^63 and 1024).

- `UsableLimit`, `HonouredLimit`: a wrapped word is congruent to the product, so
  a multiple of `Kilo`, so never the last word before the wrap.
- `SafeNames`, `KeptExtension`, under `AllowedAssumption` (`_` and the letters
  of the extensions are allowed, a dot is not a fragment): `ScanKeeps` shows
  from the end of the name backwards that removing pairs of dots keeps the
  positions `Kept` in their order, all that are no dot and the last of each odd
  run. Sanitizing twice, no two dots and the number of fragments follow from what
  two neighbours of that order are (`NoTwoDots`, `CleanNameStays`,
  `EnumeratesCount`).
- `OnlyWholeFiles`: acceptance without the order of the checks.
- `GrammarFollowed`, `WindowMisjudges`: the states the reader goes through
  (`ReaderStates`) are related to the grammar both ways. `RecordIsRead`: a record
  of the grammar leaves the reader where a record may end, by induction along its
  cuts, each field in turn (`FieldIsRead`). `ReadIsRecord`: the commas after which
  the reader was at the start of a field are such cuts, and the quotes after which
  it waited for a second one are the first of the pairs. For the window,
  `QuotesAreCounted`: inside quotes it has seen an odd number of them.
- `ContentDecides` puts the last two together: what is accepted, in terms of
  the file's name, size and content alone.
- `SchemaMet`, `FaithfulEncoding`: from `JsonProofs`, which shows for any table of
  fields what `Decode` knows after each member (`Knows`: the bits and the values
  are those of the members so far) and that `Encode` writes each field once.

Induction is over numbers: `Induction` is proved from the well-foundedness of
strict inclusion, `InductionFrom` and `Greatest` from it. The folds and the
recursive functions of the models are `CHOOSE`s of a solution of their equation,
so that one exists has to be shown first (`RecursionHasSolution`,
`ScanHasSolution`); the states a fold goes through are then numbered, and the
induction is on the number.

`UploadServiceProofs`, under the assumptions of the parts (`ServiceAssumption`):
`PartsImplemented`, `AnswersMatch`, `ExitIsClean`. The first is the refinement
that a composition owes: each step of the server is a step of the process, of
one request and of one upload, or leaves them alone (`ProcStep`, `HttpStep`,
`GcsStep`). Only `Upload` takes work: `UploadIsUploadFile` shows that the return
of `UploadToGcs` is the step `UploadFile` of `RequestPipeline`, with the outcome
its error calls for, and every other step of an upload is invisible to the
request. The invariants of the three parts then hold in the server
(`GcsInvariance`, `ProcInvariance`, `HttpInvariance`; the last two instantiate
the proofs of the parts, and show that their definitions are the same as those of
`Proc` and `Http`). Two invariants join the parts. `LinkInv`: before the upload
stage the call is not made, and the status chosen after it is that of its error;
so a 200 is a success of `GcsUpload`, and a refusal a call that never made an
attempt. `LifeInv`: a request that `net/http` has done with is over, an upload
is under way only in its stage, and what is over was answered or had lost its
connection; so a process that exits with 0, which by `ServerLifecycle` has
nothing in hand, has interrupted nothing.

`FormDecodingProofs`, for forms of any length (`BodiesAssumption`):
`FileOfTheForm`, and `AllGivenBack`, the safety half of `FilesGivenBack`. `StageInv` enumerates
what can be registered and run of the closers at each stage; `DiskInv` says that
the files on disk are those of the parts read so far, all of them from `Parse`
to `RemoveAll`, and that what is left after that has an error. That the first
part of the name exists and is the least needs a minimum of a finite set,
`LeastElement`, from the well-foundedness of strict inclusion.

`ClientProofs`, for any finite set of calls (`CallsAssumption`; finite, for the
counters), any credentials (`SourcesAssumption`) and any answers: `TypeCorrect`,
`CleanedUp` and `WholeResult`. `CallInv` says what a call has in each stage,
`CountInv` that the counters are the sizes of the sets of calls that began and
that failed; `OthersStay` shows once that a step of one call keeps what is known
of the others. `WholeResult` adds that a result is that of an answer which was
read without an error, and what such an answer has is `DecodedAnswer`, from
`JsonProofs`.

The same module has the client and the server together, for any calls and both
paths (`PathsAssumption`): `TruthfulResult` and `UnderstoodAnswers`. Client and
server keep their own invariants in the system (`PartsInvariance`, which
instantiates the proofs of `RequestPipeline`). `LinkInv` joins them: an answer
the client holds is the one its request ended with, and a result is the one that
status stands for; what was not sent was not stored. So a result says what the
server's status says, and that is true. `AnswersInv` says more of the answer: it
is `answer(c, whole)` of a request that is over, read once, and the error of a
call that returned is that of decoding it. With the lemma `NextBodies`, by which
`RequestPipelineProofs` knows which bodies the server writes with each status,
documented or not, and with what `Decode` makes of these shapes (`DocumentsDecode`), an
error for a whole answer can only be that of a body the operation does not have.

Only model-checked: everything about liveness (`EveryCallReturns`,
`SignalLeadsToExit`, `EveryRequestEnds`, `EveryUploadFileReturns`, that the
request of `FilesGivenBack` ends), which is beyond the prover: it has no rule for
fairness, which speaks of when a step is enabled. Every invariant and every
property of steps that a run checks is also proved.

## What is not modelled

- Logging; the labeler and the unimplemented handler, which nothing uses;
  accessors, options and the validation of the generated schemas and
  configuration beyond the answers for unknown paths and methods.
- `FindPath` and the routes of the router: only middleware would use them, and
  there is none.
- `cmd/client`: it does not compile (it imports `internal/tracing`, which does
  not exist).
- Telemetry's choice of a tracer and its sample rate, the trace headers the
  client sends, durations: none decides about a request.
- The header Access-Control-Allow-Origin, passed through as text.
- Panics, which net/http recovers. The contents of files beyond the answers the
  code asks for.
- That a closed storage client makes a handler's upload fail: `NoUseAfterClose`
  says when that can be at all, and a failed upload is an outcome anyway.

## Plan

1. Telemetry: the choice of tracer and exporter and the rate that is clamped,
   with `Shutdown` of what was started.
2. `FindPath` against `ServeHTTP`: that the router and its lookup agree.
3. Proofs: the steps of `ClientServer` mapped to steps of a call against an
   abstract store, from `LinkInv` and `AnswersInv`, which are both proved.
