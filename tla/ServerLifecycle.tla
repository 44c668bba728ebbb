-------------------------- MODULE ServerLifecycle --------------------------
(***************************************************************************)
(* The server process (run in cmd/server/server.go): start-up, the         *)
(* goroutine that serves, signals, Shutdown with its timeout, the deferred *)
(* functions and the exit, with the requests net/http has in hand.         *)
(*                                                                         *)
(* net/http, os/signal and the clients of Cloud Storage and telemetry are  *)
(* external.  Of a request only this much matters: whether its connection  *)
(* was accepted, whether its handler runs, and whether the answer can      *)
(* still reach the client ("cut": Close took the connection away while the *)
(* handler runs on).                                                       *)
(***************************************************************************)
EXTENDS Naturals

CONSTANTS
  Requests,    \* the requests of clients, one connection each
  MaxSignals   \* bound: how many signals the process is sent

ASSUME MaxSignalsAssumption == MaxSignals \in Nat

VARIABLES
  phase,         \* where run() is
  listener,      \* the goroutine that calls ListenAndServe
  serverErrors,  \* its channel: "empty", or the error in it
  shutdown,      \* the signal channel: how many signals it holds
  notified,      \* whether signal.Notify is in effect
  sent,          \* how many signals were sent
  request,       \* the state of each request
  gcsClient,     \* "none", "open", "closed"
  telemetry,     \* "none", "open", "closed"
  err,           \* the error run() is about to return
  exit           \* "no", or how the process ended: "0", "1", "signal"

vars == <<phase, listener, serverErrors, shutdown, notified, sent, request, gcsClient,
          telemetry, err, exit>>

Phases == {"newClient", "newTelemetry", "newServer", "listen", "select", "draining",
           "stopSignals", "closeTelemetry", "closeGcs", "exiting", "exited"}
RequestStates == {"none", "connected", "running", "answered", "cut", "unanswered", "killed"}
InHand == {"connected", "running"}

TypeOK ==
  /\ phase \in Phases
  /\ listener \in {"none", "starting", "open", "closed", "returned"}
  /\ serverErrors \in {"empty", "ErrServerClosed", "other"}
  /\ shutdown \in 0 .. 1
  /\ notified \in BOOLEAN
  /\ sent \in 0 .. MaxSignals
  /\ request \in [Requests -> RequestStates]
  /\ gcsClient \in {"none", "open", "closed"}
  /\ telemetry \in {"none", "open", "closed"}
  /\ err \in {"nil", "error"}
  /\ exit \in {"no", "0", "1", "signal"}

Init ==
  /\ phase = "newClient"
  /\ listener = "none"
  /\ serverErrors = "empty"
  /\ shutdown = 0
  /\ notified = FALSE
  /\ sent = 0
  /\ request = [r \in Requests |-> "none"]
  /\ gcsClient = "none"
  /\ telemetry = "none"
  /\ err = "nil"
  /\ exit = "no"

(***************************************************************************)
(* Start-up.  What fails returns through the deferred functions registered *)
(* so far.                                                                 *)
(***************************************************************************)
NewClient ==
  /\ phase = "newClient"
  /\ \/ gcsClient' = "open" /\ phase' = "newTelemetry" /\ UNCHANGED err
     \/ err' = "error" /\ phase' = "exiting" /\ UNCHANGED gcsClient
  /\ UNCHANGED <<listener, serverErrors, shutdown, notified, sent, request, telemetry, exit>>

NewTelemetry ==
  /\ phase = "newTelemetry"
  /\ \/ telemetry' = "open" /\ phase' = "newServer" /\ UNCHANGED err
     \/ err' = "error" /\ phase' = "closeGcs" /\ UNCHANGED telemetry
  /\ UNCHANGED <<listener, serverErrors, shutdown, notified, sent, request, gcsClient, exit>>

\* Mutant: a failure ends the process on the spot.
NewServerOrExit ==
  /\ phase = "newServer"
  /\ \/ phase' = "listen" /\ UNCHANGED <<err, exit>>
     \/ err' = "error" /\ phase' = "exited" /\ exit' = "1"
  /\ UNCHANGED <<listener, serverErrors, shutdown, notified, sent, request, gcsClient,
                 telemetry>>

NewServer ==
  /\ phase = "newServer"
  /\ \/ phase' = "listen" /\ UNCHANGED err
     \/ err' = "error" /\ phase' = "closeTelemetry"
  /\ UNCHANGED <<listener, serverErrors, shutdown, notified, sent, request, gcsClient,
                 telemetry, exit>>

\* signal.Notify, then the goroutine.
Listen ==
  /\ phase = "listen"
  /\ notified' = TRUE
  /\ listener' = "starting"
  /\ phase' = "select"
  /\ UNCHANGED <<serverErrors, shutdown, sent, request, gcsClient, telemetry, err, exit>>

(***************************************************************************)
(* The goroutine: ListenAndServe returns ErrServerClosed once Shutdown was *)
(* called, even if it was called first; another error ends it at any time. *)
(***************************************************************************)
Bind ==
  /\ exit = "no" /\ listener = "starting" /\ phase = "select"
  /\ listener' = "open"
  /\ UNCHANGED <<phase, serverErrors, shutdown, notified, sent, request, gcsClient,
                 telemetry, err, exit>>

ServeReturns(e) ==
  /\ exit = "no"
  /\ listener' = "returned"
  /\ serverErrors' = e
  /\ UNCHANGED <<phase, shutdown, notified, sent, request, gcsClient, telemetry, err, exit>>

ServeClosed == listener = "closed" /\ ServeReturns("ErrServerClosed")
ServeFails == listener \in {"starting", "open"} /\ ServeReturns("other")

(***************************************************************************)
(* Requests.                                                               *)
(***************************************************************************)
become(r, from, to) ==
  /\ exit = "no"
  /\ request[r] = from
  /\ request' = [request EXCEPT ![r] = to]
  /\ UNCHANGED <<phase, listener, serverErrors, shutdown, notified, sent, gcsClient,
                 telemetry, err, exit>>

Accept(r) == listener = "open" /\ become(r, "none", "connected")
Leave(r) == become(r, "connected", "none")
Serve(r) == become(r, "connected", "running")
Answer(r) == become(r, "running", "answered")
FinishCut(r) == become(r, "cut", "unanswered")

(***************************************************************************)
(* The select and the shutdown.                                            *)
(***************************************************************************)
SelectServerError ==
  /\ phase = "select" /\ serverErrors # "empty"
  /\ serverErrors' = "empty"
  /\ err' = IF serverErrors = "ErrServerClosed" THEN "nil" ELSE "error"
  /\ phase' = "stopSignals"
  /\ UNCHANGED <<listener, shutdown, notified, sent, request, gcsClient, telemetry, exit>>

\* Mutant: signal.Stop before Shutdown, so that a second Ctrl-C ends it.
SelectSignalOnce ==
  /\ phase = "select" /\ shutdown > 0
  /\ shutdown' = shutdown - 1
  /\ listener' = IF listener = "returned" THEN listener ELSE "closed"
  /\ phase' = "draining"
  /\ notified' = FALSE
  /\ UNCHANGED <<serverErrors, sent, request, gcsClient, telemetry, err, exit>>

\* server.Shutdown closes the listener before it waits.
SelectSignal ==
  /\ phase = "select" /\ shutdown > 0
  /\ shutdown' = shutdown - 1
  /\ listener' = IF listener = "returned" THEN listener ELSE "closed"
  /\ phase' = "draining"
  /\ UNCHANGED <<serverErrors, notified, sent, request, gcsClient, telemetry, err, exit>>

\* Mutant: Shutdown is not waited for.
DrainNotAwaited ==
  /\ phase = "draining"
  /\ phase' = "stopSignals"
  /\ UNCHANGED <<listener, serverErrors, shutdown, notified, sent, request, gcsClient,
                 telemetry, err, exit>>

\* Shutdown returns nil when no connection is left but idle ones.
Drained ==
  /\ phase = "draining"
  /\ \A r \in Requests : request[r] \notin InHand
  /\ phase' = "stopSignals"
  /\ UNCHANGED <<listener, serverErrors, shutdown, notified, sent, request, gcsClient,
                 telemetry, err, exit>>

\* server.Close drops every connection; the handlers run on.
close(state) ==
  CASE state = "connected" -> "none"
    [] state = "running" -> "cut"
    [] OTHER -> state

\* Mutant: the error of Shutdown is logged only.
DrainTimeoutIgnored ==
  /\ phase = "draining"
  /\ request' = [r \in Requests |-> close(request[r])]
  /\ phase' = "stopSignals"
  /\ UNCHANGED <<listener, serverErrors, shutdown, notified, sent, gcsClient, telemetry,
                 err, exit>>

\* Mutant: the context of Shutdown has no timeout.
DrainWithoutTimeout ==
  /\ phase = "draining"
  /\ \A r \in Requests : request[r] \notin InHand
  /\ err' = "error"
  /\ phase' = "stopSignals"
  /\ UNCHANGED <<listener, serverErrors, shutdown, notified, sent, request, gcsClient,
                 telemetry, exit>>

\* ShutdownTimeout passes first: Close, and an error.
DrainTimeout ==
  /\ phase = "draining"
  /\ request' = [r \in Requests |-> close(request[r])]
  /\ err' = "error"
  /\ phase' = "stopSignals"
  /\ UNCHANGED <<listener, serverErrors, shutdown, notified, sent, gcsClient, telemetry, exit>>

(***************************************************************************)
(* The deferred functions, last one first, and main.                       *)
(***************************************************************************)
StopSignals ==
  /\ phase = "stopSignals"
  /\ notified' = FALSE
  /\ phase' = "closeTelemetry"
  /\ UNCHANGED <<listener, serverErrors, shutdown, sent, request, gcsClient, telemetry, err,
                 exit>>

\* telemetry.Shutdown, within ShutdownTimeout; its error joins err.
CloseTelemetry ==
  /\ phase = "closeTelemetry"
  /\ telemetry' = "closed"
  /\ err' \in {err, "error"}
  /\ phase' = "closeGcs"
  /\ UNCHANGED <<listener, serverErrors, shutdown, notified, sent, request, gcsClient, exit>>

CloseGcs ==
  /\ phase = "closeGcs"
  /\ gcsClient' = "closed"
  /\ phase' = "exiting"
  /\ UNCHANGED <<listener, serverErrors, shutdown, notified, sent, request, telemetry, err,
                 exit>>

die(code) ==
  /\ exit' = code
  /\ phase' = "exited"
  /\ request' = [r \in Requests |-> IF request[r] \in InHand \cup {"cut"} THEN "killed"
                                     ELSE request[r]]

Exit ==
  /\ phase = "exiting"
  /\ die(IF err = "nil" THEN "0" ELSE "1")
  /\ UNCHANGED <<listener, serverErrors, shutdown, notified, sent, gcsClient, telemetry, err>>

(***************************************************************************)
(* SIGINT or SIGTERM.  The channel holds one; what does not fit is         *)
(* dropped.  Without Notify the process dies.                              *)
(***************************************************************************)
\* Mutant: a channel for two signals.
SignalBothKept ==
  /\ exit = "no" /\ sent < MaxSignals
  /\ sent' = sent + 1
  /\ IF notified
     THEN shutdown' = shutdown + 1 /\ UNCHANGED <<phase, request, exit>>
     ELSE die("signal") /\ UNCHANGED shutdown
  /\ UNCHANGED <<listener, serverErrors, notified, gcsClient, telemetry, err>>

Signal ==
  /\ exit = "no" /\ sent < MaxSignals
  /\ sent' = sent + 1
  /\ IF notified
     THEN shutdown' = 1 /\ UNCHANGED <<phase, request, exit>>
     ELSE die("signal") /\ UNCHANGED shutdown
  /\ UNCHANGED <<listener, serverErrors, notified, gcsClient, telemetry, err>>

Main ==
  \/ NewClient \/ NewTelemetry \/ NewServer \/ Listen
  \/ SelectServerError \/ SelectSignal \/ Drained \/ DrainTimeout
  \/ StopSignals \/ CloseTelemetry \/ CloseGcs \/ Exit

Next ==
  \/ Main
  \/ Bind \/ ServeClosed \/ ServeFails
  \/ \E r \in Requests : Accept(r) \/ Leave(r) \/ Serve(r) \/ Answer(r) \/ FinishCut(r)
  \/ Signal

\* run() goes on when it can and its timers fire; neither clients nor handlers
\* owe anything.
Spec == Init /\ [][Next]_vars /\ WF_vars(Main)

(***************************************************************************)
(* Properties.                                                             *)
(***************************************************************************)

\* If the process exits with 0, every request whose connection was accepted
\* was answered: none was cut off, none died with the process.
ExitZeroMeansDrained ==
  exit = "0" => \A r \in Requests : request[r] \in {"none", "answered"}

\* A handler outlives the telemetry or the storage client it uses only when
\* run() is going to report an error.
NoUseAfterClose ==
  (\E r \in Requests : request[r] \in InHand \cup {"cut"})
    /\ "closed" \in {telemetry, gcsClient} => err = "error"

\* "Handle shutdown properly so nothing leaks" (server.go:124): whichever way
\* run() returns, at start-up, by an error or by a signal, the storage client
\* and the telemetry it opened are closed.
NothingLeaks == exit \in {"0", "1"} => gcsClient # "open" /\ telemetry # "open"

\* A signal that kills the process (one that comes before Notify or, since
\* signal.Stop is the first deferred function, while telemetry is flushed)
\* takes no request with it unless run() had already failed.
SignalKillsNoRequest ==
  exit = "signal" /\ err = "nil" =>
    \A r \in Requests : request[r] \in {"none", "answered"}

\* "Prevent infinite waiting" (server.go:176): a signal that was received ends
\* the process, however long handlers take.
SignalLeadsToExit == shutdown > 0 ~> exit # "no"

(***************************************************************************)
(* The inductive invariant behind the safety properties.                   *)
(***************************************************************************)
Early == {"newClient", "newTelemetry", "newServer", "listen"}
Unwinding == {"stopSignals", "closeTelemetry", "closeGcs", "exiting"}

\* What is open in each phase.
ResourceInv ==
  /\ phase = "newClient" => gcsClient = "none"
  /\ phase \in {"newClient", "newTelemetry"} => telemetry = "none"
  /\ phase \in Early \cup {"select", "draining", "stopSignals", "closeTelemetry"} =>
       gcsClient # "closed" /\ telemetry # "closed"
  /\ phase = "closeGcs" => telemetry # "open"
  /\ phase = "exiting" => gcsClient # "open" /\ telemetry # "open"
  /\ phase = "exited" <=> exit # "no"

\* Until Shutdown gives up, no connection is taken away; when run() returns
\* nil, nothing is accepted any more and nothing is in hand.
DrainInv ==
  /\ phase \in Early => listener = "none" /\ \A r \in Requests : request[r] = "none"
  /\ phase \in {"select", "draining"} => notified
  /\ phase \in Early \cup {"select"} =>
       listener # "closed" /\ serverErrors # "ErrServerClosed"
  /\ phase \in Early \cup {"select", "draining"} =>
       err = "nil" /\ \A r \in Requests : request[r] \in InHand \cup {"none", "answered"}
  /\ phase = "draining" => listener \in {"closed", "returned"}
  /\ phase \in Unwinding /\ err = "nil" =>
       /\ listener \in {"closed", "returned"}
       /\ \A r \in Requests : request[r] \in {"none", "answered"}
  /\ phase = "exited" => \A r \in Requests : request[r] \notin InHand \cup {"cut"}

IInv ==
  /\ TypeOK
  /\ ResourceInv
  /\ DrainInv
  /\ ExitZeroMeansDrained
  /\ NothingLeaks
  /\ SignalKillsNoRequest
=============================================================================
