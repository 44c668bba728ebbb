----------------------- MODULE ServerLifecycleProofs -----------------------
(***************************************************************************)
(* The safety properties of ServerLifecycle, for any number of requests    *)
(* and signals.                                                            *)
(***************************************************************************)
EXTENDS ServerLifecycle, TLAPS

\* The inductive invariant holds at the start.
LEMMA InitIInv == Init => IInv
<1> SUFFICES ASSUME Init PROVE IInv
  OBVIOUS
<1>1. TypeOK
  <2>1. request \in [Requests -> RequestStates]
    BY DEF Init, RequestStates
  <2>2. sent \in 0 .. MaxSignals /\ shutdown \in 0 .. 1
    BY MaxSignalsAssumption DEF Init
  <2> QED
    BY <2>1, <2>2 DEF Init, TypeOK, Phases
<1>2. ResourceInv /\ DrainInv
  BY DEF Init, ResourceInv, DrainInv, InHand, Early, Unwinding
<1>3. ExitZeroMeansDrained /\ NothingLeaks /\ SignalKillsNoRequest
  BY DEF Init, ExitZeroMeansDrained, NothingLeaks, SignalKillsNoRequest
<1> QED
  BY <1>1, <1>2, <1>3 DEF IInv

\* Start-up registers each closing before it can be needed.
LEMMA StartStep ==
  ASSUME IInv, NewClient \/ NewTelemetry \/ NewServer \/ Listen
  PROVE  IInv'
<1> USE DEF IInv, Early, Unwinding
<1>1. TypeOK'
  BY DEF TypeOK, NewClient, NewTelemetry, NewServer, Listen, Phases
<1>2. ResourceInv'
  BY DEF ResourceInv, NewClient, NewTelemetry, NewServer, Listen
<1>3. DrainInv'
  BY DEF DrainInv, NewClient, NewTelemetry, NewServer, Listen
<1>4. ExitZeroMeansDrained' /\ NothingLeaks' /\ SignalKillsNoRequest'
  BY DEF ExitZeroMeansDrained, NothingLeaks, SignalKillsNoRequest, ResourceInv, NewClient, NewTelemetry, NewServer,
         Listen
<1> QED
  BY <1>1, <1>2, <1>3, <1>4

\* The steps of the goroutine that listens keep it.
LEMMA ListenerStep ==
  ASSUME IInv, Bind \/ ServeClosed \/ ServeFails
  PROVE  IInv'
<1> USE DEF IInv, Early, Unwinding, Bind, ServeClosed, ServeFails, ServeReturns
<1>1. TypeOK'
  BY DEF TypeOK
<1>2. ResourceInv'
  BY DEF ResourceInv
<1>3. DrainInv'
  BY DEF DrainInv
<1>4. ExitZeroMeansDrained' /\ NothingLeaks' /\ SignalKillsNoRequest'
  BY DEF ExitZeroMeansDrained, NothingLeaks, SignalKillsNoRequest
<1> QED
  BY <1>1, <1>2, <1>3, <1>4

\* A request is only accepted while run() is in its select, and only becomes
\* unanswered after Close.
LEMMA RequestStep ==
  ASSUME IInv, NEW r \in Requests,
         Accept(r) \/ Leave(r) \/ Serve(r) \/ Answer(r) \/ FinishCut(r)
  PROVE  IInv'
<1> USE DEF IInv
<1>1. /\ exit = "no"
      /\ UNCHANGED <<phase, listener, serverErrors, shutdown, notified, sent, gcsClient,
                     telemetry, err, exit>>
      /\ \A q \in Requests \ {r} : request'[q] = request[q]
      /\ \/ listener = "open" /\ request'[r] = "connected"
         \/ request[r] \in InHand /\ request'[r] \in {"none", "running", "answered"}
         \/ request[r] = "cut" /\ request'[r] = "unanswered"
  BY DEF Accept, Leave, Serve, Answer, FinishCut, become, TypeOK, InHand
<1>2. TypeOK'
  BY DEF Accept, Leave, Serve, Answer, FinishCut, become, TypeOK, RequestStates
<1>3. ResourceInv'
  BY <1>1 DEF ResourceInv
<1>4. DrainInv'
  BY <1>1 DEF DrainInv, ResourceInv, InHand, Early, Unwinding
<1>5. ExitZeroMeansDrained' /\ NothingLeaks' /\ SignalKillsNoRequest'
  BY <1>1 DEF ExitZeroMeansDrained, NothingLeaks, SignalKillsNoRequest
<1> QED
  BY <1>2, <1>3, <1>4, <1>5

\* The select, and Shutdown in its two outcomes.
LEMMA ShutdownStep ==
  ASSUME IInv, SelectServerError \/ SelectSignal \/ Drained \/ DrainTimeout
  PROVE  IInv'
<1> USE DEF IInv, Early, Unwinding
<1>1. TypeOK'
  <2>1. CASE SelectServerError
    BY <2>1 DEF SelectServerError, TypeOK, Phases
  <2>2. CASE SelectSignal
    BY <2>2 DEF SelectSignal, TypeOK, Phases
  <2>3. CASE Drained
    BY <2>3 DEF Drained, TypeOK, Phases
  <2>4. CASE DrainTimeout
    <3>1. \A r \in Requests : close(request[r]) \in RequestStates
      BY DEF close, TypeOK, RequestStates
    <3> QED
      BY <2>4, <3>1 DEF DrainTimeout, TypeOK, Phases
  <2> QED
    BY <2>1, <2>2, <2>3, <2>4
<1>2. ResourceInv'
  BY DEF ResourceInv, SelectServerError, SelectSignal, Drained, DrainTimeout
<1>3. DrainInv'
  BY DEF DrainInv, TypeOK, SelectServerError, SelectSignal, Drained, DrainTimeout, InHand
<1>4. ExitZeroMeansDrained' /\ NothingLeaks' /\ SignalKillsNoRequest'
  BY DEF ExitZeroMeansDrained, NothingLeaks, SignalKillsNoRequest, ResourceInv, SelectServerError, SelectSignal,
         Drained, DrainTimeout
<1> QED
  BY <1>1, <1>2, <1>3, <1>4

\* So do the deferred calls of main.
LEMMA UnwindStep ==
  ASSUME IInv, StopSignals \/ CloseTelemetry \/ CloseGcs
  PROVE  IInv'
<1> USE DEF IInv, Early, Unwinding
<1>1. TypeOK'
  BY DEF TypeOK, StopSignals, CloseTelemetry, CloseGcs, Phases
<1>2. ResourceInv'
  BY DEF ResourceInv, StopSignals, CloseTelemetry, CloseGcs
<1>3. DrainInv'
  BY DEF DrainInv, StopSignals, CloseTelemetry, CloseGcs
<1>4. ExitZeroMeansDrained' /\ NothingLeaks' /\ SignalKillsNoRequest'
  BY DEF ExitZeroMeansDrained, NothingLeaks, SignalKillsNoRequest, ResourceInv, StopSignals, CloseTelemetry, CloseGcs
<1> QED
  BY <1>1, <1>2, <1>3, <1>4

\* However the process dies, nothing is in hand any more.
LEMMA DieEffect ==
  ASSUME IInv, NEW code, die(code)
  PROVE  /\ request' \in [Requests -> RequestStates]
         /\ \A r \in Requests : /\ request'[r] \notin InHand \cup {"cut"}
                                /\ request[r] \in {"none", "answered"} => request'[r] = request[r]
BY DEF die, IInv, TypeOK, RequestStates, InHand

\* So does the end of the process.
LEMMA ExitStep ==
  ASSUME IInv, Exit
  PROVE  IInv'
<1> USE DEF IInv, Early, Unwinding
<1>1. /\ phase = "exiting" /\ phase' = "exited"
      /\ exit' = IF err = "nil" THEN "0" ELSE "1"
      /\ UNCHANGED <<listener, serverErrors, shutdown, notified, sent, gcsClient, telemetry, err>>
      /\ die(exit')
  BY DEF Exit, die
<1>2. /\ request' \in [Requests -> RequestStates]
      /\ \A r \in Requests : /\ request'[r] \notin InHand \cup {"cut"}
                             /\ request[r] \in {"none", "answered"} => request'[r] = request[r]
  BY <1>1, DieEffect
<1>3. TypeOK'
  BY <1>1, <1>2 DEF TypeOK, Phases
<1>4. ResourceInv'
  BY <1>1 DEF ResourceInv
<1>5. DrainInv'
  BY <1>1, <1>2 DEF DrainInv
<1>6. ExitZeroMeansDrained' /\ NothingLeaks' /\ SignalKillsNoRequest'
  BY <1>1, <1>2 DEF ExitZeroMeansDrained, NothingLeaks, SignalKillsNoRequest, ResourceInv, DrainInv
<1> QED
  BY <1>3, <1>4, <1>5, <1>6

\* So does a signal.
LEMMA SignalStep ==
  ASSUME IInv, Signal
  PROVE  IInv'
<1> USE DEF IInv, Early, Unwinding
<1>1. exit = "no" /\ sent' \in 0 .. MaxSignals
  BY MaxSignalsAssumption DEF Signal, TypeOK
<1>2. CASE notified
  <2>1. /\ shutdown' = 1
        /\ UNCHANGED <<phase, request, exit, listener, serverErrors, notified, gcsClient,
                       telemetry, err>>
    BY <1>2 DEF Signal
  <2>2. TypeOK' /\ ResourceInv'
    BY <1>1, <2>1 DEF TypeOK, ResourceInv
  <2>3. DrainInv' /\ ExitZeroMeansDrained' /\ NothingLeaks' /\ SignalKillsNoRequest'
    BY <2>1 DEF DrainInv, ExitZeroMeansDrained, NothingLeaks, SignalKillsNoRequest
  <2> QED
    BY <2>2, <2>3
<1>3. CASE ~ notified
  <2>1. /\ die("signal")
        /\ UNCHANGED <<shutdown, listener, serverErrors, notified, gcsClient, telemetry, err>>
    BY <1>3 DEF Signal
  <2>2. /\ request' \in [Requests -> RequestStates]
        /\ \A r \in Requests : /\ request'[r] \notin InHand \cup {"cut"}
                               /\ request[r] \in {"none", "answered"} => request'[r] = request[r]
    BY <2>1, DieEffect
  <2>3. phase' = "exited" /\ exit' = "signal"
    BY <2>1 DEF die
  <2>4. TypeOK' /\ ResourceInv'
    BY <1>1, <2>1, <2>2, <2>3 DEF TypeOK, ResourceInv, Phases
  <2>5. DrainInv' /\ ExitZeroMeansDrained' /\ NothingLeaks'
    BY <2>1, <2>2, <2>3 DEF DrainInv, ExitZeroMeansDrained, NothingLeaks
  <2>6. SignalKillsNoRequest'
    <3>1. phase \in Early \cup Unwinding
      BY <1>1, <1>3 DEF TypeOK, ResourceInv, DrainInv, Phases
    <3>2. err = "nil" => \A r \in Requests : request[r] \in {"none", "answered"}
      BY <3>1 DEF DrainInv
    <3> QED
      BY <2>1, <2>2, <3>2 DEF SignalKillsNoRequest
  <2> QED
    BY <2>4, <2>5, <2>6
<1> QED
  BY <1>2, <1>3

\* Every step keeps the invariant.
LEMMA NextIInv == IInv /\ [Next]_vars => IInv'
<1> SUFFICES ASSUME IInv, [Next]_vars PROVE IInv'
  OBVIOUS
<1>1. CASE UNCHANGED vars
  BY <1>1 DEF vars, IInv, TypeOK, ResourceInv, DrainInv, ExitZeroMeansDrained, NothingLeaks, SignalKillsNoRequest
<1>2. CASE Main
  BY <1>2, StartStep, ShutdownStep, UnwindStep, ExitStep DEF Main
<1>3. CASE Next
  BY <1>2, <1>3, ListenerStep, RequestStep, SignalStep DEF Next
<1> QED
  BY <1>1, <1>3

\* The invariant always holds.
THEOREM Invariance == Spec => []IInv
<1> QED
  BY InitIInv, NextIInv, PTL DEF Spec

\* Every variable keeps its type.
THEOREM TypeCorrect == Spec => []TypeOK
<1>1. IInv => TypeOK
  BY DEF IInv
<1> QED
  BY <1>1, Invariance, PTL

\* Exit status 0 is only reported when every accepted request was answered.
THEOREM ExitZeroDrained == Spec => []ExitZeroMeansDrained
<1>1. IInv => ExitZeroMeansDrained
  BY DEF IInv
<1> QED
  BY <1>1, Invariance, PTL

\* However run() returns, it has closed what it opened.
THEOREM NoLeak == Spec => []NothingLeaks
<1>1. IInv => NothingLeaks
  BY DEF IInv
<1> QED
  BY <1>1, Invariance, PTL

\* A signal only kills a request when an error was on its way already.
THEOREM SignalSparesRequests == Spec => []SignalKillsNoRequest
<1>1. IInv => SignalKillsNoRequest
  BY DEF IInv
<1> QED
  BY <1>1, Invariance, PTL

\* No handler outlives what it uses unless an error is on its way.
THEOREM NoUseAfterClosing == Spec => []NoUseAfterClose
<1>1. IInv => NoUseAfterClose
  BY DEF IInv, TypeOK, ResourceInv, DrainInv, NoUseAfterClose, Phases, Early, Unwinding, InHand
<1> QED
  BY <1>1, Invariance, PTL
=============================================================================
