----------------------- MODULE ConnectorRuntime_proofs -----------------------
(***************************************************************************)
(* Proofs about ConnectorRuntime, for any number of concurrent invocations,*)
(* cold starts and calls of close(), and about LocalDevServer, which       *)
(* serves and closes such a runtime.                                       *)
(***************************************************************************)
EXTENDS ConnectorRuntime, LocalDevServer, TLAPS

(* An invocation is only ever handed an application that no close() has begun  *)
(* to shut down; close() acts on an application that is no longer cached.      *)
AwaitedNotClosing ==
    \A i \in Invocations : invocation[i].pc = "awaitingApp" =>
        appState[invocation[i].app] \in {"initializing", "ready", "failed"}

(* Every application a close() has taken was created and left the cache.       *)
ReleasedNotCached ==
    \A c \in Closers : closing[c].app # NoApp =>
        /\ closing[c].app # applicationPromise
        /\ appState[closing[c].app] # "none"

(* application.close() runs on an application that is being shut down.         *)
ClosingApplicationDown ==
    \A c \in Closers : closing[c].pc = "closingApp" =>
        appState[closing[c].app] \in {"closing", "closed"}

(* The inductive invariant: CachedApplicationUsable alone does not survive     *)
(* CloseApplication, which changes the state of an application, unless that    *)
(* application is known to have left the cache.                                *)
IInv ==
    /\ TypeOK
    /\ CachedApplicationUsable
    /\ ReleasedNotCached
    /\ ClosingApplicationDown
    /\ AwaitedNotClosing

USE NoAppAssumption

LEMMA InitIInv == Init => IInv
  BY DEF Init, IInv, TypeOK, InvocationRecords, CloserRecords, AppStates,
         CachedApplicationUsable, ReleasedNotCached, AwaitedNotClosing,
      ClosingApplicationDown

LEMMA CallIInv ==
  ASSUME IInv, NEW i \in Invocations, InvocationCall(i)
  PROVE  IInv'
<1>1. CASE RejectUnclaimed(i)
  BY <1>1 DEF RejectUnclaimed, Free, IInv, TypeOK, InvocationRecords, CloserRecords,
      AppStates, CachedApplicationUsable, ReleasedNotCached, AwaitedNotClosing,
      ClosingApplicationDown
<1>2. CASE JoinApplication(i)
  BY <1>2 DEF JoinApplication, Free, IInv, TypeOK, InvocationRecords, CloserRecords,
      AppStates, CachedApplicationUsable, ReleasedNotCached, AwaitedNotClosing,
      ClosingApplicationDown
<1>3. CASE ColdStart(i)
  <2>1. PICK a \in Apps :
          /\ appState[a] = "none"
          /\ applicationPromise' = a
          /\ appState' = [appState EXCEPT ![a] = "initializing"]
          /\ invocation' = [invocation EXCEPT ![i] = [pc |-> "awaitingApp", app |-> a]]
    BY <1>3 DEF ColdStart
  <2>2. UNCHANGED closing
    BY <1>3 DEF ColdStart
  <2>3. TypeOK'
    BY <2>1, <2>2 DEF IInv, TypeOK, InvocationRecords, CloserRecords, AppStates
  <2>4. CachedApplicationUsable'
    BY <2>1 DEF IInv, TypeOK, CachedApplicationUsable
  <2>5. ReleasedNotCached'
    BY <2>1, <2>2 DEF IInv, TypeOK, CloserRecords, ReleasedNotCached
  <2>6. AwaitedNotClosing'
    BY <2>1 DEF IInv, TypeOK, InvocationRecords, AwaitedNotClosing
  <2>7. ClosingApplicationDown'
    BY <2>1, <2>2 DEF IInv, TypeOK, CloserRecords, ClosingApplicationDown
  <2> QED BY <2>3, <2>4, <2>5, <2>6, <2>7 DEF IInv
<1> QED BY <1>1, <1>2, <1>3 DEF InvocationCall

LEMMA InvocationStepIInv ==
  ASSUME IInv, NEW i \in Invocations, InvocationStep(i)
  PROVE  IInv'
<1> USE DEF IInv, TypeOK, InvocationRecords, CachedApplicationUsable,
        ReleasedNotCached, AwaitedNotClosing,
      ClosingApplicationDown
<1>1. CASE StartTransport(i)
  BY <1>1 DEF StartTransport
<1>2. CASE RejectContext(i)
  BY <1>2 DEF RejectContext
<1>3. CASE FailColdStart(i)
  BY <1>3 DEF FailColdStart
<1>4. CASE FinishTransport(i)
  BY <1>4 DEF FinishTransport
<1> QED BY <1>1, <1>2, <1>3, <1>4 DEF InvocationStep

LEMMA InitStepIInv ==
  ASSUME IInv, NEW a \in Apps, InitStep(a)
  PROVE  IInv'
<1> USE DEF IInv, TypeOK, InvocationRecords, CloserRecords, AppStates,
        CachedApplicationUsable, ReleasedNotCached, AwaitedNotClosing,
      ClosingApplicationDown
<1>1. CASE InitResolves(a)
  BY <1>1 DEF InitResolves
<1>2. CASE InitRejects(a)
  BY <1>2 DEF InitRejects
<1> QED BY <1>1, <1>2 DEF InitStep

LEMMA CloserIInv ==
  ASSUME IInv, NEW c \in Closers, Close(c) \/ CloserStep(c)
  PROVE  IInv'
<1> USE DEF IInv, TypeOK, InvocationRecords, CloserRecords, AppStates,
        CachedApplicationUsable, ReleasedNotCached, AwaitedNotClosing,
      ClosingApplicationDown
<1>1. CASE Close(c)
  BY <1>1 DEF Close
<1>2. CASE CloseApplication(c)
  BY <1>2 DEF CloseApplication, EarlierAwaitsResumed
<1>3. CASE CloseRejects(c)
  BY <1>3 DEF CloseRejects
<1>4. CASE CloseResolves(c)
  BY <1>4 DEF CloseResolves
<1> QED BY <1>1, <1>2, <1>3, <1>4 DEF CloserStep

LEMMA StepIInv == IInv /\ [Next]_vars => IInv'
<1> SUFFICES ASSUME IInv, [Next]_vars PROVE IInv'
  OBVIOUS
<1>1. CASE \E i \in Invocations : InvocationCall(i) \/ InvocationStep(i)
  BY <1>1, CallIInv, InvocationStepIInv
<1>2. CASE \E a \in Apps : InitStep(a)
  BY <1>2, InitStepIInv
<1>3. CASE \E c \in Closers : Close(c) \/ CloserStep(c)
  BY <1>3, CloserIInv
<1>4. CASE UNCHANGED vars
  BY <1>4 DEF vars, IInv, TypeOK, CachedApplicationUsable, ReleasedNotCached,
      AwaitedNotClosing, ClosingApplicationDown
<1> QED BY <1>1, <1>2, <1>3, <1>4 DEF Next

THEOREM Invariance == Spec => []IInv
  BY InitIInv, StepIInv, PTL DEF Spec

(* Every reachable state is well typed: in particular, nobody waits for null.  *)
THEOREM TypeCorrect == Spec => []TypeOK
<1>1. IInv => TypeOK
  BY DEF IInv
<1> QED BY <1>1, Invariance, PTL

(* The cache never holds a failed, closing or closed application, in whatever  *)
(* order initialisations, invocations and calls of close() interleave.         *)
THEOREM CacheUsable == Spec => []CachedApplicationUsable
<1>1. IInv => CachedApplicationUsable
  BY DEF IInv
<1> QED BY <1>1, Invariance, PTL

(* No invocation is started on an application that is being shut down.         *)
THEOREM StartsReady == Spec => StartsOnReadyApplication
<1> DEFINE Ready == \A i \in Invocations :
          (invocation[i].pc = "awaitingApp" /\ invocation'[i].pc = "running")
             => appState[invocation[i].app] = "ready"
<1>1. IInv /\ [Next]_vars => [Ready]_vars
  <2> SUFFICES ASSUME IInv, Next, NEW i \in Invocations,
                      invocation[i].pc = "awaitingApp", invocation'[i].pc = "running"
               PROVE  appState[invocation[i].app] = "ready"
    OBVIOUS
  <2>1. CASE \E j \in Invocations : InvocationCall(j)
    BY <2>1 DEF InvocationCall, RejectUnclaimed, JoinApplication, ColdStart, Free,
        IInv, TypeOK, InvocationRecords
  <2>2. CASE \E j \in Invocations : InvocationStep(j)
    <3>1. appState[invocation[i].app] \in {"initializing", "ready", "failed"}
      BY DEF IInv, AwaitedNotClosing
    <3>2. appState[invocation[i].app] \notin {"initializing", "failed"}
      BY <2>2 DEF InvocationStep, StartTransport, RejectContext, FailColdStart,
          FinishTransport, IInv, TypeOK, InvocationRecords
    <3> QED BY <3>1, <3>2
  <2>3. CASE \E a \in Apps : InitStep(a)
    BY <2>3 DEF InitStep, InitResolves, InitRejects
  <2>4. CASE \E c \in Closers : Close(c) \/ CloserStep(c)
    BY <2>4 DEF Close, CloserStep, CloseApplication, CloseRejects, CloseResolves
  <2> QED BY <2>1, <2>2, <2>3, <2>4 DEF Next
<1> QED BY <1>1, Invariance, PTL DEF Spec, StartsOnReadyApplication

(* An invocation that arrives after close() gets an application of its own.    *)
THEOREM FreshApplication == Spec => FreshAfterClose
<1> DEFINE Fresh == \A i \in Invocations :
          (Free(i) /\ invocation'[i].pc = "awaitingApp")
             => invocation'[i].app \notin Released
<1>1. IInv /\ [Next]_vars => [Fresh]_vars
  <2> SUFFICES ASSUME IInv, Next, NEW i \in Invocations,
                      Free(i), invocation'[i].pc = "awaitingApp"
               PROVE  invocation'[i].app \notin Released
    OBVIOUS
  <2>1. PICK j \in Invocations : InvocationCall(j) \/ InvocationStep(j)
    BY DEF Next, Free, InitStep, InitResolves, InitRejects, CloserStep, Close,
        CloseApplication, CloseRejects, CloseResolves
  <2>2. CASE JoinApplication(j)
    <3>1. j = i /\ invocation'[i].app = applicationPromise
      BY <2>2 DEF JoinApplication, Free, IInv, TypeOK
    <3>2. applicationPromise # NoApp
      BY <2>2 DEF JoinApplication
    <3> QED BY <3>1, <3>2 DEF IInv, ReleasedNotCached, Released
  <2>3. CASE ColdStart(j)
    <3>1. PICK a \in Apps :
            /\ appState[a] = "none"
            /\ invocation' = [invocation EXCEPT ![j] = [pc |-> "awaitingApp", app |-> a]]
      BY <2>3 DEF ColdStart
    <3>2. invocation'[i].app = a
      BY <3>1 DEF Free, IInv, TypeOK
    <3> QED BY <3>1, <3>2 DEF IInv, ReleasedNotCached, Released
  <2>4. CASE RejectUnclaimed(j)
    BY <2>4 DEF RejectUnclaimed, Free, IInv, TypeOK
  <2>5. CASE InvocationStep(j)
    BY <2>5 DEF InvocationStep, StartTransport, RejectContext, FailColdStart,
        FinishTransport, Free, IInv, TypeOK, InvocationRecords
  <2> QED BY <2>1, <2>2, <2>3, <2>4, <2>5 DEF InvocationCall
<1> QED BY <1>1, Invariance, PTL DEF Spec, FreshAfterClose

-----------------------------------------------------------------------------
(* No close() has taken an application that failed to come up. *)
ReleasedCameUp == \A a \in Apps \cap Released : appState[a] # "failed"

(* Until one has, the one live application is the cached one. *)
LiveIsCached == ReleasedCameUp => \A a \in Unreleased : applicationPromise = a

(* Concurrent cold starts share one application: the duplicates of             *)
(* connector_close_race need a close() during an initialisation that fails.    *)
THEOREM ColdStartShared == Spec => []SharedColdStart
<1>1. Init => LiveIsCached
  BY DEF Init, LiveIsCached, Unreleased
<1>2. IInv /\ LiveIsCached /\ [Next]_vars => LiveIsCached'
  <2> SUFFICES ASSUME IInv, LiveIsCached, [Next]_vars, ReleasedCameUp',
                      NEW a \in Apps, a \in Unreleased'
               PROVE  applicationPromise' = a
    BY DEF LiveIsCached, Unreleased
  <2> USE DEF LiveIsCached, Unreleased, Released, ReleasedCameUp
  <2>1. CASE \E i \in Invocations : RejectUnclaimed(i) \/ JoinApplication(i)
    BY <2>1 DEF RejectUnclaimed, JoinApplication
  <2>2. CASE \E i \in Invocations : ColdStart(i)
    BY <2>2 DEF ColdStart, IInv, TypeOK, NoAppAssumption
  <2>3. CASE \E i \in Invocations : InvocationStep(i)
    BY <2>3 DEF InvocationStep, StartTransport, RejectContext, FailColdStart, FinishTransport
  <2>4. CASE \E b \in Apps : InitResolves(b)
    BY <2>4 DEF InitResolves, IInv, TypeOK
  <2>5. CASE \E b \in Apps : InitRejects(b)
    BY <2>5 DEF InitRejects, IInv, TypeOK
  <2>6. CASE \E c \in Closers : Close(c)
    BY <2>6, NoAppAssumption DEF Close, IInv, TypeOK, CloserRecords, CachedApplicationUsable
  <2>7. CASE \E c \in Closers : CloserStep(c)
    <3>1. PICK c \in Closers : CloserStep(c)
      BY <2>7
    <3>2. Released' = Released /\ applicationPromise' = applicationPromise
      BY <3>1 DEF CloserStep, CloseApplication, CloseRejects, CloseResolves, IInv, TypeOK,
          CloserRecords
    <3>3. \A b \in Apps : appState'[b] = appState[b] \/
             (appState[b] \in {"ready", "closing", "closed"} /\ appState'[b] \in {"closing", "closed"})
      BY <3>1 DEF CloserStep, CloseApplication, CloseRejects, CloseResolves, IInv, TypeOK,
          CloserRecords, ClosingApplicationDown
    <3> QED BY <3>2, <3>3
  <2>8. CASE UNCHANGED vars
    BY <2>8 DEF vars
  <2> QED BY <2>1, <2>2, <2>3, <2>4, <2>5, <2>6, <2>7, <2>8
          DEF Next, InvocationCall, InitStep
<1>3. LiveIsCached => SharedColdStart
  BY DEF LiveIsCached, ReleasedCameUp, SharedColdStart, OneApplication
<1> QED BY <1>1, <1>2, <1>3, Invariance, PTL DEF Spec

-----------------------------------------------------------------------------
(***************************************************************************)
(* The development server, which has such a runtime of its own, for any    *)
(* number of connections, requests and callers of stop().                  *)
(***************************************************************************)

(* The listener belongs to a server that is up, and the flag of stop() is set  *)
(* only then; from that moment nobody can connect any more.                    *)
ListensUntilStopped ==
  /\ port = "server" => phase = "listening"
  /\ closed => phase = "listening" /\ port = "nobody"

(* A caller that waits in stop() has set the flag; one that has got past the   *)
(* draining has begun to close the connector.                                  *)
StoppersClose ==
  \A s \in Stoppers :
    /\ stopper[s] \in {"draining", "closing"} => closed
    /\ stopper[s] = "closing" => runtime \in {"closing", "closed"}

(* A request that runs came on a connection that was made.                     *)
RequestsOnConnections ==
  \A r \in Requests : Running(r) => /\ req[r].on \in Connections
                                    /\ conn[req[r].on] # "none"

(* While the connector is being closed nobody is connected.                    *)
NobodyConnected ==
  runtime \in {"closing", "closed"} => closed /\ \A c \in Connections : conn[c] # "open"

(* The inductive invariant.  DrainsBeforeClose alone is not inductive: that no *)
(* connection is open when server.close calls back says nothing of later ones  *)
(* unless the listener is known to be gone.                                    *)
ServerInv ==
  /\ ServerTypeOK
  /\ ListensUntilStopped
  /\ StoppersClose
  /\ RequestsOnConnections
  /\ NobodyConnected

LEMMA InitServerInv == ServerInit => ServerInv
<1> SUFFICES ASSUME ServerInit PROVE ServerInv
  OBVIOUS
<1>1. req \in [Requests -> [pc: {"new", "reading", "handling", "answered"},
                           on: Connections \cup {NoConn}, status: {0, 200, 500}]]
  BY DEF ServerInit, NoRequest
<1>2. ServerTypeOK
  BY <1>1 DEF ServerInit, ServerTypeOK, Phases, Codes, IamReasons
<1>3. ListensUntilStopped /\ StoppersClose /\ RequestsOnConnections /\ NobodyConnected
  BY DEF ServerInit, NoRequest, ListensUntilStopped, StoppersClose, RequestsOnConnections, Running,
         NobodyConnected
<1> QED BY <1>2, <1>3 DEF ServerInv

-----------------------------------------------------------------------------
(* Start: only phase, code, iam, port and the handler change. *)

LEMMA ValidateKept ==
  ASSUME ServerInv, Validate \/ LoadEntry \/ ProbePort
  PROVE  ServerInv'
<1>1. /\ UNCHANGED <<iam, port, runtime, conn, req, closed, stopper>>
      /\ phase \in {"validating", "loading", "probing"}
      /\ phase' \in Phases /\ code' \in Codes
  <2>1. CASE Validate
    BY <2>1 DEF Validate, Advance, Reject, ValidationCode, ServerInv, ServerTypeOK, Codes, Phases
  <2>2. CASE LoadEntry
    <3>1. \A named, default \in {"absent", "classA", "classB"} : ModuleCode(named, default) \in Codes
      BY DEF ModuleCode, Codes
    <3> QED BY <2>2, <3>1 DEF LoadEntry, Advance, Reject, ServerInv, ServerTypeOK, Codes, Phases
  <2>3. CASE ProbePort
    BY <2>3 DEF ProbePort, Advance, Reject, ServerInv, ServerTypeOK, Codes, Phases
  <2> QED BY <2>1, <2>2, <2>3
<1>2. ServerTypeOK'
  BY <1>1 DEF ServerInv, ServerTypeOK
<1>3. (ListensUntilStopped /\ StoppersClose /\ RequestsOnConnections /\ NobodyConnected)'
  BY <1>1 DEF ServerInv, ListensUntilStopped, StoppersClose, RequestsOnConnections, Running,
              NobodyConnected
<1> QED BY <1>2, <1>3 DEF ServerInv

LEMMA ResolveIamKept ==
  ASSUME ServerInv, ResolveIam
  PROVE  ServerInv'
<1>1. iam' \in TokenSources \cup IamReasons
  BY DEF ResolveIam, IamAnswers, Exchanged, TokenSources, IamReasons
<1>2. /\ phase = "iam" /\ phase' = "binding" /\ UNCHANGED code
      /\ UNCHANGED <<port, runtime, conn, req, closed, stopper>>
  BY DEF ResolveIam, Advance
<1>3. ServerTypeOK'
  BY <1>1, <1>2 DEF ServerInv, ServerTypeOK, Phases
<1>4. (ListensUntilStopped /\ StoppersClose /\ RequestsOnConnections /\ NobodyConnected)'
  BY <1>2 DEF ServerInv, ListensUntilStopped, StoppersClose, RequestsOnConnections, Running,
              NobodyConnected
<1> QED BY <1>3, <1>4 DEF ServerInv

LEMMA BindKept ==
  ASSUME ServerInv, Bind
  PROVE  ServerInv'
<1>1. /\ phase = "binding" /\ runtime' = "open"
      /\ UNCHANGED <<iam, conn, req, closed, stopper>>
      /\ \/ phase' = "rejected" /\ code' = "JDT_PORT_IN_USE" /\ UNCHANGED port
         \/ phase' = "listening" /\ UNCHANGED code /\ port' = "server"
  BY DEF Bind, Advance, Reject
<1>2. ~closed
  BY <1>1 DEF ServerInv, ListensUntilStopped
<1>3. ServerTypeOK'
  BY <1>1 DEF ServerInv, ServerTypeOK, Phases, Codes
<1>4. (ListensUntilStopped /\ StoppersClose)'
  BY <1>1, <1>2 DEF ServerInv, ServerTypeOK, ListensUntilStopped, StoppersClose
<1>5. (RequestsOnConnections /\ NobodyConnected)'
  BY <1>1 DEF ServerInv, RequestsOnConnections, Running, NobodyConnected
<1> QED BY <1>3, <1>4, <1>5 DEF ServerInv

LEMMA OtherProgramKept ==
  ASSUME ServerInv, OtherProgram
  PROVE  ServerInv'
  BY DEF OtherProgram, startVars, ServerInv, ServerTypeOK, ListensUntilStopped, StoppersClose,
         RequestsOnConnections, Running, NobodyConnected

-----------------------------------------------------------------------------
(* Connections and requests. *)

LEMMA ConnectionKept ==
  ASSUME ServerInv, NEW c \in Connections, Connect(c) \/ Disconnect(c)
  PROVE  ServerInv'
<1>1. CASE Connect(c)
  <2>1. ~closed
    BY <1>1 DEF Connect, ServerInv, ListensUntilStopped
  <2> QED
    BY <1>1, <2>1 DEF Connect, startVars, ServerInv, ServerTypeOK, ListensUntilStopped, StoppersClose,
                      RequestsOnConnections, Running, NobodyConnected
<1>2. CASE Disconnect(c)
  BY <1>2 DEF Disconnect, startVars, ServerInv, ServerTypeOK, ListensUntilStopped, StoppersClose,
              RequestsOnConnections, Running, NobodyConnected
<1> QED BY <1>1, <1>2

LEMMA RequestKept ==
  ASSUME ServerInv, NEW r \in Requests,
         \/ \E c \in Connections : Receive(r, c)
         \/ CallHandler(r) \/ BodyFails(r) \/ HandlerReturns(r) \/ HandlerFails(r)
  PROVE  ServerInv'
<1> USE DEF startVars, ServerInv, ServerTypeOK, ListensUntilStopped, StoppersClose,
            RequestsOnConnections, Running, NobodyConnected
<1>1. ASSUME NEW c \in Connections, Receive(r, c) PROVE ServerInv'
  BY <1>1 DEF Receive
<1>2. CASE CallHandler(r)
  BY <1>2 DEF CallHandler
<1>3. ASSUME NEW status \in {200, 500}, Answer(r, status) PROVE ServerInv'
  BY <1>3 DEF Answer
<1>4. CASE BodyFails(r) \/ HandlerReturns(r) \/ HandlerFails(r)
  BY <1>3, <1>4 DEF BodyFails, HandlerReturns, HandlerFails
<1> QED BY <1>1, <1>2, <1>3, <1>4

-----------------------------------------------------------------------------
(* stop() *)

LEMMA StopKept ==
  ASSUME ServerInv, NEW s \in Stoppers, Stop(s)
  PROVE  ServerInv'
<1>1. CASE closed
  BY <1>1 DEF Stop, startVars, ServerInv, ServerTypeOK, ListensUntilStopped, StoppersClose,
              RequestsOnConnections, Running, NobodyConnected
<1>2. CASE ~closed
  <2>1. runtime \notin {"closing", "closed"}
    BY <1>2 DEF ServerInv, NobodyConnected
  <2> QED
    BY <1>2, <2>1 DEF Stop, startVars, ServerInv, ServerTypeOK, ListensUntilStopped, StoppersClose,
                      RequestsOnConnections, Running, NobodyConnected
<1> QED BY <1>1, <1>2

LEMMA StopperKept ==
  ASSUME ServerInv, NEW s \in Stoppers, Drained(s) \/ RuntimeClosed(s)
  PROVE  ServerInv'
<1> USE DEF startVars, ServerInv, ServerTypeOK, ListensUntilStopped, StoppersClose,
            RequestsOnConnections, Running, NobodyConnected
<1>1. CASE Drained(s)
  BY <1>1 DEF Drained
<1>2. CASE RuntimeClosed(s)
  BY <1>2 DEF RuntimeClosed
<1> QED BY <1>1, <1>2

LEMMA StepServerInv == ServerInv /\ [ServerNext]_serverVars => ServerInv'
<1> SUFFICES ASSUME ServerInv, [ServerNext]_serverVars PROVE ServerInv'
  OBVIOUS
<1>1. CASE Validate \/ LoadEntry \/ ProbePort
  BY <1>1, ValidateKept
<1>2. CASE ResolveIam
  BY <1>2, ResolveIamKept
<1>3. CASE Bind
  BY <1>3, BindKept
<1>4. CASE OtherProgram
  BY <1>4, OtherProgramKept
<1>5. ASSUME NEW c \in Connections, Connect(c) \/ Disconnect(c) PROVE ServerInv'
  BY <1>5, ConnectionKept
<1>6. ASSUME NEW r \in Requests,
             \/ \E c \in Connections : Receive(r, c)
             \/ CallHandler(r) \/ BodyFails(r) \/ HandlerReturns(r) \/ HandlerFails(r)
      PROVE  ServerInv'
  BY <1>6, RequestKept
<1>7. ASSUME NEW s \in Stoppers, Stop(s) \/ Drained(s) \/ RuntimeClosed(s) PROVE ServerInv'
  BY <1>7, StopKept, StopperKept
<1>8. CASE UNCHANGED serverVars
  BY <1>8 DEF serverVars, ServerInv, ServerTypeOK, ListensUntilStopped, StoppersClose, RequestsOnConnections,
              Running, NobodyConnected
<1> QED BY <1>1, <1>2, <1>3, <1>4, <1>5, <1>6, <1>7, <1>8 DEF ServerNext

(* What the server, its connections and its requests are, in every state.      *)
THEOREM ServerInvariance == ServerSpec => []ServerInv
  BY InitServerInv, StepServerInv, PTL DEF ServerSpec

(* Type correctness of the development server.                                 *)
THEOREM ServerTypeCorrect == ServerSpec => []ServerTypeOK
<1>1. ServerInv => ServerTypeOK
  BY DEF ServerInv
<1> QED BY <1>1, ServerInvariance, PTL

(* Whoever still waits for an answer when stop() closes the connector has left *)
(* (create.ts, stop).                                                          *)
THEOREM Drains == ServerSpec => []DrainsBeforeClose
<1>1. ServerInv => DrainsBeforeClose
  BY DEF ServerInv, ServerTypeOK, RequestsOnConnections, Running, NobodyConnected, DrainsBeforeClose
<1> QED BY <1>1, ServerInvariance, PTL

(* The handler is never called once the connector is being closed: a body that *)
(* is read to its end then came on a connection that is still open, and there  *)
(* is none (create.ts, onRequest).                                             *)
THEOREM NoLateCall == ServerSpec => NoCallAfterClose
<1>1. ASSUME ServerInv, [ServerNext]_serverVars, NEW r \in Requests,
             req[r].pc = "reading", req'[r].pc = "handling"
      PROVE  runtime \notin {"closing", "closed"}
  <2>1. CASE \E q \in Requests : CallHandler(q)
    <3>1. PICK q \in Requests : CallHandler(q)
      BY <2>1
    <3>2. q = r
      BY <1>1, <3>1 DEF CallHandler, ServerInv, ServerTypeOK
    <3>3. conn[req[r].on] = "open" /\ req[r].on \in Connections
      BY <1>1, <3>1, <3>2 DEF CallHandler, ServerInv, RequestsOnConnections, Running
    <3> QED BY <1>1, <3>3 DEF ServerInv, NobodyConnected
  <2>2. CASE \E q \in Requests, c \in Connections : Receive(q, c)
    BY <1>1, <2>2 DEF Receive, ServerInv, ServerTypeOK
  <2>3. CASE \E q \in Requests : BodyFails(q) \/ HandlerReturns(q) \/ HandlerFails(q)
    BY <1>1, <2>3 DEF BodyFails, HandlerReturns, HandlerFails, Answer, ServerInv, ServerTypeOK
  <2>4. CASE UNCHANGED req
    BY <1>1, <2>4
  <2> QED
    BY <1>1, <2>1, <2>2, <2>3, <2>4 DEF ServerNext, serverVars, Validate, LoadEntry, ProbePort, ResolveIam,
       Bind, OtherProgram, Connect, Disconnect, Stop, Drained, RuntimeClosed
<1>2. ServerInv /\ [ServerNext]_serverVars =>
        [\A r \in Requests : req[r].pc = "reading" /\ req'[r].pc = "handling" =>
           runtime \notin {"closing", "closed"}]_serverVars
  BY <1>1
<1> QED BY <1>2, ServerInvariance, PTL DEF ServerSpec, NoCallAfterClose
=============================================================================
