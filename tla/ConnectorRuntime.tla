-------------------------- MODULE ConnectorRuntime --------------------------
(***************************************************************************)
(* The invocation runtime of the NestJS connector                          *)
(* (packages/nest-bridge/src/core/create-yandex-handler.ts): one closure   *)
(* per created handler that holds `applicationPromise`, the shared         *)
(* initialisation of the NestJS application, the handler the cloud runtime *)
(* calls for every invocation, and close().                                *)
(*                                                                         *)
(* An application is named by the cold start that creates it, so           *)
(* `applicationPromise' holds the name of the application whose            *)
(* initialisation it is the promise of.  The steps are the stretches of    *)
(* code between two awaits.                                                *)
(***************************************************************************)
CONSTANTS
    Invocations,    \* the invocations in flight at the same time (slots, reused)
    Apps,           \* one name per cold start; a finite set bounds their number
    Closers,        \* the calls of close()
    NoApp           \* JavaScript's null

ASSUME NoAppAssumption == NoApp \notin Apps

VARIABLES
    applicationPromise,  \* NoApp, or the application being or having been initialised
    appState,            \* what has become of each application
    invocation,          \* pc and awaited application of each invocation
    closing              \* pc and released application of each call of close()

vars == <<applicationPromise, appState, invocation, closing>>

AppStates == {"none", "initializing", "ready", "failed", "closing", "closed"}

(* Whoever waits for an application or uses it has one. *)
InvocationRecords ==
    [pc: {"awaitingApp", "running"}, app: Apps]
      \cup [pc: {"idle", "succeeded", "failed"}, app: Apps \cup {NoApp}]
CloserRecords ==
    [pc: {"awaitingApp", "closingApp", "failed"}, app: Apps]
      \cup [pc: {"done"}, app: Apps \cup {NoApp}] \cup [pc: {"idle"}, app: {NoApp}]

TypeOK ==
    /\ applicationPromise \in Apps \cup {NoApp}
    /\ appState \in [Apps -> AppStates]
    /\ invocation \in [Invocations -> InvocationRecords]
    /\ closing \in [Closers -> CloserRecords]

Init ==
    /\ applicationPromise = NoApp
    /\ appState = [a \in Apps |-> "none"]
    /\ invocation = [i \in Invocations |-> [pc |-> "idle", app |-> NoApp]]
    /\ closing = [c \in Closers |-> [pc |-> "idle", app |-> NoApp]]

-----------------------------------------------------------------------------
(* A slot that serves no invocation: its last one, if any, has settled. *)
Free(i) == invocation[i].pc \in {"idle", "succeeded", "failed"}

(* detectTransport throws before anything else: no transport claims the event. *)
RejectUnclaimed(i) ==
    /\ Free(i)
    /\ invocation' = [invocation EXCEPT ![i] = [pc |-> "failed", app |-> NoApp]]
    /\ UNCHANGED <<applicationPromise, appState, closing>>

(* The handler is called and getApplication() finds a cached promise. *)
JoinApplication(i) ==
    /\ Free(i)
    /\ applicationPromise # NoApp
    /\ invocation' = [invocation EXCEPT ![i] =
                          [pc |-> "awaitingApp", app |-> applicationPromise]]
    /\ UNCHANGED <<applicationPromise, appState, closing>>

(* Mutant: the application is cached once it is ready, not its promise. *)
ColdStartUntilReady(i) ==
    /\ Free(i)
    /\ applicationPromise # NoApp => appState[applicationPromise] = "initializing"
    /\ \E a \in Apps :
        /\ appState[a] = "none"
        /\ applicationPromise' = a
        /\ appState' = [appState EXCEPT ![a] = "initializing"]
        /\ invocation' = [invocation EXCEPT ![i] = [pc |-> "awaitingApp", app |-> a]]
    /\ UNCHANGED closing

(* The handler is called and getApplication() starts a cold start. *)
ColdStart(i) ==
    /\ Free(i)
    /\ applicationPromise = NoApp
    /\ \E a \in Apps :
        /\ appState[a] = "none"
        /\ applicationPromise' = a
        /\ appState' = [appState EXCEPT ![a] = "initializing"]
        /\ invocation' = [invocation EXCEPT ![i] = [pc |-> "awaitingApp", app |-> a]]
    /\ UNCHANGED closing

(* NestFactory.create(...).then(init) resolves. *)
InitResolves(a) ==
    /\ appState[a] = "initializing"
    /\ appState' = [appState EXCEPT ![a] = "ready"]
    /\ UNCHANGED <<applicationPromise, invocation, closing>>

(* It rejects: .catch() clears the promise, whichever one it now is. *)
InitRejects(a) ==
    /\ appState[a] = "initializing"
    /\ appState' = [appState EXCEPT ![a] = "failed"]
    /\ applicationPromise' = NoApp
    /\ UNCHANGED <<invocation, closing>>

(* `await getApplication()` resumes with an application; the execution context  *)
(* is built and the transport is invoked.                                       *)
StartTransport(i) ==
    /\ invocation[i].pc = "awaitingApp"
    /\ appState[invocation[i].app] \notin {"initializing", "failed"}
    /\ invocation' = [invocation EXCEPT ![i].pc = "running"]
    /\ UNCHANGED <<applicationPromise, appState, closing>>

(* The same, but buildYandexExecutionContext throws on a malformed context. *)
RejectContext(i) ==
    /\ invocation[i].pc = "awaitingApp"
    /\ appState[invocation[i].app] \notin {"initializing", "failed"}
    /\ invocation' = [invocation EXCEPT ![i].pc = "failed"]
    /\ UNCHANGED <<applicationPromise, appState, closing>>

(* `await getApplication()` rethrows the failure of the cold start. *)
FailColdStart(i) ==
    /\ invocation[i].pc = "awaitingApp"
    /\ appState[invocation[i].app] = "failed"
    /\ invocation' = [invocation EXCEPT ![i].pc = "failed"]
    /\ UNCHANGED <<applicationPromise, appState, closing>>

(* transport.invoke settles; its outcome is the invocation's. *)
FinishTransport(i) ==
    /\ invocation[i].pc = "running"
    /\ \E outcome \in {"succeeded", "failed"} :
        invocation' = [invocation EXCEPT ![i].pc = outcome]
    /\ UNCHANGED <<applicationPromise, appState, closing>>

-----------------------------------------------------------------------------
(* Mutant: close() leaves the promise in the cache. *)
CloseKeepsPromise(c) ==
    /\ closing[c].pc = "idle"
    /\ closing' = [closing EXCEPT ![c] =
           IF applicationPromise = NoApp
           THEN [pc |-> "done", app |-> NoApp]
           ELSE [pc |-> "awaitingApp", app |-> applicationPromise]]
    /\ UNCHANGED <<applicationPromise, appState, invocation>>

(* close() up to its first await: takes the promise and clears the cache. *)
Close(c) ==
    /\ closing[c].pc = "idle"
    /\ closing' = [closing EXCEPT ![c] =
           IF applicationPromise = NoApp
           THEN [pc |-> "done", app |-> NoApp]
           ELSE [pc |-> "awaitingApp", app |-> applicationPromise]]
    /\ applicationPromise' = NoApp
    /\ UNCHANGED <<appState, invocation>>

(* Reactions to one promise run in the order of the awaits.  Every invocation  *)
(* that awaits application a did so before close() took a, so it resumes first.*)
EarlierAwaitsResumed(a) ==
    \A i \in Invocations : ~(invocation[i].pc = "awaitingApp" /\ invocation[i].app = a)

(* Mutant: close() only shuts down an application the cache still holds. *)
CloseCachedApplication(c) ==
    LET a == closing[c].app IN
    /\ closing[c].pc = "awaitingApp"
    /\ appState[a] = "ready"
    /\ EarlierAwaitsResumed(a)
    /\ IF applicationPromise = a
       THEN /\ appState' = [appState EXCEPT ![a] = "closing"]
            /\ closing' = [closing EXCEPT ![c].pc = "closingApp"]
       ELSE /\ closing' = [closing EXCEPT ![c].pc = "done"]
            /\ UNCHANGED appState
    /\ UNCHANGED <<applicationPromise, invocation>>

(* `await pending` resumes and application.close() begins. *)
CloseApplication(c) ==
    LET a == closing[c].app IN
    /\ closing[c].pc = "awaitingApp"
    /\ appState[a] = "ready"
    /\ EarlierAwaitsResumed(a)
    /\ appState' = [appState EXCEPT ![a] = "closing"]
    /\ closing' = [closing EXCEPT ![c].pc = "closingApp"]
    /\ UNCHANGED <<applicationPromise, invocation>>

(* `await pending` rethrows: close() rejects with the bootstrap error. *)
CloseRejects(c) ==
    /\ closing[c].pc = "awaitingApp"
    /\ appState[closing[c].app] = "failed"
    /\ EarlierAwaitsResumed(closing[c].app)
    /\ closing' = [closing EXCEPT ![c].pc = "failed"]
    /\ UNCHANGED <<applicationPromise, appState, invocation>>

(* application.close() has run the shutdown hooks. *)
CloseResolves(c) ==
    /\ closing[c].pc = "closingApp"
    /\ appState' = [appState EXCEPT ![closing[c].app] = "closed"]
    /\ closing' = [closing EXCEPT ![c].pc = "done"]
    /\ UNCHANGED <<applicationPromise, invocation>>

-----------------------------------------------------------------------------
InvocationStep(i) ==
    \/ StartTransport(i) \/ RejectContext(i) \/ FailColdStart(i) \/ FinishTransport(i)

InvocationCall(i) == RejectUnclaimed(i) \/ JoinApplication(i) \/ ColdStart(i)

InitStep(a) == InitResolves(a) \/ InitRejects(a)

CloserStep(c) == CloseApplication(c) \/ CloseRejects(c) \/ CloseResolves(c)

Next ==
    \/ \E i \in Invocations : InvocationCall(i) \/ InvocationStep(i)
    \/ \E a \in Apps : InitStep(a)
    \/ \E c \in Closers : Close(c) \/ CloserStep(c)

Spec == Init /\ [][Next]_vars

(* The event loop runs every reaction to a settled promise; NestJS settles the *)
(* initialisation and the shutdown, and the transport settles the invocation.  *)
(* Nobody is obliged to call the handler or close().                           *)
Fairness ==
    /\ \A i \in Invocations : WF_vars(InvocationStep(i))
    /\ \A a \in Apps : WF_vars(InitStep(a))
    /\ \A c \in Closers : WF_vars(CloserStep(c))

FairSpec == Spec /\ Fairness

-----------------------------------------------------------------------------
(* The applications some close() has taken over. *)
Released == {closing[c].app : c \in Closers}

(* The applications that exist and that no close() is responsible for. *)
Unreleased == {a \in Apps : appState[a] \in {"initializing", "ready"}} \ Released

(* An application in the cache is being initialised or ready: a failed cold    *)
(* start is not cached as a permanent failure, and an application that is      *)
(* closing or closed is never handed to an invocation                          *)
(* (create-yandex-handler.ts, getApplication and close).                       *)
CachedApplicationUsable ==
    applicationPromise # NoApp =>
        appState[applicationPromise] \in {"initializing", "ready"}

(* Concurrent cold starts share one initialisation: there is never a second    *)
(* application beside a live one that close() has not been asked to release    *)
(* (create-yandex-handler.ts, getApplication), as the documentation has it.    *)
OneApplication ==
    \A a, b \in Unreleased : a = b

(* It holds however cold starts fail and calls of close() interleave, as long  *)
(* as no close() has taken an application whose initialisation then failed     *)
(* (create-yandex-handler.ts, the .catch of getApplication).                   *)
SharedColdStart ==
    (\A a \in Apps \cap Released : appState[a] # "failed") => OneApplication

(* The transport is only ever invoked on an application that is up: close()    *)
(* cannot overtake an invocation that waits for the same application.          *)
StartsOnReadyApplication ==
    [][\A i \in Invocations :
          (invocation[i].pc = "awaitingApp" /\ invocation'[i].pc = "running")
             => appState[invocation[i].app] = "ready"]_vars

(* An invocation that arrives after close() never gets the application that    *)
(* close() has taken: it performs a fresh cold start.                          *)
FreshAfterClose ==
    [][\A i \in Invocations :
          (Free(i) /\ invocation'[i].pc = "awaitingApp")
             => invocation'[i].app \notin Released]_vars

(* Every invocation settles, whatever becomes of the cold start it waits for.  *)
InvocationSettles ==
    \A i \in Invocations : invocation[i].pc \in {"awaitingApp", "running"} ~> Free(i)

(* close() has come to its end: the application it took is shut down, or never *)
(* came up.                                                                    *)
CloseSettled(c) ==
    \/ closing[c].pc = "failed"
    \/ /\ closing[c].pc = "done"
       /\ closing[c].app \in Apps
       /\ appState[closing[c].app] = "closed"

(* An application that close() takes while it is still being initialised is    *)
(* shut down all the same, and close() ends (create-yandex-handler.ts, close:  *)
(* "awaits an in-flight initialization before releasing it").                  *)
ReleasedApplicationCloses ==
    \A c \in Closers : closing[c].pc = "awaitingApp" ~> CloseSettled(c)

(* Nobody waits for ever, neither an invocation nor a caller of close().       *)
CallsSettle == InvocationSettles /\ ReleasedApplicationCloses
=============================================================================
