# TLA+ models of serverless-tools

TLA+ modules, TLC configurations and TLAPS proofs for the serverless-tools
monorepo: the connector that runs NestJS applications as Yandex Cloud functions
(`packages/nest-bridge`), its development server (`packages/js-dev-tools`), the
command line tool that builds and deploys them (`packages/pilot` and its
plugins) and the composer of gateway specifications (`packages/composer`).
Paths below are relative to `src/`, those of code to its package.

1. [Inventory](#1-inventory)
2. [Plan](#2-plan)
3. [Modules](#3-modules)
4. [Runs](#4-runs)
5. [Fairness](#5-fairness)
6. [Proofs](#6-proofs)
7. [Where code and documentation disagree](#7-where-code-and-documentation-disagree)
8. [What is not modelled](#8-what-is-not-modelled)

To check a configuration or a proof:

    tlc -config connector.cfg MCConnectorRuntime.tla
    tlapm ConnectorRuntime_proofs.tla

## 1. Inventory

Three programs that never run in the same process. `pilot` (`ycsf`) runs on a
developer's machine or in CI: it loads the project model, builds every app
through a builder plugin, turns artifacts into Terraform JSON through
materializer plugins and runs Terraform; the composer is one of the builders and
a command of its own. `nest-bridge` is what runs in the deployed function, and
`js-dev-tools` runs it behind a local HTTP server.

### nest-bridge (`@ycforge/nestjs-connector`) and js-dev-tools

| Component | State | Operations | What is hard | Correct when |
|---|---|---|---|---|
| Connector runtime, `core/create-yandex-handler.ts` | `applicationPromise`, shared by all invocations of an instance | handler call, cold start, `close()` | invocations and `close()` interleave at every await; a cold start fails while others wait for it | one application per warm period; nobody runs on an application that is down; failures are not cached; whoever waits settles |
| Message queue transport, `mq/` | per invocation: position in the batch, `failures`; outside: the queue, the dead letter queue | validate, dispatch message by message and handler by handler, republish | redelivery, death in the middle of a batch, failing publication, two modes, two versions of a function side by side | a message leaves the queue handled or dead-lettered; only failed messages are ever given up |
| HTTP transport, dispatch: `http/dispatch-pipeline.ts`, `response-facade.ts` | plan of layers (fixed at cold start); per request: index, continuation, response | advance, `next`, error layer, not-found, serialise | `next()` from callbacks, throws after `next()`, double answers, nothing answers | one response, serialised after everything has settled, by a handler or a fallback with a reason |
| HTTP transport, edges: the rest of `http/` | per request: event, request, facade, parameters, envelope | detect, validate, normalise, match, answer, serialise | two frames of the gateway and a third of the development server, repeated values, bodies that are encoded or missing, parameters of a route that was passed over | what the client sent reaches the handler, what the handler answered reaches the client, and the handler is the one the route names |
| Authentication guard, `auth/` | metadata | `canActivate` | public handlers in guarded controllers, default guards, guards that cannot be resolved | no handler runs unguarded unless it is declared so |
| Invocation scope and logger, `context/`, `logger/` | AsyncLocalStorage, the trace id | `run`, boundary records | which failures are reported by whom | one terminal record per invocation |
| Development server, `js-dev-tools/src/server/` | listener, connections, requests, the connector's handler, the flag of `stop()` | start (options, entry, port, token), request, `stop()` | stop twice or while requests are read or handled; idle connections; another program takes the port | nobody is cut off, nothing is called after close, stop ends |

The handler awaits `getApplication()` and then calls the transport
`detectTransport` chose. Transports share nothing but the application and the
invocation scope.

### pilot, its plugins and the composer

| Component | State | Operations | What is hard | Correct when |
|---|---|---|---|---|
| Project model, `model/`, `build-env/`, `registry/` | none (files read) | load, refuse, derive `depends_on`, order, load plugins | cycles, ties, many ways for a file to be wrong | the order is topological and complete; nothing that can be ordered is refused |
| Incremental build, `build/`, `cache/` | `.ycsf/cache/manifest.json`, `cache/blobs/<fp>`, `.ycsf/artifacts/<app>` | `buildApps`: hash, look up, restore or build, save | crashes between files, I/O errors treated as warnings, stale entries, `--target`, `--no-cache` | what a build returns is what building now would give |
| Materialisation, `materialize/`, Materializers (`materializers-core`) | the generated files in `infra/`, the companion files | read the store, select, materialise, declare outputs, write, remove stale files | `--target`, failures half way, old artifacts, names that meet | every resource in the file of its app, and nothing else |
| Extensions and outputs, `extensions/`, `outputs/` | none | resolve, deep merge, export | empty mappings, targets that do not exist, references | a rule changes what it names and nothing else; every output can be resolved |
| Moves, `moves/` | addresses in Terraform's state | chains of `moved` blocks | chains, cycles, exchanged names | every address ends at one that is generated |
| Project check, `check/` | none | the same validations over files on disk | a second reading of what materialize has computed | it agrees with materialize |
| Terraform and the pipeline, `cli/pipeline.ts`, `terraform.ts`, `apply.ts`, `plan.ts`, `destroy.ts` | a child process per Terraform command, its interrupt flag and timer; outside: Terraform's state and lock | init, plan, confirm, apply, destroy, clean up | Ctrl-C, the exit of the child, its close event and the timer race; a child that asks or does not stop | Terraform reads what was generated; success means that what was built is deployed; interrupts end in 130; every command ends |
| Composer, `packages/composer` | the draft document, the owner of each path and the place of each operationId; one environment variable of the process | index, extract, merge, authenticate, override, resolve, check | rules that move what later rules name; compilations that overlap; check and compile read the project twice | local rules stay local; references are declared; check promises what compile keeps |
| Extraction runner, `composer/src/runner/spawn-runner.ts` | child, timer, buffers | spawn, kill, settle | timeout, exit, close and output limit race; a grandchild holds the pipes | settles once, and always |
| Builders (`builders-core`) | none | calls of esbuild, npm, docker, vite | | |

`pipeline.ts` calls the build, hands its artifacts to materialisation and runs
Terraform on the result; a failure at any stage ends the command. Builds talk to
later builds only through files, so a command that died half way is an input of
the next one. Builds give the composer the identities of the sibling apps, and
the references its artifact lists become resources the materializer of the
gateway looks up.

The hazards of this code, each at its line with the properties that cover it,
are in `PROJECT.json`.

## 2. Plan

Ordered by what is at stake when it goes wrong: messages and requests of a
running system first, then the artifacts that get deployed, then deployment,
then the tools around them.

| Step | Modules | Composes / implements | State |
|---|---|---|---|
| 1 | `ConnectorRuntime`, `ConnectorRuntime_proofs` | | done |
| 2 | `QueueDispatch`, `MessageDelivery`, `QueueDispatch_proofs` | `QueueDispatch` implements `MessageDelivery` | done |
| 3 | `HttpDispatch`, `HttpDispatch_proofs` | | done |
| 4 | `BuildCache`, `UncachedBuild`, `BuildCache_proofs` | `BuildCache` implements `UncachedBuild` for plain builds | done |
| 5 | `Deployment`, `Deployment_proofs` | | done |
| 6 | `PathPattern`, `HttpEdge`, `HttpEdge_proofs` | the frames, the guard, the facades and the servers around `HttpDispatch` | done |
| 7 | `LocalDevServer`, its proofs in `ConnectorRuntime_proofs` | | done |
| 8 | `Subsequences`, `DependsOn`, `ProjectModel`, `TerraformFiles`, `Moves`, `Materializers`, `ProjectPipeline`, `ProjectPipeline_proofs` | `ProjectPipeline` composes the others | done |
| 9 | `ResourceRefs`, `AuthConfig`, `Composition`, `Composer`, `Composer_proofs` | each extends the one before | done |
| 10 | the order of the search, the promise of `check` to the composer | proofs about steps 8 and 9 | done |

## 3. Modules

### ConnectorRuntime

One closure returned by `createYandexHandler`. `applicationPromise` names the
application whose promise the code's variable of that name holds; `appState` is
what became of each promise; `invocation` and `closing` are the program counters
of the handler's and of `close()`'s async functions. An action is a stretch of
code between two awaits:

| Code | Action |
|---|---|
| `detectTransport` throws | `RejectUnclaimed` |
| `getApplication()` returns the cached promise / starts one | `JoinApplication`, `ColdStart` |
| the promise settles; `.catch` clears the cache | `InitResolves`, `InitRejects` |
| the handler resumes | `StartTransport`, `RejectContext`, `FailColdStart`, then `FinishTransport` |
| `close()` | `Close`, then `CloseApplication` or `CloseRejects`, `CloseResolves` |

The reactions to one promise run in the order in which they were registered;
`EarlierAwaitsResumed` is that guarantee of ECMAScript and it is what
`StartsOnReadyApplication` rests on. A cold start uses up a name of `Apps`, which
bounds the number of cold starts of a behaviour.

### QueueDispatch, MessageDelivery

The transport (`adapter.ts`, `dispatch.ts`, `dlq-sender.ts`) with the queue and
its trigger as its environment. `invocation[i]` holds the locals of one dispatch:
position in the batch, handler, `failures`, the message of the scope. `Validate`,
`BeginMessage`, `Resolve`, `HandlerReturns`, `HandlerThrows`, `FinishBatch` and
`Republish` are the steps of `dispatchQueueHandlers` between awaits; `Deliver`
and `Crash` are the environment. Both modes are one module: the fail-fast
invocations are those outside `Degrading`. `Messages` a handler throws on need
not throw each time. `processed` is history: the transport never reads it.

`MessageDelivery` is the promise: messages leave the queue in batches, each
handled, dead-lettered or, where `LossAllowed`, lost. The refinement mapping
computes the fate of a message from `queue`, `processed` and `deadLetters`.

### HttpDispatch

One request through `runDispatch`. JavaScript's call stack is a variable: a
handler runs on top of the `advance()` that called it, and `next()` runs
`advance()` on top of the handler, so only the top of the stack moves until it
is empty. `handler[k]` is where the handler of a layer stands, `frame[k]` where
its `advance()` stands (`calling`, `outcome` = `await outcome`, `continuation` =
`await continuation`, `error`, `done`). Handlers belong to the application and
do whatever the interface allows, `Misuse` adds what it does not forbid.
Matching of paths is the constant `Matching`.

### PathPattern, HttpEdge

`HttpEdge` is one request from the client to the application and back:
`Arrive` (one of the two gateway frames, or the frame that the development
server makes of it), `Detect`, `ColdStart` (patterns outside the supported
subset are refused), `BuildContext`, `Valid` and `Normalize`, `BuildFacade`,
then the scan over the layers with `NextLayers`, `Enter`, `Guard`, `Run`,
`PassOn`, `Fail` and the fallbacks, and back through `Serialize` with the
`Envelope` and the headers of the server. A handler is here a program of writes
to the response, where `HttpDispatch` has its control flow; a guard's own
decision is nondeterministic. An event is the set of its fields and `mistyped`
those of another type, so that validation is about which fields it covers.
`Writes` are the writes there are, and the assumptions about
`Apps` and `Clients` say no more than that a layer has a program of them, a
pattern is a sequence of segments and a path one of texts.
`PathPattern` has the patterns: which are accepted, what they match and
capture. `Means` is the definition they are compared with: the paths one gets by
writing some text in the place of each parameter, position by position (two
parameters of one name may differ, and the last one is captured), and any texts for
the final wildcard.

### LocalDevServer

`createYcsfLocalServer` and the server it returns: `Validate`, `LoadEntry`,
`ProbePort`, `ResolveIam`, `Bind`, with `OtherProgram` taking or freeing the
port at any moment; `Connect`, `Receive`, `CallHandler`, `BodyFails`,
`HandlerReturns`, `HandlerFails`, `Disconnect`, `KeepAliveTimeout` for the
requests; `Stop`, `Drained`, `RuntimeClosed` for `stop()`, whose flag `closed`
makes a second call return at once. The server closes a runtime of its own, and
the proofs about both are in one module: what the two modules would otherwise call
by one name (`Init`, `Next`, `TypeOK`) begins with `Server` here.

### BuildCache

`buildApps` as a process over files. The sources, the manifest, the blobs and
the artifact store outlive it; `run` is its local state. The steps are the
`await`s between which a crash makes a difference: `StartRun`, `HashApp` per
app, `LookUpHit`/`LookUpMiss`/`HealEntry`, `RestoreBlob` or `BuildApp`,
`WriteDescriptor`, `SaveFiles`, `SaveBlob`, `SaveManifest` (an atomic rename),
`FinishRun`. `Crash` leaves what was being written torn, except the manifest.
A fingerprint is the value it hashes, and so SHA-256 is taken to be injective.
`run.todo` are the apps still to come, and `NoEntry` stands for an app
without an entry in the manifest.
`history` is read by no step: `settled` is for `NothingToBuild`, `plain` for
`FreshArtifacts`.

`UncachedBuild` is the promise: apps are built one after the other from the sources as
they are, and nothing is left behind. The mapping takes the artifacts that the
current run has returned for its `results`, as long as no run had `--target` or
`--no-cache`, and none after that.

### Subsequences, DependsOn, ProjectModel, TerraformFiles, Moves, Materializers, ProjectPipeline

`ProjectPipeline` is the commands `build`, `materialize` and `check` over a
project whose files the user may change between and during them (`Edit`). A
file is a record with a form (absent, does not parse, a key twice, another
version, a wrong structure, well-formed) and, where it is well-formed, its
contents. `cmd` is the command that runs with its stage and what it has read so
far; `store`, `dist`, `infra` and `companions` are the directories it leaves
behind. A command may be interrupted or fail between any two files
(`Interrupt`, `Faulty`).

| Code | Definitions |
|---|---|
| `model/` | `ProjectModel`: the loaders with their codes; `DependsOn`: the depth-first search with its colours, stack and cycles, and the order by ready apps; `Subsequences`: JavaScript's `filter` |
| `registry/`, `build-env/` | `ProjectModel`: plugins that are missing, throw or are neither kind; interpolation |
| `build/` as seen from outside | `BuildApp`, `BuildEnds`, `ReadStore`, `Identities` |
| `materialize/` | `SelectArtifacts`, `MaterializeApp`, `Declare`, `WriteFile`, `RemoveStale`; `TerraformFiles`: owners of files, collisions |
| `materializers-core` | `Materializers` |
| `extensions/`, `outputs/` | `TerraformFiles`: `DeepMerge` over configurations as functions from paths to leaves, outputs |
| `moves/` | `Moves` |
| `check/` | `CheckProject` and its categories |

Names are sequences of segments, so that a name with a capital letter or a
separator can be told from one without. Composition here is by EXTENDS: the
algorithms are operators, and the commands call them.

### ResourceRefs, AuthConfig, Composition, Composer

`Composer` has the calls of one process: `build` (the builder plugin), the
`compile` and `check` commands and `compose()`, each a sequence of stages
(`Stages`) that may overlap with those of another call (`Jobs`). A stage is what
happens between two awaits: `ReadIndex`, `FindSources`, `CheckAuth`, `Merge`,
`LoadOverrides`, `ApplyNextRule` per rule, `NeedInfo`, `Resolve`. A source that
is a program runs as a child (`SpawnFails`, `ChildExits`, `ChildCloses`,
`Timeout`); the program is one of nine, among them one that never ends and one
whose own child keeps the pipes open. `flag` is the environment variable
`SERVERLESS_TOOLS_OPENAPI_BUILD`, `scope` the counter that guards it.

`Composition` is the merge, the authentication and the rules on a draft: the
document, the owner of each path, the place of each operationId. `AuthConfig` is
`auth.yaml`, `ResourceRefs` the index, `env.yaml` and the resolution of one
value. `IsDocument` is the shape of a document, `IsRule` that of a rule which the parser
of overrides lets through and whose value is of the kind of its target; the
parser does not look at the value, and what becomes of a rule whose value is something
else is not modelled. `Projects` gives the files; the calls that are made on each are a field
of it, since not every call tells something about every project.

### Deployment

The commands of `pilot` that deploy, one after another in one project, and what
they leave behind. `cli` is the process of the current command: its `step`
between two awaits of the action (`materializeAction`, `planAction`,
`applyAction`, `destroyAction`, and the functions of `pipeline.ts` they call),
`built` what the build or the artifact store gave it, `todo` the files still to
be written by `writeGeneratedTerraform` or removed by `cleanGeneratedFiles`.
`infra` are the generated files of the apps; the file of outputs and the file of
moves are written and removed in the same way and are not separate. `child` is
the process of `spawnTerraform`:

| Code | Action |
|---|---|
| `buildApps`, `dispatch` with extensions, moves and outputs | `BuildSucceeds`, `BuildFails`, `Generate`, `GenerationFails` |
| `writeGeneratedTerraform` | `WriteFile`, `RemoveStale`, `WriteFails`, `FinishWriting` |
| `spawn`, `error` and `close` events | `Spawn`, `SpawnFails`, `CloseEvent` |
| `onSigint` and its timer | `InterruptTerraform`, `Backstop` |
| Ctrl-C anywhere else | `InterruptCommand` |
| `confirmDestroy` | `RunDestroy`, `AnswerPrompt` |
| `cleanGeneratedFiles` | `CleanFile`, `FinishCleaning` |

Terraform is environment (`ChildSucceeds`, `ChildFails`, `OrphanEnds`): it
reads `infra/` when it starts, rejects torn files, needs the lock of its state
except for init, and may stop half way. A version stands for the content of an
app's file. One command runs at a time; the Terraform of an earlier one may
still be there (`orphans`).

### MC modules

They hold the values of constants a `.cfg` cannot write down. Operators whose
comment begins with "Mutant" are broken versions of the definition after them:
each property of a passing run is violated when one of them takes the place of
the original (`PROJECT.json` says which). `TypeOK` is the type
invariant of the state machines; it holds in all the runs and is not repeated
in their properties. Section 6 proves it for the modules with theorems, for
`Composer` as a part of its invariant.

## 4. Runs

| Run | Question | Bounds and why they are enough |
|---|---|---|
| `connector` | do shared cold starts, failures and `close()` leave a usable cache, and does everyone settle? | 2 invocations, 2 closers, 3 cold starts: a live, a failing and a released application at once, with a waiter for each; slots are reused |
| `queue_modes` | does the dispatch of a fail-fast version beside a degrading one keep the delivery promise, with crashes and resolution failures? | 3 messages, batches of up to 2, 2 handlers: a message before and after a failing one, partial processing, redelivery in another grouping |
| `queue_lossy` | what is lost when publishing may fail, and does every message settle? | 3 messages: one that fails, one that cannot be decoded, one that is fine and must not be lost with them |
| `http` | do answers, order and the end of a dispatch survive sync, async and callback handlers and all misuse? | 4 layers, three of which match: the skipped one lies between them; the first and the last are async, the middle one uses callbacks |
| `http_edge` | does what the client sent reach the handler it was meant for, guarded as declared, and the answer the client? | three frames × three applications × requests that vary one aspect at a time: up to three query pairs with repeated names, seven paths × three methods, bodies × content types, repeated headers, fields of a wrong type |
| `cache` | is what a build returns fresh and on disk, and is nothing built in vain, with `--target`, `--no-cache`, crashes and lost files in any order? | lib and api that depends on it, 2 versions of each; 3 disturbances: an edit there and back, so that an old fingerprint returns, and a fault |
| `deployment` | does Terraform read what its run has generated, does success mean what it says and does every command end, after any sequence of commands that fail, are interrupted or leave a Terraform behind? | 2 apps, present or not, one edit and one interrupt: a file that is stale, one that is torn, one that is missing, an orphan beside the next command. One version of the contents, since section 6 proves the safety properties for any set of them |
| `deployment_orphan` | does a Terraform outlive its command? (yes, section 7) | one interrupt |
| `project` | is what materialize leaves complete and consistent, and does check agree? | eight projects (a gateway before a function and a site; a diamond; a cycle; an app that depends on itself and on one that does not exist; a renamed app with exchanged moves; an image whose id has a capital letter; no apps; references that dangle), up to 3 commands, one edit that takes a file from one of four variants, one failure or interruption: a failed command between two that succeed |
| `project_lost_object` | can two resources of one app have one address? (yes, section 7) | one site, two files |
| `composer` | do rules keep to their scope, do provenance and references match the document, does check keep its promise, does every call end? | 186 projects: each pair of ten global and twelve local rule files, 57 unusual files (an override whose target is missing, is taken away by an earlier rule, or stays), nine behaviours of the entry program; two calls of one project in any overlap |
| `dev_server` | is nobody cut off, is the handler left alone after its close, and does `stop()` end? | 2 connections, 2 requests, 2 callers of `stop()`: one connection is idle or busy while the other is drained |

Deadlock is checked in `connector` and `cache`, where a call or a run is always
possible, so that it says little there; the others describe systems that stop: an
empty queue, a request answered, the commands used up, a server that is down, or
a confirmed destroy that waits for ever (section 7).

What the passing runs show:

- *connector*: `SharedColdStart` (one live application unless a `close()` took one
  that then failed), `StartsOnReadyApplication` and `FreshAfterClose` (`close()`
  neither overtakes earlier invocations nor serves later ones), `CallsSettle`
  (invocations settle and released applications are closed).
- *queue*: `DeliveryPromise` (the refinement), `InOrder` (no message is begun
  before the earlier ones of its batch are processed or recorded as failed, no
  handler before the one ahead of it), `OnlyFailedIsLost`,
  `EveryMessageSettles` (in the degrade mode nothing is stuck).
- *http*: `SerializesLast` (whatever is still running when the response is
  serialised lies at or behind a handler that left its chain behind),
  `LayersInTurn` (layers are entered in order, a fallback has its reason),
  `AnswerStays`, `DispatchEnds` (a dispatch serialises, and what it serialises
  is an answer).
- *http_edge*: `RequestArrives` (what the application reads is what the client
  sent), `RightRoute` (the layer that runs is the first that the meaning of its
  pattern admits, with its own parameters, behind the guard that is declared for it),
  `ResponseArrives` (what it answered is what the client gets, and a status that nobody
  has chosen comes with the trace id), `OneTerminalRecord`.
- *cache*: `FreshArtifacts` (below), `BuildsAsUncached` (the refinement),
  `ResultsPersisted` (an app that is done is on disk: entry, blob and
  descriptor), `NothingToBuild` (no builder is called after a complete build until
  something changes), `OtherEntriesKept` (`--target` leaves the entries of the
  others alone).
- *deployment*: `ReadsWhatWasGenerated` (files of earlier, failed, interrupted
  or `--target` runs never reach plan or apply), `AppliedIsBuilt` (an apply that
  ends with 0 has deployed what it built, orphans notwithstanding),
  `CleanupAfterDestroy`, `InterruptedExits130`, `CommandEnds`.
- *project*: `BuildOrder` (an app is built after everything it depends on, and
  all of them are), `GeneratedExactly` (after a materialize without a failure,
  `infra` has the resources of the apps that were asked for, each in the file
  of its app, and no file of ours beside them), `MovesLead` (an object known under any address of
  the history has one destination, and that is generated), `NothingDangles` (outputs and
  references name what exists), `CheckAgrees` (the extensions, outputs and moves that
  materialize has accepted are not reported by check).
- *composer*: `LocalRulesStayHome`, `ProvenanceMatches`, `ReferencesDeclared`,
  `CheckPromise` (if check exits with 0, and both read the project's files alike,
  `LooksAtTheSame`, compile fails with none of `CheckedCodes`: of those about targets
  of overrides only where no rule takes away what a later one names, `TargetsStay`;
  section 7 has the other case and what else is not promised), `EnvScoped` (`SERVERLESS_TOOLS_OPENAPI_BUILD` is set while a
  compilation runs and has its old value when none does), `CallsEnd`.
- *dev_server*: `DrainsBeforeClose`, `NoCallAfterClose`, `StopEnds`.

`FreshArtifacts` demands two things. What is returned was built from the app's
own source as it is, whatever the flags of this and of earlier runs; and from
the sources of its dependencies as they are, with complete files, as long as no
run had `--target` or `--no-cache`. Sources change between runs here (section 7
has the change during a run). The
order of the writes is what makes it true: files, then `artifact.json`, then the
manifest; a blob torn by a crash is not named by any manifest entry unless it
was there before, which takes `--no-cache` or a copy error (section 7). It also
holds with `Faults = {"crash", "write"}`, `Targets = {AllApps}`,
`NoCacheFlags = {FALSE}` and `MaxDisturbances = 1`, where any number of writes fail.

## 5. Fairness

- `ConnectorRuntime`: weak fairness per invocation, application and closer. The
  event loop runs the reactions to settled promises; that NestJS, the transport
  and `application.close()` settle is an assumption about them. Nobody need
  call the handler or `close()`.
- `QueueDispatch`: weak fairness of each dispatch, for the same reason, and strong
  fairness of the delivery of each message: a message that becomes visible
  again and again is delivered again, which is the contract of the trigger.
  Strong, because a slot that is busy disables the delivery time and again.
  `EveryMessageSettles` is checked without crashes.
- `HttpDispatch`: weak fairness of the whole dispatch: handlers end (a handler that
  never settles keeps the request open until the function times out) and each
  does finitely many steps.
- `Deployment`: weak fairness of the command's own steps (event loop and timer; the
  user answers the prompt) and of a Terraform that does not wait for an answer
  and was not told to stop. One that was told to stop may ignore it: that is
  what the timer is for.
- `LocalDevServer`: weak fairness per request of what ends the reading of its body
  (it arrives, or the connection fails) and of its handler; per connection of
  Node's timeout for idle ones, since `server.close()` waits for them; per caller of
  `Drained` and `RuntimeClosed`. Nobody need connect, send or call `stop()`.
- `Composer`: weak fairness of the steps of each call and of its timer. The first
  is written out as "infinitely often not busy or moving", where `Busy` is
  `ENABLED Step`, since the enabledness of so large a step is slow to evaluate.
  Nothing says that a program ends or closes its pipes.
- `BuildCache`, `HttpEdge`, `ProjectPipeline`: none; nothing about them is a
  liveness property.

## 6. Proofs

The theorems hold for every value of the constants that satisfies the ASSUME of
the module, where TLC checks one small instance.

**ConnectorRuntime_proofs** (assumption: null is not an application). The
inductive invariant is `IInv`: `CachedApplicationUsable` (a failed or closing
application is never in the cache) alone is not inductive, since
`CloseApplication` changes the state of an application without looking at
the cache. `ReleasedNotCached` says that application has left the cache,
`AwaitedNotClosing` that nobody still waits for it, `ClosingApplicationDown`
what `CloseResolves` acts on.

- `TypeCorrect`, `CacheUsable`: from `IInv`.
- `StartsReady`, `FreshApplication`: action properties from `IInv`; the first by the
  order of promise reactions, the second by `ReleasedNotCached`.
- `ColdStartShared`: `SharedColdStart`. While no released application has failed, the
  only live unreleased application is the cached one (`LiveIsCached`); this is
  inductive since only a failing application clears the cache behind the back
  of a live one, and a failing application is then the cached one or a released
  one, which the condition excludes.

Its second part is about **LocalDevServer** (no assumptions). `DrainsBeforeClose`
alone is not inductive: that nobody is connected when `server.close()` calls back
says nothing about later connections. `ServerInv` adds that the listener is gone from the
moment the flag `closed` is set (`ListensUntilStopped`), that whoever waits in
`stop()` has set it (`StoppersClose`), that requests that run have a connection
(`RequestsOnConnections`), and that none is open once the connector is being
closed (`NobodyConnected`).

- `ServerTypeCorrect`, `Drains` (`DrainsBeforeClose`), `NoLateCall`
  (`NoCallAfterClose`).

**QueueDispatch_proofs** (assumption: `QueueAssumption`: types of the constants
and a positive batch size). `IInv` adds to the types: no two invocations hold the
same message (`Exclusive`), a batch is in flight (`BatchInFlight`), what is
acknowledged is accounted for, and `Progress`: what the locals of one dispatch
say about the messages it has passed. That a batch may be acknowledged follows
from the progress of its own dispatch; that this progress survives the steps of
others follows from `Exclusive`.

- `TypeCorrect`, `DispatchedInOrder` (`InOrder`), `OnlyFailedLost`.
- `DeliveryRefined`: `Spec => DeliveryPromise`. Every step maps to a `Settle` of
  the acknowledged batch or to a stutter.

**Deployment_proofs** (assumptions: `DeploymentAssumption`: the special values are
no apps and no versions; `NoChildAssumption`: `NoChild` is no process). The
properties speak of the end of a command and are not inductive; `IInv` says
what holds on the way there. `FilesWritten` and `InfraIsBuilt` follow the
generated files from the first write to the end of Terraform; `LockIsExclusive`
and `EndsFree` say that a Terraform that holds the lock, and whatever it has
done, is not disturbed by those of interrupted commands; `WorkIsDone` is what the exit
code 0 of the child stands for until its close event is handled;
`InterruptedHasChild` and `ExitCodePending` keep an interrupted command from
going on to another step.

- `TypeCorrect`, `GeneratedIsRead`, `SuccessIsDeployed`, `CleanupSafe`,
  `InterruptReported`.

**BuildCache_proofs** (assumptions of the model: `CacheAssumption`, the order is
topological and complete, which `OrderTopological` proves of the loader;
`DescriptorAssumption`). The theorems hold for any apps, any dependency graph and any
number of versions and disturbances. Some need more, and say so in an ASSUME
of their own. Each part is needed: without it TLC violates every property of the
last column, in `cache` with full builds, `Faults = {}` and the change given (one
app, but for a shared source two that do not depend on each other):

| Assumption | Excludes | Refuted with | Needed by |
|---|---|---|---|
| `Writable` | failing writes, which the code reports as warnings and goes on | `Faults = {"write"}` | `Persistence`, `NothingBuilt` |
| `SourcesDiffer` | two apps with one source, which may share a blob | `Source` constant | `Persistence`; `OwnSource`, `Refinement`, `Fresh` through `Hashable` |
| `Hashable` | also symbolic links, for which a constant is hashed | `Symlinked = {"lib"}` | `OwnSource`, `Refinement`; `Fresh` through `Replacing` |
| | and sources that change while they are built | `Faults = {"edit"}` | the same |
| `Replacing` | also builders that name files by their content | `HashedNames = {"lib"}`, `Faults = {"crash"}` | `Fresh` |
| | and copies that fail half way | `Faults = {"copy"}` | `Fresh` |

`TypeCorrect` and `OtherEntries` need none of them, whatever fails; `OwnSource`,
`Fresh` and `Refinement` need no write to succeed, and no run to end.
`NothingToBuild` speaks by itself only of complete builds without an edit.

`IInv` has, beside the shape of the state (`Shape`, `RunShape`), where a run is
in its apps (`Position`); that the fingerprints of a run over all apps are those
of the sources (`Hashed`); which entries it has not touched (`EntriesLoaded`);
what is saved (`Saved`); what a complete build leaves (`Settled`); and what
the blobs hold (`BlobsOfOwnSource`, `BuildsOfAllSources`, `FilesOfBuilds`). These
last are where freshness comes from. A blob under `f` with a valid descriptor holds *some* build that `f` is the fingerprint of (`BuildBlob`).
`FreshArtifacts` needs more: that a fingerprint determines the build
(`SameFingerprints`, `SameOutput`). Equal fingerprints have equal own parts, hence the
same source and, by `SourcesDiffer`, the same app, and equal sets of fingerprints
of the dependencies. So the apps whose fingerprints agree in two states of the
sources are closed under `DependsOn`; they include the app's `Closure`, and that is all
that `Output` reads. `WholeBlob` is
not inductive for all blobs, since a crash may tear the files of any; it
holds of those that an entry names, because the manifest is written after
the descriptor and the descriptor after the files, and because a blob that is built
again while its entry is still there had lost its descriptor (`AppBuilt`).

- `TypeCorrect`, `OtherEntries` (`OtherEntriesKept`), `Persistence`
  (`ResultsPersisted`), `NothingBuilt` (`NothingToBuild`).
- `OwnSource` (the part of `FreshArtifacts` that holds with every option),
  `Fresh` (`FreshArtifacts`), `Refinement` (`BuildsAsUncached`).

**HttpDispatch_proofs** (assumption: `HttpAssumption`: the matching, asynchronous and
callback layers are layers, and none is both). For any number of layers. `IInv`:
a handler is on the call stack once, exactly while it runs (`OnStack`); what
`advance()` waits for follows from what its handler does (`Paired`); the
layers entered are the matching ones up to `index`, and all but the last have called
`next()` without an error (`Scanned`); where an `advance()` is done, so is all that
it has led to, down to a handler that left its chain behind (`ChainSettled`); the
fallbacks have their reasons (`Reasons`); whatever is done is answered
(`Responded`). `SerializesLast` is `ChainSettled` at the first layer, and is
inductive only when said of every layer at once.

- `TypeCorrect`, `SerializedLast` (`SerializesLast`), `InTurn` (`LayersInTurn`),
  `CommittedStays` (`AnswerStays`).
- `NothingUnanswered`: what is serialised is an answer or the silence a handler
  chose. It is the safety half of `DispatchEnds`.

**HttpEdge_proofs** (assumptions: `AppAssumption`, `ClientAssumption`,
`PathAssumption`, see section 3). For any requests, any applications and any
pattern. `IInv`: the stage and its layer exist (`Flow`); the records of each stage
(`Records`); the event is a frame of the client's request, which may lack a field
(`Arrived`); what has been read of it so far is what the client has sent
(`Intact`); the response has no header without a value and no body without a
content type (`Answer`), which is why neither map of the envelope loses one;
a status that no layer has chosen is that of a fallback (`Traced`); routes that fit
and were passed over have a `next()` in their program (`Routed`). The scan
speaks of what the matcher matches and `RightRoute` of what patterns mean:
`MatchesMeans` says that for the patterns cold start accepts the two agree, on every
path.

- `TypeCorrect`, `RequestIntact` (`RequestArrives`), `RightRouteRuns`
  (`RightRoute`), `ResponseIntact` (`ResponseArrives`), `OneRecord`
  (`OneTerminalRecord`).

**Composer_proofs** (assumptions: `NoneAssumption`: an info that is not given is
not the one a compilation puts for it; `ProjectsAssumption`: documents and rules are
well formed, an info rule has a value, artifacts and programs of the kinds the model knows, and calls name apps
of the project). For any number of calls and any
files. `IInv` says of each call that its request is one of the project's (`Called`),
what it has collected (`Collecting`) and what has become of its draft
(`Composed`); of each process that a call waits for it (`ChildrenAwaited`); and of
the scope that its depth is the number of compilations that run
(`EnvCounted`, with the library's theorems on cardinalities). `Composed` contains
`IsDraft`: the paths of the document are those with an owner, and every
operationId points to a path that exists. The merge establishes it
(`MergeIsDraft`), authentication keeps it, and so does a rule, target by target
(`RuleOnPath` to `RuleOnComponent`, `Ownership`, `RuleIsDraft`). `Settled` is what the
resolution makes of a value (`ScalarSettled`, `Bearers`, `ResolvedDraft`).
For `LocalRulesKept` no invariant is needed beyond `IsDraft`: `RuleStaysHome` goes
through the targets and finds in each that the path it changes is one whose
owner is the app, which is what `isOutOfScope` has asked. The lists of rules of all
apps are flattened by a fold; `RuleListFlatten` describes the result by the
least prefix for which it would fail, since induction is out of reach.

For `PromiseKept` a second invariant, `AllConsistent`, stands on top of `IInv`.
`CheckPromise` compares the outcomes of two calls that read the project separately, in
stages of their own, and so is far from inductive: it says nothing of a call before
its end. `AllConsistent` therefore says of each call by itself, at every stage, what the
call has found out about the project's files. `CheckKept`: a `check` that has
counted no complaint has looked at every category behind it (`Behind`), and what the
category is about holds of the files (`Fact`). `CompileKept`: a compilation that has
failed with one of the complaints of `check` is one of an app whose files were not all
good (`Promised`), and one that still runs on good files has an index, parts,
references and rules with nothing in them to complain of. `ProgramKept`: what its
child can be. `ArtifactKept`: a child is started only for an artifact that can be read.
`CheckedPromise` joins both ends: all facts of a finished `check`
together are `Promised`. Each stage has a lemma of its own (`...Consistent`) that compares
the operator of `check` with the stages of `compile` that may raise its complaints;
`NextConsistent` adds that the steps of one call leave the others as they are.

That no target is missing takes an argument over the list of rules, since check looks
for all of them in the merged document and compile for each in the draft that the
earlier rules have left. `Stands` says of a rule that the draft has its target, and, if it
names an operationId, where the merged document had it; `TargetsKept` says it of all
rules that are still to be applied, with `TargetsStay` for each pair of them
(`RulesStand`). What check has found stands after the merge (`TargetsStand`) and the
authentication (`AuthLeaves`) and is the same for the rules with their references resolved
(`RulesStandResolved`); a rule whose target stands is not refused for a missing one
(`StandsPresent`); and a rule leaves everything it does not take away (`Leaves`,
`IdStays`), so that the next one stands (`StandsOn`, `RulesStandOn`).

- `Invariance`, `EnvRestored` (`EnvScoped`), `ProvenanceKept`
  (`ProvenanceMatches`), `ReferencesKept` (`ReferencesDeclared`), `LocalRulesKept`
  (`LocalRulesStayHome`), `PromiseKept` (`CheckPromise`).

**ProjectPipeline_proofs** (assumptions: `DefinitionsAssumption`, what a YAML parser
and a sort give: the keys of a mapping are different, the apps of every definition are
names of the alphabet, rules and moves are lists; and `TypesAssumption`, that four
tables of the source agree: the domains by Terraform type
(`pilot/src/extensions/idl.ts:10`) differ and none is that of the objects of a bucket,
and the domain an artifact type is known under
(`pilot/src/contracts/resource-domain.ts:26`) is that of the resource its materializer
creates (`composer/src/builder/artifact.ts:37`, `materializers-core/src/catalog.ts`)).
`BuildOrder` compares the orders the code computes with a relation, `Acceptable`, that
knows nothing of a search: no unknown app, and nobody in every set that is closed
under what its members depend on. Induction over numbers is `EveryNumber`: a set of
numbers that holds 0 and with every number the next has them all, since the complement
would have a least member; it takes a set where the library's theorems take an
operator.

- The search (`BuildDependsOnGraph`) is followed step by step. `Sound` is its
  invariant: the gray nodes are those on the stack, the black ones those in the result; a
  frame stands above the one whose edge has led to it; an edge that was followed leads to
  a finished node or to the frame above, or a cycle was found; the result is ordered; and
  what is reported as a cycle is one (`GrayCircle`: from the gray target up the stack
  and back). Every step keeps it and does one piece of the finite set `Work` that was not
  done before (`StepSound`, `Advances`), so the fuel, the number of pieces, is enough
  (`SearchEnds`).
- `OrderTopological`: without errors the result has every app once, after all it
  depends on. `TopologicalIndependent`: what stands before a place in such an order
  is closed, so nobody depends on itself or on a later app. `CircleRefuted`: no closed
  set leaves out a member of a circle. Together they are `GraphDecided`: the graph is
  refused if and only if it is not `Acceptable`.
- `SomeReady`: while an app is left, the first of them in the order of the loader
  is ready. So `deterministicOrder` never ends early: `MaterializedInOrder`.
- `IInv` carries this through the commands: a model that was loaded has a topological
  order (`Loaded`), what is still to do of it is in order (`Sorted`), also with
  `--target`, and a command that reports one of the codes of the graph, with no
  edit since, is right (`RefusedForGraph`). The last part needs that nobody else reports
  these codes: the lemmas `...Foreign`, one for each source of errors.
- `OrderedBuilds` (`BuildOrder`).

What is generated stands on `IInv` and on two more invariants.

- `GInv` follows the resources to the files. While apps are materialized, each has a
  product or is still to do (`Collected`); the files to write are those of the products
  (`Exact`), and while they are written each is there or still to do (`Pending`), so
  that `RemoveStale` leaves exactly them. The lemmas before it are one for each of the
  helpers: what one rule merges (`MergedIs`), what all of them make of a list
  (`PatchedByRule`, `RulesApplied`), who owns an address (`OwnerIs`), what the regrouping
  keeps (`GroupedIs`) and where an address is serialized (`SerializedIs`,
  `FiledExactly`).
- `GeneratedWhenApart` (`GeneratedExactly`) has the condition `Apart`: no two resources
  of the generation have one address, and no app has the name of one of the two other
  files. Without the first the code loses a resource, which `project_lost_object`
  shows; without the second the file of an app called `moved` and the one of the moves are one.
- `RInv` follows the references. What an artifact refers to is an app of the model
  or a declared resource (`RefsIn`), also in the store, which earlier commands have
  filled; each app that can be referred to has, once materialized, the resource of that address
  (`Stands`, by `TypesAssumption`); every output that was declared belongs to a product
  (`Matched`, `DeclaredIs`); and the files hold the address of every product, and of
  everything an output is read from (`Whole`). It needs no `Apart`: of two resources
  with one address one is kept, and the address with it.
- `NothingEverDangles` (`NothingDangles`) has the condition `NamesFree`: an app cannot
  be called `moved` (that it cannot be called `99-ycsf-outputs` is what the pattern for
  ids says, `pilot/src/model/apps.ts:19`).

The moves need one more invariant.

- `MInv` says of the file of moves that its blocks have one source and one destination
  each and lead to addresses of the generation (`Led`), where it is collected, written and
  kept. The lemmas follow `BuildMoves`. A history that is accepted is a finite
  injective partial function on endpoints (`Mapped`, entry by entry with `EveryNumber`:
  `OneEntryMore`, `ValidIs`). So the chain from a source never returns to an
  endpoint (`PathApart`), its length is enough for it to end, and it ends at an endpoint of
  the generation (`ChainIs`). Each address that is changed is left once and reached once
  (`ChangesApart`), over all chains, so the blocks are unambiguous (`BlocksUnambiguous`).
  Whoever follows them has one change less ahead with each step (`AheadLess`) and stops
  where the chain ends (`TrailEnds`, `BlocksLead`).
- `MovesAlwaysLead` (`MovesLead`) has the conditions `NamesFree` and `HistoriesPlain`: in
  every history there is one object at most at an address, whose logical name may change
  in place. Without the latter the code accepts a history that leaves an address twice or
  comes back to it, and the blocks are ambiguous (section 7).

That a check agrees needs one more again.

- `CInv` says that the files of a whole generation agree with the project as long as nobody
  edits it (`Agrees`): a check that reads them has nothing to say of the rules, the outputs
  and the moves. It holds from where the files are collected, and carries what `materialize` has
  accepted over to another command, which may run after others have failed. The
  lemmas before it compare what both commands look at. `check` reads a list of the files'
  resources, in an order of its own and with no more than addresses and settings (`ReadIs`,
  `ListingIs`); its logical names include those of the products (`ReadNames`), and none
  is there twice (`ReadApart`), since a resource that can be addressed has the name of
  its app (`MaterializedNamed`) and is therefore in one file alone. Without that the
  same address in two files would be reported, which `materialize` never looks for when there
  are no rules. So both apply the same checks to the same names (`RulesAgree`,
  `OutputsAgree`, `MovesAgree`).
- `ChecksAgree` (`CheckAgrees`) has the condition `NamesFree`.

Only model-checked:

- Liveness (`CallsSettle`, `EveryMessageSettles`, `DispatchEnds`, `CommandEnds`,
  `StopEnds`, `CallsEnd`): fairness and ENABLED are beyond the prover. Every invariant and
  every action property of the runs is a theorem.

No module declares a RECURSIVE operator: recursion is by recursive functions and
folds. Guards that are alternatives in the code are chains of IF where they
overlap, never cases of one CASE: TLC takes the first that holds, while the
meaning of CASE, and with it every proof, would leave the choice open.

## 7. Where code and documentation disagree

Those with a run:

| Run, property | Code | Says |
|---|---|---|
| `deployment_orphan`, `NoOrphan` | the timer looks at `child.killed`, true since SIGTERM was sent, and never sends SIGKILL (`terraform.ts:80`) | comment at 71, `specs/021-ycsf-cli/data-model.md:224` |
| `project_lost_object`, `NoTypeCollision` | the bucket materializer names an object after its sanitized file name (`materializers-core/src/yandex-storage-bucket/index.ts:66`), so that `a-b.js` and `a_b.js` have one address and one of them is lost | comment at `pilot/src/materialize/serialize.ts:39` |

The following are found by TLC when the named definition is the only property of
the configuration with the values given. "One app" is `Apps <- OneApp`,
`DependsOn <- DependsOne`, `Order <- OrderOne`, `Source <- SourceOne`; "full
builds" is `Targets = {AllApps}`,
`NoCacheFlags = {FALSE}`.

| Definition | Configuration | Code | Says |
|---|---|---|---|
| `OneApplication` | `connector` with `SPECIFICATION Spec`, `Invocations = {i1, i2, i3}`, `Closers = {c1}` | the `.catch` of an old cold start clears a promise that by now belongs to a newer one (`create-yandex-handler.ts:133`) | concurrent cold starts share one initialisation |
| `UndecodableNotAcked` | `queue_modes` with `Messages = {m1, m2}`, `Invocations = {i1}`, `Handlers <- OneHandler`, `Degrading = {i1}`, `Throwing = {}`, `Undecodable = {m1}`, `Malformed = {}`, `Faults = {}` | the payload is decoded lazily, inside the try of its message (`dispatch.ts:281`) | a payload that does not deserialise fails the invocation (comment at 264, spec 005, FR-005) |
| `ResolvedInMessageScope` | the same | the degrade path resolves handlers before it enters the scope (`dispatch.ts:275`) | comment at 221 |
| `WholeChainSettled` | `http` | the catch block does not await the continuation (`dispatch-pipeline.ts:260`), and nobody awaits one that a callback has started (257) | comment at 237 |
| `HitIsComplete` | `cache`, one app, full builds, `Faults = {"copy"}`, `MaxDisturbances = 1` | a failing `cp` counts as a missing directory (`cache/blobs.ts:34`) | spec 022, FR-026, FR-010 |
| `HitIsComplete` | `cache`, one app, `Targets = {AllApps}`, `Faults = {"crash"}`, `MaxDisturbances = 1` | a blob is overwritten in place, so a crash leaves a descriptor over torn files (`cache/blobs.ts:33`) | blobs are written atomically (spec 022, FR-003) |
| `SymlinkMisses` | `cache`, one app, full builds, `Symlinked = {"lib"}`, `Faults = {}` | a constant stands for the hash of a source that cannot be hashed (`build/index.ts:196`) | such an app is always built |
| `BlobHoldsItsBuild` | `cache`, one app, full builds, `HashedNames = {"lib"}`, `Faults = {}` | the output directory is never cleared, old files are cached along (`build/index.ts:327`) | spec 022, S-1 |
| `TargetSeesDependencies` | `cache` with `Targets = {AllApps, "api"}`, `NoCacheFlags = {FALSE}`, `Faults = {}`, `MaxDisturbances = 1` | the fingerprint of a dependency comes from the manifest (`build/index.ts:223`) | spec 022, US4 |
| `MissingDependencyMisses` | the same with `Targets = {"api"}` | a constant stands for the missing hash and matches itself (`build/index.ts:227`) | comment at 225, FR-008 |
| `DependencyMissPropagates` | `cache`, full builds, `Faults = {"purge"}` | a dependency built again for a lost blob leaves its dependents hits | FR-012 |
| `FreshArtifacts` | `cache`, full builds, `Faults = {"edit"}`, `MaxDisturbances = 2` | sources are hashed first and read again by the builder (`build/index.ts:193`) | the cache ensures fresh artifacts (spec 022, S-4) |
| `OtherEntriesKept` without `~run.noCache` | `cache` | `--target --no-cache` starts from an empty manifest and saves it (`build/index.ts:237`) | spec 022, S-4 |
| `TargetKeepsOthers` | `deployment_orphan` with `MaxInterrupts = 0` | `materialize --target` removes the generated files of the other apps as stale (`write.ts:57`) | spec 014, FR-015 |
| `ConfirmedDestroyEnds` | `deployment` with `MaxInterrupts = 0` | Terraform's standard input is a pipe nobody writes to or closes (`terraform.ts:54`), and without `--yes` it asks | `stdio: 'inherit'` and `Exit 0` after a confirmation (`data-model.md:218`, `:244`) |

The models follow the code in the points below as well; they were met when
reading it and no property states them.

Project pipeline:

- Objects of two buckets may share an address too (`web` with `b/c.js`, `web_b`
  with `c.js`), and the site's `artifact.json` is published with it.
- An app called `moved` has its generated file overwritten by that of the moves
  (`moves/build.ts:14`): only names of apps are compared with each other.
- An `outputs.yaml` that is missing or invalid silently drops the outputs of
  materializers, an invalid `moved.yaml` is skipped (`cli/pipeline.ts:96-132`; spec
  017, FR-003, FR-004).
- A move away from an endpoint that is still declared is accepted, and domains
  and types that do not belong together give blocks with one source and two
  destinations (`moves/build.ts:30`).
- Apps with a capital letter in their id can be built and materialised, but no
  extension, output or move can name them.
- `materialize` reads the store of every directory, apps that were removed
  included; one without a descriptor fails the command. Companion files are
  written although a later app fails.
- After an edit an old store may hold references to resources that are no longer
  generated; `ReferencesResolve` is therefore about projects without edits.
- Moves are written hop by hop, not collapsed (spec 017, FR-012, SC-002).
- The line numbers of diagnostics for `extensions.yaml`, `outputs.yaml` and
  `builders.yaml` are one too large.
- `check` does not follow chains of moves, ignores plugins that do not load, and
  its command reads `.ycsf` where materialize writes to `infra` (`specs/021`,
  `tasks.md:136`; `specs/020`, `spec.md:291`).

Composer:

- After `replace path` and `replace operation` the index of operationIds still
  names what was replaced (`apply.ts:209-283`; spec 008, line 93).
- A global `add operation` on an app's path makes the path global, and the app's
  own rules for it are out of scope from then on (`apply.ts:236`; spec 008, FR-008).
- A malformed `${resources...}` is passed on by compile without a word while check
  reports it; a template of the wrong domain is kept and not collected.
- Overrides may name security schemes nobody declares, or remove one in use.
- `check` looks for the targets of all rules in the merged document, before the first
  rule is applied (`cli/check.ts:332-364`); compile looks for each after the rules
  before it (`overrides/apply.ts:158-209`). With `remove path /a` followed by `replace
  path /a`, or a local rule that names what a global one has removed, check exits
  with 0 and compile fails with `OVERRIDE_TARGET_MISSING`. The project `targetTaken` of
  the run `composer` is of this kind, and `CheckPromise` excepts it by `TargetsStay`.
- `check` (spec 010) reports `add` rules for new targets as missing, does not look
  into the values of overrides, takes no identities of other apps, validates
  `auth.yaml` against an empty document, looks for `dist/main(.js)` only and for
  duplicates within one app only, and in the env-only mode does not read the
  overrides, which compile then may refuse. Neither does it ask for the variables that
  references are resolved from, nor judge the security of operations, the scope of
  rules, targets that exist already or names of security schemes. `CheckPromise`
  is about what is left (`CheckedCodes`, `LooksAtTheSame`).
- The runner scans every line of the child's standard error, at most 1 MiB of it,
  where its comment speaks of the last (`spawn-runner.ts:45`); a process the
  program leaves behind with the pipes open turns a finished extraction into a
  timeout.
- A builder call without `build_config.yaml` fails although `swagger.json` exists;
  `add info` always fails in compile; a gateway in `openapi/` takes the global
  overrides for its own.

Connector and development server:

- A handler argument of a route with two spellings of one header gets the last
  (spec of the server, FR-011); a port that is taken after the probe gives a raw
  error (`create.ts:94-110`, FR-004); a second `stop()` returns before the first
  has finished (`create.ts:121`).
- An envelope that fails half way leaves its headers in the error response.
- Any error with a string `code` is taken for one of the connector's when it is
  logged; a BigInt in a record makes the logger throw (FR-013).
- A route for `/files/*` matches `/files`, a middleware mounted there does not.

## 8. What is not modelled

- Builders: calls of esbuild, npm, docker and vite with little of their own in
  between. In every model a build is one step that may fail.
- What a source with a symlink is built with: its configuration, environment and builder,
  which the code hashes beside the name of the app (`build/index.ts:196-209`), do not
  change in `BuildCache`.
- An `application.close()` of NestJS that rejects (`create-yandex-handler.ts:227`):
  section 5 assumes that it resolves. The cache is empty by then, and the error is that
  of the call of `close()`.
- Terraform asks a question only under `destroy`; `init`, `plan` and `apply` are spawned
  without `-input=false` as well (`terraform.ts:54`), and one that asks for a variable
  would wait as `destroy` may. That `destroy` refuses a directory that does not
  exist (`destroy.ts:59`) is left out.
- Strings in the value of an override other than the reference of an operation or a
  security scheme, those of an info rule among them (`load-overrides.ts:78`), and the
  underscore before a file name that starts with a digit (`filename.ts:18`).
- Handlers, guards and entry programs are the users' code: a nondeterministic
  process in `HttpDispatch` and `QueueDispatch`, a short program in `HttpEdge` and
  `Composer`.
- AsyncLocalStorage and the wording, levels and fields of log records: only
  whether an invocation ends with one terminal record is (`OneTerminalRecord`).
- Two builds or two commands of `pilot` at once in one project: the specification
  excludes the first (spec 022, S-3); the shared `manifest.json.tmp`
  (`cache/manifest.ts:41`) would need them.
- Draining: `close()` does not wait for running invocations, and the documentation
  leaves that to the caller. So that an application is shut down under them is a
  hazard without a property, as is an application whose `init()` fails after
  `create()` succeeded: nobody closes it, and nothing observes it.
- Two apps with one `source_path` and the same configuration share a fingerprint
  and with it a blob, and no fingerprint covers the identities that a composed
  specification is built with (`build/index.ts:246`). `BuildCache` can be
  instantiated with such a `Source`; that the second app then gets the artifact
  of the first follows from the fingerprint alone.
- What Terraform makes of a configuration, the syntax of YAML and JSON, the texts of
  diagnostics, signatures of requests to the queue, and the token service beyond
  whether it answers.
