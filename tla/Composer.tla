------------------------------ MODULE Composer ------------------------------
(***************************************************************************)
(* Calls of the composer on one project: the builder and `compile`, which  *)
(* compile one gateway app (compile-core.ts), compose(), which merges      *)
(* several, and `check`. Each call is a sequence of stages; two calls of   *)
(* one process interleave where the code awaits, share the environment     *)
(* variable SERVERLESS_TOOLS_OPENAPI_BUILD, and each may run an entry      *)
(* module in a child process with a timeout (runner/spawn-runner.ts).      *)
(* Documents, rules and references are those of Composition. The files of  *)
(* the project do not change while the calls run.                          *)
(***************************************************************************)
EXTENDS Naturals, Composition

CONSTANTS Jobs,         \* calls
          Projects,     \* the projects, a function from names to records of their
                        \* files, with the calls that may be made
          Environment   \* the environment variables that are set

VARIABLES
  project,    \* the files of the project: [resources, env, global, auth, apps, calls]
  job,        \* the calls
  child,      \* the runner process of each call
  flag,       \* SERVERLESS_TOOLS_OPENAPI_BUILD is "1"
  before,     \* its value before the first call
  scope       \* envScopeDepth and envScopeWasSetBefore

vars == <<project, job, child, flag, before, scope>>

-----------------------------------------------------------------------------
(* Calls. A request is [kind, app, apps, entry, envOnly, identities,         *)
(* functions, path]; an app of a project is [config, artifact, program, doc, *)
(* auth, overrides, openapiDir].                                             *)

Stages == [build   |-> <<"index", "source", "auth", "merge", "overrides", "rules", "resolve">>,
           compile |-> <<"index", "source", "auth", "merge", "overrides", "rules", "resolve">>,
           compose |-> <<"source", "auth", "index", "merge", "overrides", "rules", "info", "resolve">>,
           check   |-> <<"index", "sources", "auth", "conflicts", "refs", "targets">>]

FileForms == {"absent", "broken", "ok"}

Programs == {"absent", "returns", "returns and leaves a child", "returns nothing", "exits 0",
             "returns too much", "fails to load", "throws", "fails to load after much logging",
             "hangs"}

\* The documents, rules and schemes are well formed; the builder is called for an
\* app of the project, and compose() with apps of the project. The command line
\* gives no entry, and its calls know no sibling apps.
ASSUME ProjectsAssumption ==
  \A n \in DOMAIN Projects :
    /\ IsRuleList(Projects[n].global.rules)
    /\ \A a \in DOMAIN Projects[n].apps :
         /\ IsDocument(Projects[n].apps[a].doc)
         /\ IsRuleList(Projects[n].apps[a].overrides.rules)
         /\ Projects[n].apps[a].auth.schemes \in Seq(Range(Projects[n].apps[a].auth.schemes))
         /\ Projects[n].apps[a].artifact \in FileForms
         /\ Projects[n].apps[a].program \in Programs
    /\ \A r \in Projects[n].calls :
         /\ r.kind \in DOMAIN Stages
         /\ r.kind = "build" => r.app \in DOMAIN Projects[n].apps
         /\ r.kind = "compose" => r.apps \in Seq(DOMAIN Projects[n].apps)
         /\ r.kind # "compose" => r.apps = <<>>
         /\ r.kind \in {"compile", "check"} => r.entry = "none" /\ r.identities = <<>>

\* An info that is not given is not the one that a compilation puts for it.
ASSUME NoneAssumption == none # "undefined"

IdleRequest == [kind |-> "check", app |-> none, apps |-> <<>>, entry |-> "none", envOnly |-> FALSE,
                identities |-> <<>>, functions |-> none, path |-> "ok"]

EmptyDoc == [version |-> "3", info |-> none, security |-> {}, paths |-> <<>>, components |-> <<>>]

Idle == [pc |-> "idle", req |-> IdleRequest, app |-> none, index |-> {}, mode |-> "compose",
         variable |-> <<>>, parts |-> <<>>,
         draft |-> [doc |-> EmptyDoc, owner |-> <<>>, ids |-> <<>>],
         rules |-> <<>>, failed |-> {}, code |-> "none", exit |-> 0, refs |-> {}]

NoChild == [state |-> "off", program |-> "absent"]

Init ==
  /\ \E n \in DOMAIN Projects : project = Projects[n]
  /\ job = [j \in Jobs |-> Idle]
  /\ child = [j \in Jobs |-> NoChild]
  /\ flag \in BOOLEAN /\ before = flag
  /\ scope = [depth |-> 0, wasSet |-> FALSE]

Compiles(kind) == kind \in {"build", "compile"}

EnterEnvScope ==
  /\ scope' = [depth |-> scope.depth + 1, wasSet |-> IF scope.depth = 0 THEN flag ELSE scope.wasSet]
  /\ flag' = TRUE

\* Mutant: the first call that ends takes the variable away.
LeaveEnvScopeAtOnce ==
  /\ scope' = [scope EXCEPT !.depth = @ - 1]
  /\ flag' = scope.wasSet

LeaveEnvScope ==
  /\ scope' = [scope EXCEPT !.depth = @ - 1]
  /\ flag' = IF scope.depth > 1 THEN flag ELSE scope.wasSet

StageAfter(kind, stage) ==
  LET s == Stages[kind]
      i == CHOOSE i \in DOMAIN s : s[i] = stage
  IN  IF i = Len(s) THEN "done" ELSE s[i + 1]

\* The call goes on with the stage after its own, or ends.
Continue(j, c) ==
  LET next == StageAfter(c.req.kind, c.pc)
  IN  /\ job' = [job EXCEPT ![j] = [c EXCEPT !.pc = next]]
      /\ IF next = "done" /\ Compiles(c.req.kind) THEN LeaveEnvScope ELSE UNCHANGED <<flag, scope>>
      /\ UNCHANGED <<project, before>>

InputCodes == {"NO_GATEWAY_APPS", "MULTIPLE_GATEWAY_APPS", "GATEWAY_APP_NOT_FOUND",
               "BUILD_CONFIG_MISSING_ENTRY"}

\* The exit code of the command line: `check` turns 3 into 2.
ExitCode(kind, stage, code) ==
  CASE code \in InputCodes -> 2
    [] code \in RefCodes /\ stage # "index" -> 1
    [] OTHER -> IF kind = "check" THEN 2 ELSE 3

Ended(c, code) == [c EXCEPT !.code = code, !.exit = ExitCode(c.req.kind, c.pc, code), !.pc = "done"]

\* The call ends with an error.
Reject(j, c, code) ==
  /\ job' = [job EXCEPT ![j] = Ended(c, code)]
  /\ IF Compiles(c.req.kind) THEN LeaveEnvScope ELSE UNCHANGED <<flag, scope>>
  /\ UNCHANGED <<project, before>>

-----------------------------------------------------------------------------
(* Before the first stage                                                   *)

\* selectGatewayApp: the app of the command line.
Select(apps, app) ==
  IF apps = {} THEN "NO_GATEWAY_APPS"
  ELSE IF app = none /\ Cardinality(apps) > 1 THEN "MULTIPLE_GATEWAY_APPS"
  ELSE IF app # none /\ app \notin apps THEN "GATEWAY_APP_NOT_FOUND"
  ELSE "none"

\* What the call says of itself: its source path, its entry, its apps.
StartCode(r) ==
  CASE r.kind = "build" ->
         (IF r.path = "unset" THEN "SOURCE_PATH_MISSING"
          ELSE IF r.entry = "invalid" THEN "OPENAPI_ENTRY_INVALID"
          ELSE IF r.path = "missing" THEN "SOURCE_PATH_INVALID"
          ELSE "none")
    [] r.kind = "compose" ->
         IF r.apps = <<>> \/ Cardinality(Range(r.apps)) # Len(r.apps)
         THEN "COMPOSE_NO_PARTICIPANTS" ELSE "none"
    [] OTHER -> Select(DOMAIN project.apps, r.app)

StartJob(j) ==
  \E r \in project.calls :
    LET app  == IF r.app = none /\ r.kind # "compose" /\ DOMAIN project.apps # {}
                THEN CHOOSE a \in DOMAIN project.apps : TRUE ELSE r.app
        c    == [Idle EXCEPT !.req = r, !.app = app, !.pc = Stages[r.kind][1]]
        code == StartCode(r)
    IN  /\ job[j].pc = "idle"
        /\ job' = [job EXCEPT ![j] = IF code = "none" THEN c ELSE Ended(c, code)]
        /\ IF code = "none" /\ Compiles(r.kind) THEN EnterEnvScope ELSE UNCHANGED <<flag, scope>>
        /\ UNCHANGED <<project, child, before>>

-----------------------------------------------------------------------------
(* The index                                                                 *)

At(j, stage) == job[j].pc = stage /\ UNCHANGED child

\* resources.yaml, env.yaml and the identities of the siblings; compose()
\* reads env.yaml later and knows no identities.
ReadIndex(j) ==
  LET c      == job[j]
      read   == ParseResourceIndex(project.resources)
      env    == ParseEnvMapping(project.env, read.index)
      merged == MergeResourceIndex(read.index, c.req.identities)
      code   == IF c.req.kind = "compose" THEN read.code
                ELSE FirstCode(<<read.code, env.code, merged.code>>)
  IN  /\ At(j, "index")
      /\ IF code # "none" THEN Reject(j, c, code)
         ELSE Continue(j, [c EXCEPT !.index = IF c.req.kind = "compose" THEN read.index ELSE merged.index,
                                    !.mode = IF c.req.envOnly THEN "env-only"
                                             ELSE IF c.req.kind = "compose" THEN "compose" ELSE env.mode,
                                    !.variable = IF c.req.kind = "compose" THEN <<>> ELSE env.variable])

-----------------------------------------------------------------------------
(* The source of a document                                                 *)

Document(doc)   == [kind |-> "document", code |-> "none", doc |-> doc]
Failure(code)   == [kind |-> "failure", code |-> code, doc |-> EmptyDoc]
Run             == [kind |-> "run", code |-> "none", doc |-> EmptyDoc]

\* extractOpenApi without an entry: the artifact, else dist/main.
Extract(app) ==
  IF app.artifact = "ok" THEN Document(app.doc)
  ELSE IF app.artifact = "broken" THEN Failure("INVALID_ARTIFACT")
  ELSE IF app.program # "absent" THEN Run
  ELSE Failure("NO_SOURCE")

\* openapi_entry: the file that it names, else it is run.
ExtractEntry(entry, app) ==
  CASE entry = "file" /\ app.artifact = "ok"     -> Document(app.doc)
    [] entry = "file" /\ app.artifact = "broken" -> Failure("OPENAPI_ENTRY_INVALID")
    [] OTHER -> Run

ConfigCode(config) ==
  CASE config = "absent"  -> "BUILD_CONFIG_NOT_FOUND"
    [] config = "broken"  -> "BUILD_CONFIG_PARSE_ERROR"
    [] config = "invalid" -> "BUILD_CONFIG_MISSING_ENTRY"
    [] OTHER -> "none"

Placeholder(name) == [EmptyDoc EXCEPT !.info = name]

\* The app whose document the call wants next.
Wanted(c) == IF c.req.kind = "compose" THEN c.req.apps[Len(c.parts) + 1] ELSE c.app

Source(c) ==
  LET app   == project.apps[Wanted(c)]
      entry == IF c.req.entry # "none" THEN c.req.entry ELSE app.config
  IN  IF ~Compiles(c.req.kind) THEN Extract(app)
      ELSE IF c.mode = "env-only" THEN Document(Placeholder(c.app))
      ELSE IF c.req.entry = "none" /\ ConfigCode(app.config) # "none" THEN Failure(ConfigCode(app.config))
      ELSE IF entry \in {"file", "module"} THEN ExtractEntry(entry, app)
      ELSE Extract(app)

-----------------------------------------------------------------------------
(* What a call does with a document. `check` looks three times and counts   *)
(* what it does not like; the others take the document into their parts.    *)

CheckConflicts(doc) == OperationIdTwice(<<[app |-> none, doc |-> doc]>>)

FieldRefs(doc) ==
  (UNION {{doc.paths[p][m].ref : m \in DOMAIN doc.paths[p]} : p \in DOMAIN doc.paths})
  \cup (UNION {{doc.components[s][n].ref : n \in DOMAIN doc.components[s]} :
                  s \in DOMAIN doc.components})

CheckReferences(doc, index) == \E v \in FieldRefs(doc) : ValidateResourceReference(v, index) # "none"

OverrideFiles(p, app) ==
  IF p.apps[app].openapiDir /\ p.global.form = "ok" THEN <<>> ELSE <<p.global>>

\* The rules of the global file and those of the app, each with its owner.
RulesOf(p, files, app) ==
  FlattenSeq([i \in DOMAIN files |-> [k \in DOMAIN files[i].rules |->
                [rule |-> files[i].rules[k], app |-> none]]])
  \o [k \in DOMAIN p.apps[app].overrides.rules |->
        [rule |-> p.apps[app].overrides.rules[k], app |-> app]]

\* A target is looked for in the document as it is before the first rule.
Exists(draft, rule) ==
  CASE rule.kind = "info" -> TRUE
    [] rule.kind = "operationId" -> rule.id \in DOMAIN draft.ids
    [] OTHER -> Present(draft.doc, ResolveTarget(draft, rule))

\* Mutant: the targets of the app's own rules are not looked for.
CheckTargetsGlobally(p, app, doc) ==
  LET parts == <<[app |-> app, doc |-> doc]>>
  IN  \/ "broken" \in {p.global.form, p.apps[app].overrides.form}
      \/ OperationIdTwice(parts)
      \/ \E draft \in {MergeDocuments(parts, doc.info)} :
           \E r \in Range(RulesOf(p, OverrideFiles(p, app), app)) :
             r.app = none /\ ~Exists(draft, r.rule)

CheckTargets(p, app, doc) ==
  LET parts == <<[app |-> app, doc |-> doc]>>
  IN  \/ "broken" \in {p.global.form, p.apps[app].overrides.form}
      \/ OperationIdTwice(parts)
      \/ \E draft \in {MergeDocuments(parts, doc.info)} :
           \E r \in Range(RulesOf(p, OverrideFiles(p, app), app)) : ~Exists(draft, r.rule)

Dislikes(c, doc) ==
  CASE c.pc = "conflicts" -> CheckConflicts(doc)
    [] c.pc = "refs"      -> CheckReferences(doc, c.index)
    [] c.pc = "targets"   -> CheckTargets(project, c.app, doc)

\* The exit code of `check` when all categories are through.
Count(c, bad) ==
  LET failed == IF bad THEN c.failed \cup {c.pc} ELSE c.failed
  IN  [c EXCEPT !.failed = failed,
                !.exit = IF "sources" \in failed THEN 2 ELSE IF failed # {} THEN 1 ELSE 0]

Take(j, got) ==
  LET c     == job[j]
      parts == Append(c.parts, [app |-> Wanted(c), doc |-> got.doc])
  IN  IF c.req.kind = "check" THEN
             Continue(j, Count(c, got.kind = "failure" \/ Dislikes(c, got.doc)))
      ELSE IF got.kind = "failure" THEN Reject(j, c, got.code)
      ELSE IF Len(parts) < Len(c.req.apps) THEN
             /\ job' = [job EXCEPT ![j].parts = parts]
             /\ UNCHANGED <<project, flag, before, scope>>
      ELSE Continue(j, [c EXCEPT !.parts = parts])

Extracting == {"source", "conflicts", "refs", "targets"}

Obtain(j) ==
  /\ job[j].pc \in Extracting /\ child[j].state = "off"
  /\ \E got \in {Source(job[j])} :
       \/ /\ got.kind = "run"
          /\ child' = [child EXCEPT ![j] = [state   |-> "running",
                                           program |-> project.apps[Wanted(job[j])].program]]
          /\ UNCHANGED <<project, job, flag, before, scope>>
       \/ got.kind # "run" /\ Take(j, got) /\ UNCHANGED child

-----------------------------------------------------------------------------
(* The runner process and its timer                                         *)

\* What the runner does with a program and what the parent reads of it: the
\* marker on stderr is lost behind a megabyte of logging, a result of more
\* than eight megabytes is cut.
Verdict(program) ==
  CASE program \in {"returns", "returns and leaves a child"} -> "none"
    [] program \in {"returns nothing", "exits 0", "returns too much"} -> "ENTRY_RETURNED_INVALID"
    [] program \in {"absent", "fails to load"} -> "ENTRY_LOAD_FAILED"
    [] program \in {"throws", "fails to load after much logging"} -> "ENTRY_EXECUTION_FAILED"

SpawnFails(j) ==
  /\ child[j].state = "running"
  /\ child' = [child EXCEPT ![j] = NoChild]
  /\ Take(j, Failure("RUNNER_SPAWN_FAILED"))

ChildExits(j) ==
  /\ child[j].state = "running" /\ child[j].program # "hangs"
  /\ child' = [child EXCEPT ![j].state = "exited"]
  /\ UNCHANGED <<project, job, flag, before, scope>>

\* The event close: the process is gone and nobody holds its pipes.
ChildCloses(j) ==
  LET code == Verdict(child[j].program)
  IN  /\ child[j].state = "exited" /\ child[j].program # "returns and leaves a child"
      /\ child' = [child EXCEPT ![j] = NoChild]
      /\ Take(j, IF code = "none" THEN Document(project.apps[Wanted(job[j])].doc) ELSE Failure(code))

\* Mutant: the timer kills the process and leaves the rest to its close event.
TimeoutKills(j) ==
  /\ child[j].state \in {"running", "exited"}
  /\ child' = [child EXCEPT ![j] = [state |-> "exited", program |-> IF @.program = "hangs" THEN "throws" ELSE @.program]]
  /\ UNCHANGED <<project, job, flag, before, scope>>

\* The timer kills the process and fails the extraction; what the process
\* still does finds done set.
Timeout(j) ==
  /\ child[j].state \in {"running", "exited"}
  /\ child' = [child EXCEPT ![j] = NoChild]
  /\ Take(j, Failure("ENTRY_TIMEOUT"))

-----------------------------------------------------------------------------
(* auth.yaml, and the presence of the sources in `check`                    *)

FindSources(j) ==
  LET c == job[j]
      present(app) ==
        IF ConfigCode(app.config) # "none" THEN FALSE
        ELSE IF app.config = "file" THEN app.artifact # "absent"
        ELSE IF app.config = "module" THEN app.program # "absent"
        ELSE app.artifact # "absent" \/ app.program # "absent"
  IN  /\ At(j, "sources")
      /\ Continue(j, Count(c, c.mode # "env-only"
                                /\ \E a \in DOMAIN project.apps : ~present(project.apps[a])))

\* compose() reads the auth.yaml of the project, the others that of the app.
AuthOf(c) == IF c.req.kind = "compose" THEN project.auth ELSE project.apps[c.app].auth

AuthCode(c) ==
  LET functions == IF c.req.kind = "compose" THEN c.req.functions ELSE Names(c.index, "functions")
      doc(i)    == IF c.req.kind = "check" THEN EmptyDoc ELSE c.parts[i].doc
      first     == ValidateAuthConfig(AuthOf(c), doc(1), functions)
  IN  IF first # "none" \/ c.req.kind = "check" THEN first
      ELSE FirstCode([i \in DOMAIN c.parts |-> ValidateSecurityReferences(doc(i), AuthOf(c))])

\* In the env-only mode `check` skips the rest.
CheckAuth(j) ==
  LET c    == job[j]
      code == AuthCode(c)
      all  == Count(c, code # "none")
  IN  /\ At(j, "auth")
      /\ CASE c.req.kind # "check" /\ code # "none" -> Reject(j, c, code)
           [] c.req.kind = "check" /\ c.mode = "env-only" -> Continue(j, [all EXCEPT !.pc = "targets"])
           [] c.req.kind = "check" /\ c.mode # "env-only" -> Continue(j, all)
           [] OTHER -> Continue(j, c)

-----------------------------------------------------------------------------
(* The document                                                             *)

\* In a compilation the key info is there even if the app has none.
InfoOf(c) ==
  IF c.req.kind = "compose" THEN none
  ELSE IF c.parts[1].doc.info = none THEN "undefined"
  ELSE c.parts[1].doc.info

Merge(j) ==
  /\ At(j, "merge")
  /\ LET c == job[j] IN
     IF MergeCode(c.parts) # "none" THEN Reject(j, c, MergeCode(c.parts))
     ELSE \E merged \in {MergeDocuments(c.parts, InfoOf(c))} :
            LET code == AuthApplyCode(merged, AuthOf(c), c.index)
            IN  IF code # "none" THEN Reject(j, c, code)
                ELSE Continue(j, [c EXCEPT !.draft = ApplyAuth(merged, AuthOf(c))])

Resolution(c) == [index |-> c.index, variable |-> c.variable, environment |-> Environment]

\* All files are read; a compilation resolves the values of the rules first.
LoadOverrides(j) ==
  LET c     == job[j]
      apps  == IF c.req.kind = "compose" THEN c.req.apps ELSE <<c.app>>
      files == IF c.req.kind = "compose" THEN <<project.global>> ELSE OverrideFiles(project, c.app)
      loaded == RulesOf(project, files, apps[1])
                \o FlattenSeq([i \in 1..Len(apps) - 1 |-> RulesOf(project, <<>>, apps[i + 1])])
      broken == \/ project.global.form = "broken"
                \/ \E a \in Range(apps) : project.apps[a].overrides.form = "broken"
      values == UNION {RuleRefs(r.rule) : r \in Range(loaded)}
      code   == IF broken THEN "OVERRIDE_FILE_INVALID_YAML"
                ELSE IF c.req.kind = "compose" THEN "none" ELSE ResolveCode(values, Resolution(c))
  IN  /\ At(j, "overrides")
      /\ IF code # "none" THEN Reject(j, c, code)
         ELSE Continue(j, [c EXCEPT !.rules =
                IF c.req.kind = "compose" THEN loaded
                ELSE [i \in DOMAIN loaded |-> [loaded[i] EXCEPT !.rule = ResolveRule(@, Resolution(c))]]])

\* applyOverrides, one rule at a time.
ApplyNextRule(j) ==
  LET c    == job[j]
      head == Head(c.rules)
      code == RuleCode(c.draft, head.rule, head.app)
  IN  /\ At(j, "rules") /\ c.rules # <<>>
      /\ IF code # "none" THEN Reject(j, c, code)
         ELSE /\ job' = [job EXCEPT ![j].rules = Tail(@),
                                    ![j].draft = ApplyRule(@, head.rule, head.app)]
              /\ UNCHANGED <<project, flag, before, scope>>

RulesApplied(j) == At(j, "rules") /\ job[j].rules = <<>> /\ Continue(j, job[j])

NeedInfo(j) ==
  LET c == job[j]
  IN  /\ At(j, "info")
      /\ IF c.draft.doc.info = none THEN Reject(j, c, "COMPOSE_INFO_MISSING") ELSE Continue(j, c)

\* compose() reads env.yaml here. A builder names the references it leaves.
Resolve(j) ==
  LET c == job[j]
      env  == ParseEnvMapping(project.env, c.index)
      d    == IF c.req.kind = "compose" THEN [c EXCEPT !.variable = env.variable] ELSE c
      code == IF c.req.kind = "compose" /\ env.code # "none" THEN env.code
              ELSE ResolveCode({b[3] : b \in BearerFields(c.draft.doc)}, Resolution(d))
      doc  == ResolveReferences(c.draft.doc, Resolution(d))
  IN  /\ At(j, "resolve")
      /\ IF code # "none" THEN Reject(j, c, code)
         ELSE Continue(j, [d EXCEPT !.draft.doc = doc,
                !.refs = IF c.req.kind = "build" THEN CollectResourceReferences(doc) ELSE {}])

-----------------------------------------------------------------------------
Step(j) ==
  \/ ReadIndex(j) \/ Obtain(j) \/ FindSources(j) \/ CheckAuth(j) \/ Merge(j)
  \/ LoadOverrides(j) \/ ApplyNextRule(j) \/ RulesApplied(j) \/ NeedInfo(j) \/ Resolve(j)

Next == \E j \in Jobs :
  \/ StartJob(j) \/ Step(j)
  \/ SpawnFails(j) \/ ChildExits(j) \/ ChildCloses(j) \/ Timeout(j)

\* A call that waits for no child can always take a step of its own.
Busy(j) == job[j].pc \notin {"idle", "done"} /\ child[j].state = "off"

Moves(j) == job'[j] # job[j] \/ child'[j] # child[j]

(* A settled await resumes: WF_vars(Step(j)), written with Busy(j) for its   *)
(* ENABLED. The timer of a running extraction fires in the end. Nothing says *)
(* that a program ends, that its pipes close, or that a call is made.        *)
Fairness == \A j \in Jobs : /\ []<>~Busy(j) \/ []<><<Moves(j)>>_vars
                           /\ WF_vars(Timeout(j))

Spec == Init /\ [][Next]_vars /\ Fairness

-----------------------------------------------------------------------------
(* Properties *)

Succeeded(c) == c.pc = "done" /\ c.code = "none"

Local(c) == c.pc = "rules" /\ c.rules # <<>> /\ Head(c.rules).app # none

(* What a local rule of call j does not change.                              *)
LocalRule(j) ==
  LET old == job[j].draft
      new == job'[j].draft
  IN  Local(job[j]) =>
        /\ [new.doc EXCEPT !.paths = <<>>] = [old.doc EXCEPT !.paths = <<>>]
        /\ \A p \in DOMAIN old.owner :
             old.owner[p] # Head(job[j].rules).app =>
               /\ new.owner[p] = old.owner[p]
               /\ new.doc.paths[p] = old.doc.paths[p]

(* A rule of an app's overrides.yaml leaves alone the paths that another app *)
(* or the project owns, the components, the security and the info of the     *)
(* document, however it names its target (isOutOfScope, applyRule).          *)
LocalRulesStayHome == [][\A j \in Jobs : LocalRule(j)]_vars

(* After every rule the provenance names an owner for exactly the paths of   *)
(* the document, and no operationId points to a path that is gone            *)
(* (updateOwnership, PathOwnership).                                         *)
ProvenanceMatches ==
  \A j \in Jobs :
    LET d == job[j].draft
    IN  /\ DOMAIN d.owner = DOMAIN d.doc.paths
        /\ \A id \in DOMAIN d.ids : d.ids[id].path \in DOMAIN d.doc.paths

(* What a document still refers to when the call has succeeded is declared,  *)
(* has no variable of env.yaml, and is in its canonical form; the references *)
(* that the artifact lists for the materializer are declared too             *)
(* (resolveReferences, collectResourceReferences).                           *)
ReferencesDeclared ==
  \A j \in Jobs :
    LET c == job[j]
    IN  Succeeded(c) /\ c.req.kind # "check" =>
          /\ c.refs \subseteq c.index
          /\ \A b \in BearerFields(c.draft.doc) :
               /\ b[3].form # "bare"
               /\ b[3].form = "template" =>
                    Identity(b[3]) \in c.index \ DOMAIN c.variable

\* What `check` looks at is what `compile` reads: the extraction ignores
\* openapi_entry and the values of the rules, and takes functions.x for a text.
LooksAtTheSame(app) ==
  /\ app.config = "empty"
  /\ \A v \in FieldRefs(app.doc) : v.form # "bare"
  /\ \A r \in Range(project.global.rules \o app.overrides.rules) :
       \A v \in RuleRefs(r) : v.form \notin {"bare", "template"}

\* What rule l names in the draft is gone, or is something else, after rule e:
\* e removes it, replaces the path it is in, changes the operationId that l
\* names, or gives that operationId to another operation.
TakesAway(draft, e, l) ==
  LET place(rule) == ResolveTarget(draft, rule)
  IN  \/ e.op = "remove" /\ place(e) = place(l)
      \/ e.kind = "path" /\ place(l).at = "operation" /\ place(l).in = e.path
      \/ /\ e.op # "remove" /\ e.kind \in {"operation", "operationId"} /\ l.kind = "operationId"
         /\ \/ e.value.id = l.id /\ place(e) # place(l)
            \/ e.kind = "operationId" /\ e.id = l.id /\ e.value.id \notin {none, l.id}

\* The document that `check` looks for the targets in.
Original(p, app) ==
  MergeDocuments(<<[app |-> app, doc |-> p.apps[app].doc]>>, p.apps[app].doc.info)

\* No rule takes away what a later one names.
TargetsStay(p, app) ==
  LET rules == RulesOf(p, OverrideFiles(p, app), app)
  IN  \A i, k \in DOMAIN rules :
        i < k => ~TakesAway(Original(p, app), rules[i].rule, rules[k].rule)

\* The complaints of compile that the categories of `check` look for. In the
\* env-only mode `check` does not read the overrides, which `compile` does; and
\* it looks for all targets before the first rule is applied, so that of a
\* missing one it can only speak for rules that leave each other's targets alone.
CheckedCodes(p, app, mode) ==
  (RefCodes \ {"RESOURCE_REF_ENV_NOT_SET"})
  \cup (AuthCodes \ {"AUTH_SECURITY_UNDECLARED", "AUTH_SECURITY_PUBLIC_VIOLATION"})
  \cup {"COMPOSE_OPERATIONID_COLLISION", "NO_SOURCE", "INVALID_ARTIFACT", "BUILD_CONFIG_NOT_FOUND",
         "BUILD_CONFIG_PARSE_ERROR", "BUILD_CONFIG_MISSING_ENTRY"}
  \cup {c \in {"OVERRIDE_FILE_INVALID_YAML"} : mode # "env-only"}
  \cup {c \in {"OVERRIDE_TARGET_MISSING"} : mode # "env-only" /\ TargetsStay(p, app)}

(* If `check` exits with 0, and the two commands look at the same files      *)
(* (LooksAtTheSame), `compile` of the same app fails with none of            *)
(* CheckedCodes: the index, env.yaml and the references are good, auth.yaml  *)
(* is, there is a document and no operationId is in it twice, the overrides  *)
(* can be read, and their targets are there unless an earlier rule has taken *)
(* one away (TargetsStay). Nothing is promised of variables that are not     *)
(* set, of the security of the operations, of the scope of rules, of targets *)
(* that exist already, of the names of security schemes, and of a program    *)
(* that has to run once more (cli/check.ts).                                 *)
CheckPromise ==
  \A j, k \in Jobs :
    (/\ job[j].pc = "done" /\ job[j].req.kind = "check" /\ job[j].exit = 0
     /\ job[k].req.kind = "compile" /\ job[k].app = job[j].app
     /\ job[k].req.envOnly = job[j].req.envOnly
     /\ LooksAtTheSame(project.apps[job[j].app]))
    => job[k].code \notin CheckedCodes(project, job[j].app, job[j].mode)

(* The environment variable is set while a compilation runs, and has its old *)
(* value when none does, in whatever order overlapping ones end              *)
(* (enterEnvScope, leaveEnvScope).                                           *)
EnvScoped ==
  LET running == {j \in Jobs : Compiles(job[j].req.kind) /\ job[j].pc \notin {"idle", "done"}}
  IN  IF running # {} THEN flag ELSE flag = before

(* Every call ends, whatever the program that it runs does (spawnRunner).    *)
CallsEnd == \A j \in Jobs : job[j].pc # "idle" ~> job[j].pc = "done"
=============================================================================
