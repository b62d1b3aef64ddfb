-------------------------- MODULE ProjectPipeline --------------------------
(* The commands build, materialize and check of ycsf over a project whose  *)
(* files may be edited between and during them: the definition is loaded   *)
(* and validated, the plugins are loaded, artifacts are built into the     *)
(* artifact store, materialised one after another, patched, and written as *)
(* one Terraform file for every app. BuildCache.tla has the cache of the   *)
(* build, Deployment.tla the commands that run Terraform.                  *)
EXTENDS ProjectModel, TerraformFiles, Moves, Materializers

CONSTANTS
  Projects,        \* the definitions to start from
  Versions,        \* the definitions an edit takes a file of
  Builds,          \* the artifact type a builder package produces
  TfType,          \* the Terraform type of a resource domain
  Targets,         \* the values of --target, NoTarget for none
  NoTarget,
  MaxCommands, MaxEdits, MaxFaults

\* A mapping of YAML has every key once, the alphabet has every app, and a
\* history of moves is a list.
ASSUME DefinitionsAssumption ==
  /\ Alphabet \in Seq(Range(Alphabet)) /\ FileOrder \in Seq(Range(FileOrder))
  /\ \A p \in Projects \cup Versions :
       /\ {"apps", "moves", "extensions"} \subseteq DOMAIN p
       /\ p.apps.form \in Forms /\ (p.apps.form = "ok" => IsAppList(p.apps.apps))
       /\ p.moves.form = "ok" => p.moves.moves \in Seq(Range(p.moves.moves))
       /\ p.extensions.form = "ok" => IsRuleList(p.extensions.rules)

\* The domains of the Terraform types are told apart, the objects of a bucket have
\* none, and the domain that apps of a kind are known under is the one of what their
\* materializer creates.
ASSUME TypesAssumption ==
  /\ \A s, t \in DOMAIN IdlDomain : IdlDomain[s] = IdlDomain[t] => s = t
  /\ "yandex_storage_object" \notin DOMAIN IdlDomain
  /\ \A t \in DOMAIN AppDomain : <<t, TfType[AppDomain[t]]>> \in ResourceTypes

VARIABLES
  project,         \* the files, the sources of the apps and the environment
  store,           \* .ycsf/artifacts/<app>/artifact.json: the value of the artifact
  dist,            \* what else lies in .ycsf/artifacts/<app>
  infra,           \* infra/*.tf.json, by name
  companions,      \* the apps with a file infra/generated/<app>-openapi.yaml
  cmd,             \* the command that runs, or the last one
  history,         \* whether infra is whole, and edited: a file is newer than infra
  spent            \* commands, edits and faults so far

files == <<store, dist, infra, companions>>
vars  == <<project, files, cmd, history, spent>>

CheckCodes == {"YCK_MISSING_TARGET", "YCK_ENV_IN_PATCH", "YCK_REF_UNRESOLVED", "YCK_SUSPICIOUS_KEY",
               "YCK_TERRAFORM_INVALID", "YCK_TERRAFORM_UNAVAILABLE"}
DispatchCodes == {"MTL_UNHANDLED_ARTIFACT", "MTL_COLLISION", "MTL_MATERIALIZE_FAILED",
                  "MTL_INVALID_TERRAFORM_ADDRESS", "MTL_OUTPUT_NAME_COLLISION"}
CliCodes == {"CLI_MISSING_PROJECT_DIR", "CLI_APP_NOT_FOUND", "CLI_BUILD_FAILED"}
InputErrors == {"CLI_MISSING_PROJECT_DIR", "CLI_APP_NOT_FOUND"}

Idle == [name |-> "none", target |-> NoTarget, dir |-> "infra", validateTf |-> FALSE,
         stage |-> "done", exit |-> 0, errors |-> {}, model |-> Refused({}), records |-> <<>>,
         todo |-> <<>>, artifacts |-> <<>>, rules |-> <<>>, matches |-> <<>>, products |-> <<>>,
         auto |-> <<>>, duplicates |-> FALSE, output |-> <<>>, edited |-> FALSE]

EmptyDist == [archive |-> 0, files |-> {}]
NoValue   == [kind |-> "none", refs |-> {}]

Init ==
  /\ project \in Projects
  /\ store = <<>> /\ dist = <<>> /\ infra = <<>> /\ companions = {}
  /\ cmd = Idle
  /\ history = [whole |-> FALSE, edited |-> FALSE]
  /\ spent = [commands |-> 0, edits |-> 0, faults |-> 0]

Running(name, stage) == cmd.name = name /\ cmd.stage = stage
Fail(code, errors) == cmd' = [cmd EXCEPT !.stage = "done", !.exit = code, !.errors = errors]

\* The user starts a command; check may be given the directory of the generated files.
Begin(name, target, dir, validateTf) ==
  /\ cmd.stage = "done"
  /\ spent.commands < MaxCommands
  /\ name = "check" => target = NoTarget
  /\ name # "check" => dir = "infra" /\ ~validateTf
  /\ cmd' = [Idle EXCEPT !.name = name, !.target = target, !.dir = dir,
                         !.validateTf = validateTf, !.stage = "load"]
  /\ spent' = [spent EXCEPT !.commands = @ + 1]
  /\ UNCHANGED <<project, files, history>>

\* The user saves one file, or changes a source, whatever runs. What follows the
\* last command is of no interest.
Edit ==
  /\ spent.edits < MaxEdits
  /\ cmd.stage = "done" => spent.commands < MaxCommands
  /\ \E p \in Versions, f \in DOMAIN project :
       /\ p[f] # project[f]
       /\ project' = [project EXCEPT ![f] = p[f]]
  /\ cmd' = [cmd EXCEPT !.edited = TRUE]
  /\ history' = [history EXCEPT !.edited = TRUE]
  /\ spent' = [spent EXCEPT !.edits = @ + 1]
  /\ UNCHANGED files

Faulty == spent.faults < MaxFaults /\ spent' = [spent EXCEPT !.faults = @ + 1]

\* Ctrl-C, or the end of the machine: what is written stays written.
Interrupt ==
  /\ cmd.stage \in {"build", "materialize", "write"}
  /\ Faulty
  /\ Fail(130, {})
  /\ UNCHANGED <<project, files, history>>

-----------------------------------------------------------------------------
(* Loading.                                                                *)

Scope(model) == IF cmd.target = NoTarget THEN IdsOf(model.apps) ELSE {cmd.target}

NextStage == [build |-> "registry", materialize |-> "registry", check |-> "check"]

\* The model and the target are settled first, before any plugin is loaded.
LoadModel ==
  LET model == LoadProjectModel(project, project.env)
      env   == IF cmd.name # "build" THEN {}
               ELSE UNION {PrepareBuildEnv(project, project.env, a) :
                             a \in {b \in Range(model.apps) : b.id \in Scope(model)}}
  IN  /\ cmd.stage = "load"
      /\ IF model.kind = "missing" THEN Fail(2, {"CLI_MISSING_PROJECT_DIR"})
         ELSE IF model.kind = "invalid" THEN Fail(1, model.errors)
         ELSE IF ~(Scope(model) \subseteq IdsOf(model.apps)) THEN Fail(2, {"CLI_APP_NOT_FOUND"})
         ELSE IF env # {} THEN Fail(1, env)
         ELSE cmd' = [cmd EXCEPT !.model = model, !.stage = NextStage[cmd.name]]
      /\ UNCHANGED <<project, files, history, spent>>

\* A builder is looked up for every app of the project, whatever the target.
LoadPlugins ==
  LET registry == LoadRegistry(project.builders)
      unknown  == IF cmd.name = "build" THEN ValidateBuilders(cmd.model, registry.records) ELSE {}
      order    == Only(cmd.model.order, Scope(cmd.model))
  IN  /\ cmd.stage = "registry"
      /\ IF registry.kind = "throws" THEN Fail(1, {"CLI_BUILD_FAILED"})
         ELSE IF registry.kind = "invalid" THEN Fail(1, registry.errors)
         ELSE IF unknown # {} THEN Fail(1, unknown)
         ELSE IF cmd.name = "build" THEN
                cmd' = [cmd EXCEPT !.records = registry.records, !.todo = order, !.stage = "build"]
         ELSE cmd' = [cmd EXCEPT !.records = registry.records, !.stage = "select"]
      /\ UNCHANGED <<project, files, history, spent>>

-----------------------------------------------------------------------------
(* Building: what a builder leaves for each kind of artifact.              *)

\* Mutant: whatever a specification refers to is taken for an app.
IdentitiesUnchecked(model) == Range(AppDomain) \X (Range(Alphabet) \cup {r[2] : r \in model.resources})

\* The identities the composer may refer to: apps of the model and declared resources.
Identities(model) ==
  {<<AppDomain[a.builder], a.id>> :
     a \in {b \in Range(model.apps) : b.builder \in DOMAIN AppDomain}} \cup model.resources

BuiltValue(package, source) ==
  CASE Builds[package] = "ycforge:function"     -> [kind |-> "archive", refs |-> {}]
    [] Builds[package] = "ycforge:docker-image" -> [kind |-> "image", refs |-> {}]
    [] Builds[package] = "ycforge:frontend"     -> [kind |-> "directory", refs |-> {}]
    [] OTHER -> [kind |-> "spec", refs |-> {<<TfType[r[1]], r[2]>> : r \in source.refs}]

BuiltDist(package, source, old) ==
  CASE Builds[package] = "ycforge:function" -> [old EXCEPT !.archive = source.version]
    [] Builds[package] = "ycforge:frontend" -> [old EXCEPT !.files = @ \cup source.site]
    [] OTHER -> old

Save(map, key, value) == [k \in DOMAIN map \cup {key} |-> IF k = key THEN value ELSE map[k]]
Of(map, key, default) == IF key \in DOMAIN map THEN map[key] ELSE default

\* One app, after everything it depends on. The output directory is made, then
\* filled; the descriptor is written last, and a failure to write it is a warning.
BuildApp ==
  LET app     == AppOf(cmd.model, Head(cmd.todo))
      package == cmd.records[<<"builder", app.builder>>]
      source  == project.sources[app.path]
      touched == Of(dist, app.id, EmptyDist)
      broken  == ~(source.refs \subseteq Identities(cmd.model))
      next    == [cmd EXCEPT !.todo = Tail(@)]
  IN  /\ Running("build", "build") /\ cmd.todo # <<>>
      /\ \/ /\ ~GetBuilder(package) \/ broken
            /\ Fail(1, {"CLI_BUILD_FAILED"})
            /\ UNCHANGED <<dist, store, spent>>
         \/ /\ GetBuilder(package) /\ ~broken
            /\ dist' = Save(dist, app.id, BuiltDist(package, source, touched))
            /\ store' = Save(store, app.id, BuiltValue(package, source))
            /\ cmd' = next
            /\ UNCHANGED spent
         \/ /\ GetBuilder(package)
            /\ Faulty
            /\ \/ dist' = Save(dist, app.id, touched) /\ Fail(1, {"CLI_BUILD_FAILED"})
               \/ /\ ~broken
                  /\ dist' = Save(dist, app.id, BuiltDist(package, source, touched))
                  /\ cmd' = next
            /\ UNCHANGED store
      /\ UNCHANGED <<project, infra, companions, history>>

BuildEnds ==
  /\ Running("build", "build") /\ cmd.todo = <<>>
  /\ Fail(0, {})
  /\ UNCHANGED <<project, files, history, spent>>

-----------------------------------------------------------------------------
(* Materialising.                                                          *)

\* Every directory needs its descriptor, those of apps that are gone included.
ReadStore ==
  [ok |-> DOMAIN dist \subseteq DOMAIN store, artifacts |-> store]

Supporters(model, records, id) ==
  {e \in DOMAIN records : /\ e[1] = "materializer"
                          /\ GetMaterializer(records[e])
                          /\ Supports[records[e]] = AppOf(model, id).builder}

SelectArtifacts(model, records) ==
  LET able(id) == Supporters(model, records, id)
  IN  [errors  |-> {"MTL_UNHANDLED_ARTIFACT" : id \in {i \in IdsOf(model.apps) : able(i) = {}}}
                   \cup {"MTL_COLLISION" :
                           id \in {i \in IdsOf(model.apps) : \E d, e \in able(i) : d # e}},
       matches |-> [id \in {i \in IdsOf(model.apps) : \E e \in able(i) : able(i) = {e}} |->
                      records[CHOOSE e \in able(id) : TRUE]]]

\* The store, the extensions and the choice of a materializer for every app.
Select ==
  LET extensions == ParseExtensions(project.extensions)
      selected   == SelectArtifacts(cmd.model, cmd.records)
  IN  /\ Running("materialize", "select")
      /\ IF ~ReadStore.ok THEN Fail(1, {"CLI_BUILD_FAILED"})
         ELSE IF extensions \notin {"ok", "missing"} THEN Fail(1, {extensions})
         ELSE IF selected.errors # {} THEN Fail(1, selected.errors)
         ELSE
                cmd' = [cmd EXCEPT
                          !.artifacts = ReadStore.artifacts,
                          !.rules = IF extensions = "ok" THEN project.extensions.rules ELSE <<>>,
                          !.matches = selected.matches,
                          !.todo = DeterministicOrder(cmd.model.apps),
                          !.stage = "materialize"]
      /\ UNCHANGED <<project, files, history, spent>>

\* Declared once: a second output of the same name is only remembered.
Declare(auto, outputs) ==
  auto \o Only(outputs, {o \in Range(outputs) : \A p \in Range(auto) : p.name # o.name})

MaterializeApp ==
  LET id     == Head(cmd.todo)
      value  == Of(cmd.artifacts, id, NoValue)
      result == Materialize(cmd.matches[id], id, value, Of(dist, id, EmptyDist))
  IN  /\ Running("materialize", "materialize") /\ cmd.todo # <<>>
      /\ IF ~result.ok
         THEN Fail(1, {"MTL_MATERIALIZE_FAILED"}) /\ UNCHANGED companions
         ELSE /\ cmd' = [cmd EXCEPT
                           !.todo = Tail(@),
                           !.products = @ \o [i \in DOMAIN result.resources |->
                                                [app |-> id, resource |-> result.resources[i]]],
                           !.auto = Declare(@, result.outputs),
                           !.duplicates = @ \/ \E o \in Range(result.outputs), p \in Range(cmd.auto) :
                                                   o.name = p.name]
              /\ companions' = IF result.companion THEN companions \cup {id} ELSE companions
      /\ UNCHANGED <<project, store, dist, infra, history, spent>>

\* Resources without a logical name take their address for it.
MoveEndpoints(resources) ==
  {[idl |-> IF r.type \in DOMAIN IdlDomain THEN IdlFor(r) ELSE Address(r), idt |-> Address(r)] :
     r \in Range(resources)}

\* The files by name: one for every app that owns something, the moves, the outputs;
\* of two with one name the later is kept.
GeneratedFiles(products, moved, wanted, values) ==
  [n \in {p.app : p \in Range(products)} \cup {MovedName : m \in moved}
           \cup (IF wanted THEN {OutputsName} ELSE {}) |->
     IF n = OutputsName /\ wanted THEN OutputsFile(values)
     ELSE IF n = MovedName /\ moved # {} THEN MovedFile(moved)
     ELSE SerializeAppFile(products, n)]

\* Each owner of products, where it comes first.
Owners(products) ==
  LET first == Only([i \in DOMAIN products |-> i],
                    {i \in DOMAIN products : \A j \in 1..(i - 1) : products[j].app # products[i].app})
  IN  [k \in DOMAIN first |-> products[first[k]].app]

\* In the order in which they are written.
FileNames(products) == Owners(products) \o <<MovedName, OutputsName>>

\* A moved.yaml or an outputs.yaml that is refused is passed over in silence.
Generate ==
  LET grouped   == Grouped(cmd.products, cmd.rules)
      resources == [i \in DOMAIN grouped.products |-> grouped.products[i].resource]
      invalid   == \E r \in Range(resources) : ~ValidAddress(r)
      document  == ParseMoves(project.moves)
      moves     == BuildMoves(MoveEndpoints(resources), IF document.ok THEN document.moves ELSE <<>>)
      wanted    == ParseOutputs(project.outputs) = "ok"
      outputs   == BuildOutputs(resources, project.outputs.entries, cmd.auto)
      all       == GeneratedFiles(grouped.products, moves.moved, wanted, outputs.values)
      output    == IF cmd.target = NoTarget THEN all
                   ELSE [n \in {cmd.target} \cap DOMAIN all |-> all[n]]
  IN  /\ Running("materialize", "materialize") /\ cmd.todo = <<>>
      /\ IF grouped.errors # {} THEN Fail(1, grouped.errors)
         ELSE IF invalid THEN Fail(1, {"MTL_INVALID_TERRAFORM_ADDRESS"})
         ELSE IF cmd.duplicates THEN Fail(1, {"MTL_OUTPUT_NAME_COLLISION"})
         ELSE IF moves.errors # {} THEN Fail(1, moves.errors)
         ELSE IF wanted /\ outputs.errors # {} THEN Fail(1, outputs.errors)
         ELSE cmd' = [cmd EXCEPT !.output = output, !.stage = "write",
                                 !.todo = Only(FileNames(grouped.products), DOMAIN output)]
      /\ UNCHANGED <<project, files, history, spent>>

WriteFile ==
  /\ Running("materialize", "write") /\ cmd.todo # <<>>
  /\ infra' = Save(infra, Head(cmd.todo), cmd.output[Head(cmd.todo)])
  /\ cmd' = [cmd EXCEPT !.todo = Tail(@)]
  /\ history' = [history EXCEPT !.whole = FALSE]
  /\ UNCHANGED <<project, store, dist, companions, spent>>

\* Generated files that are not of this generation are removed last.
RemoveStale ==
  /\ Running("materialize", "write") /\ cmd.todo = <<>>
  /\ infra' = [n \in DOMAIN cmd.output |-> infra[n]]
  /\ history' = [whole |-> cmd.target = NoTarget, edited |-> cmd.edited]
  /\ Fail(0, {})
  /\ UNCHANGED <<project, store, dist, companions, spent>>

-----------------------------------------------------------------------------
(* Checking.                                                               *)

\* Mutant: the directory that was asked for is not looked at.
LoadGeneratedModelDefault == {}

\* The generated files of .ycsf, where materialize writes none, unless a directory is given.
LoadGeneratedModel ==
  LET pairs == UNION {{<<n, a>> : a \in DOMAIN infra[n].resources} : n \in DOMAIN infra}
  IN  IF cmd.dir = ".ycsf" THEN {}
      ELSE {[type |-> p[2][1], name |-> p[2][2], config |-> infra[p[1]].resources[p[2]],
             refs |-> {}] : p \in pairs}

CheckOverrideTargets(rules, generated) ==
  {"YCK_MISSING_TARGET" : r \in {s \in Range(rules) : s.target \notin Idls(generated)}}

ScanPatchForEnvRefs(rules) ==
  {"YCK_ENV_IN_PATCH" : r \in {s \in Range(rules) : EnvRef \in Range(s.patch)}}

CheckResourceConsistency(model, generated) ==
  {"YCK_REF_UNRESOLVED" :
     e \in {r \in model.resources :
              r[1] \in Range(IdlDomain) /\ <<TypeOfDomain(r[1]), r[2]>> \notin
                {Address(g) : g \in Range(generated)}}}

ScanSuspiciousKeys(model) ==
  LET Documents == {project.apps, project.builders, project.outputs, project.extensions,
                    project.moves, project.resources}
                   \cup {project.configs[a.path] : a \in Range(model.apps)}
      Read(d)   == d.form \in {"version", "shape", "ok"}
  IN  {"YCK_SUSPICIOUS_KEY" : d \in {e \in Documents : Read(e) /\ e.suspicious}}

\* Terraform may find the files valid, invalid, or not be there at all.
RunTerraformValidate == {{}, {"YCK_TERRAFORM_INVALID"}, {"YCK_TERRAFORM_UNAVAILABLE"}}

CheckProject ==
  LET generated  == SetToSeq(LoadGeneratedModel)
      registry   == LoadRegistry(project.builders)
      extensions == ParseExtensions(project.extensions)
      rules      == project.extensions.rules
      document   == ParseMoves(project.moves)
      found ==
        (IF registry.kind = "ok" THEN ValidateBuilders(cmd.model, registry.records) ELSE {})
        \cup (IF extensions = "ok"
              THEN CheckOverrideTargets(rules, generated) \cup ApplyRules(generated, rules).errors
                   \cup ScanPatchForEnvRefs(rules)
              ELSE {})
        \cup CheckResourceConsistency(cmd.model, generated)
        \cup (IF ParseOutputs(project.outputs) = "ok"
              THEN BuildOutputs(generated, project.outputs.entries, <<>>).errors ELSE {})
        \cup (IF document.ok THEN ValidateMoves(document.moves).errors ELSE {})
        \cup ScanSuspiciousKeys(cmd.model)
  IN  /\ Running("check", "check")
      /\ \E verdict \in IF cmd.validateTf /\ found = {} THEN RunTerraformValidate ELSE {{}} :
           Fail(IF found \cup verdict = {} THEN 0 ELSE 1, found \cup verdict)
      /\ UNCHANGED <<project, files, history, spent>>

-----------------------------------------------------------------------------
Next ==
  \/ \E name \in DOMAIN NextStage, t \in Targets, dir \in {"infra", ".ycsf"}, v \in BOOLEAN :
       Begin(name, t, dir, v)
  \/ Edit \/ Interrupt
  \/ LoadModel \/ LoadPlugins \/ BuildApp \/ BuildEnds
  \/ Select \/ MaterializeApp \/ Generate \/ WriteFile \/ RemoveStale
  \/ CheckProject

Spec == Init /\ [][Next]_vars

Succeeded(name) == Running(name, "done") /\ cmd.exit = 0
AllApps         == cmd.target = NoTarget

-----------------------------------------------------------------------------
(* Properties.                                                             *)

Stages == {"load", "registry", "build", "select", "materialize", "write", "check", "done"}

\* The state keeps its shape: a stage belongs to its command; what a command
\* reports are the published codes, with exit code 2 exactly for the two errors
\* of input; a descriptor lies in the directory of an app; and every file in
\* infra is of the kind its name says.
TypeOK ==
  /\ \A f \in DOMAIN project : \E p \in Projects \cup Versions : project[f] = p[f]
  /\ cmd.stage \in Stages
  /\ cmd.stage = "build" => cmd.name = "build"
  /\ cmd.stage \in {"select", "materialize", "write"} => cmd.name = "materialize"
  /\ cmd.exit \in {0, 1, 2, 130}
  /\ cmd.errors \subseteq ModelCodes \cup RegistryCodes \cup MoveCodes \cup ExtensionCodes
                         \cup OutputCodes \cup CheckCodes \cup DispatchCodes \cup CliCodes
  /\ cmd.errors # {} => cmd.exit = IF cmd.errors \subseteq InputErrors THEN 2 ELSE 1
  /\ DOMAIN dist \subseteq Range(Alphabet) /\ DOMAIN store \subseteq DOMAIN dist
  /\ \A n \in DOMAIN infra :
       infra[n].kind = CASE n = MovedName -> "moved" [] n = OutputsName -> "outputs" [] OTHER -> "app"
  /\ companions \subseteq DOMAIN dist

\* A loaded project has no self-dependency, no unknown dependency and no cycle,
\* and in the order in which its apps are built or materialised no app comes
\* before one it depends on (depends-on.ts, select.ts).
DependenciesFirst ==
  cmd.stage \in {"build", "materialize"} =>
    /\ Acceptable(cmd.model.apps)
    /\ \A i, j \in DOMAIN cmd.todo :
         i < j => ~DependsOn(cmd.model.apps, cmd.todo[i], cmd.todo[j])

\* Nothing is refused for its graph that could be ordered, and what is accepted
\* is ordered completely, each app once (depends-on.ts:69-129).
OrderIsComplete ==
  /\ (cmd.errors \cap {"PML_DEPENDS_SELF", "PML_DEPENDS_UNKNOWN", "PML_DEPENDS_CYCLE"} # {}
      /\ ~cmd.edited) => ~Acceptable(project.apps.apps)
  /\ cmd.stage \notin {"load", "done"} =>
       /\ IsInjective(cmd.model.order) /\ Range(cmd.model.order) = IdsOf(cmd.model.apps)
       /\ Range(DeterministicOrder(cmd.model.apps)) = IdsOf(cmd.model.apps)

\* The order of a build: complete, and every app after what it depends on.
BuildOrder == DependenciesFirst /\ OrderIsComplete

RulesFor(r) ==
  {rule \in Range(cmd.rules) : r.type \in DOMAIN IdlDomain /\ rule.target = IdlFor(r)}

PatchedAsAsked(r, written) ==
  LET touched == UNION {DOMAIN rule.patch : rule \in RulesFor(r)}
  IN  /\ \A rule \in RulesFor(r) : \A q \in DOMAIN rule.patch :
           rule.patch[q] # EmptyMap => q \in DOMAIN written /\ written[q] = rule.patch[q]
      /\ \A q \in DOMAIN r.config :
           (\A t \in touched : ~IsPrefix(t, q) /\ ~IsPrefix(q, t)) =>
             q \in DOMAIN written /\ written[q] = r.config[q]

HomesOf(address) == {n \in DOMAIN infra : address \in DOMAIN infra[n].resources}
Generated == UNION {DOMAIN infra[n].resources : n \in DOMAIN infra}

\* After a successful materialize every resource a materializer returned is in
\* one file, the file of its app; a rule of extensions.yaml sets what it names
\* in its target and nothing else anywhere; and no file is left of another run
\* (dispatch.ts:79-125, apply.ts, write.ts:47-58).
GeneratedExactly ==
  (Succeeded("materialize") /\ AllApps) =>
    /\ IdsOf(cmd.model.apps) = {n \in DOMAIN infra : infra[n].kind = "app"}
    /\ Generated = {Address(p.resource) : p \in Range(cmd.products)}
    /\ \A p \in Range(cmd.products) :
         /\ HomesOf(Address(p.resource)) = {p.app}
         /\ PatchedAsAsked(p.resource, infra[p.app].resources[Address(p.resource)])

\* The moved blocks of a generation give Terraform one destination for every
\* object, and an object known under any address of the history ends at an
\* address that is generated now (chain.ts, build.ts).
MovesLead ==
  (history.whole /\ MovedName \in DOMAIN infra) =>
    /\ Unambiguous(infra[MovedName].moved)
    /\ \A b \in infra[MovedName].moved : Follow(infra[MovedName].moved, b[1]) \in Generated

\* Every output that a generation exports is read from a resource of the same
\* generation, and the outputs of the materializers are all among them, with
\* the outputs of outputs.yaml (outputs/build.ts:33-123).
OutputsResolve ==
  (history.whole /\ OutputsName \in DOMAIN infra) =>
    \A n \in DOMAIN infra[OutputsName].outputs :
      infra[OutputsName].outputs[n] \in Generated

\* As long as nobody edits the project, what a gateway's specification refers to
\* is generated beside it or declared in resources.yaml, whichever apps were
\* built and materialised, in whatever order and however often it failed
\* (build/index.ts:243-253, store.ts).
ReferencesResolve ==
  (spent.edits = 0 /\ Succeeded("materialize") /\ AllApps) =>
    \A p \in Range(cmd.products) : \A a \in p.resource.refs :
      \/ a \in Generated
      \/ \E r \in cmd.model.resources : a = <<TfType[r[1]], r[2]>>

\* No generation refers to what it does not hold.
NothingDangles == OutputsResolve /\ ReferencesResolve

\* check agrees with materialize: over the files that materialize has just
\* written, and with no edit since, the extensions, the outputs and the moves
\* it accepted are not reported (check.ts:59-108).
CheckAgrees ==
  (Running("check", "done") /\ cmd.dir = "infra" /\ history.whole /\ ~history.edited) =>
    cmd.errors \subseteq {"YCK_SUSPICIOUS_KEY", "YCK_ENV_IN_PATCH", "YCK_REF_UNRESOLVED",
                          "YCK_TERRAFORM_INVALID", "YCK_TERRAFORM_UNAVAILABLE",
                          "BRG_UNKNOWN_BUILDER"}

\* As a comment on the serializer has it, two resources of one app never have
\* one type and one name (serialize.ts:39-41).
NoTypeCollision ==
  \A i, j \in DOMAIN cmd.products :
    (i # j /\ cmd.products[i].app = cmd.products[j].app) =>
      Address(cmd.products[i].resource) # Address(cmd.products[j].resource)
=============================================================================
