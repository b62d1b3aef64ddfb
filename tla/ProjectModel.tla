---------------------------- MODULE ProjectModel ----------------------------
(* The project definition and the plugin registry as the loaders of pilot  *)
(* accept or refuse them (pilot/src/model, registry, build-env).           *)
(*                                                                         *)
(* A document of the project is a record with a form:                      *)
(*   "absent"     there is no such file                                    *)
(*   "syntax"     YAML that does not parse                                 *)
(*   "duplicate"  a mapping has one key twice                              *)
(*   "version"    its version is not 1                                     *)
(*   "shape"      the right version, the wrong structure                   *)
(*   "ok"         the structure its other fields describe                  *)
(* and a flag suspicious: whether one of its keys looks like a secret.     *)
EXTENDS DependsOn

CONSTANTS
  PackageKind,     \* what a package of builders.yaml exports, if it can be loaded
  AppDomain        \* the resource domain of an artifact type, for the types that have one

Forms == {"absent", "syntax", "duplicate", "version", "shape", "ok"}

ModelCodes == {"PML_PARSE", "PML_DUPLICATE_KEY", "PML_VERSION", "PML_INVALID", "PML_ENV_NOT_SET",
               "PML_ENV_UNRESOLVED", "PML_IDENTITY_COLLISION", "PML_DEPENDS_SELF",
               "PML_DEPENDS_UNKNOWN", "PML_DEPENDS_CYCLE"}
RegistryCodes == {"BRG_VERSION", "BRG_DUPLICATE_KEY", "BRG_INVALID", "BRG_PACKAGE_NOT_FOUND",
                  "BRG_NOT_A_PLUGIN", "BRG_LOAD_ERROR", "BRG_UNKNOWN_BUILDER"}

ParseErrors(doc) ==
  CASE doc.form = "syntax"    -> {"PML_PARSE"}
    [] doc.form = "duplicate" -> {"PML_DUPLICATE_KEY"}
    [] doc.form = "version"   -> {"PML_VERSION"}
    [] OTHER                  -> {}

Invalid(condition) == IF condition THEN {"PML_INVALID"} ELSE {}

-----------------------------------------------------------------------------
(* apps.yaml, resources.yaml and the build_config.yaml of every app.       *)

\* An entry is refused for its id, its shape, an unknown key or a bad field.
AppFlaws == {"id", "entry", "key", "path", "builder", "deps"}

ExtractApps(doc) ==
  Invalid(doc.form = "shape" \/ \E a \in Range(doc.apps) : a.flaws # {})

ExtractResources(doc) == Invalid(doc.form = "shape" \/ doc.flawed)

LoadResources(doc) ==
  IF doc.form = "absent" THEN [errors |-> {}, entries |-> {}]
  ELSE [errors |-> ParseErrors(doc) \cup ExtractResources(doc), entries |-> doc.entries]

\* A missing build_config.yaml is an empty one.
LoadAppBuildConfig(doc) ==
  IF doc.form = "absent" THEN [errors |-> {}, needs |-> {}]
  ELSE [errors |-> ParseErrors(doc) \cup Invalid(doc.form = "shape"), needs |-> doc.needs]

\* Names that build_config and build_env refer to and the environment lacks.
CheckEnvRequirements(needs, env) ==
  IF \E n \in needs : env[n] \in {"unset", "empty"} THEN {"PML_ENV_NOT_SET"} ELSE {}

\* An app whose type has a domain may not share its name with a declared resource.
CheckIdentityCollision(apps, entries) ==
  IF \E a \in Range(apps) : a.builder \in DOMAIN AppDomain
                            /\ <<AppDomain[a.builder], a.id>> \in entries
  THEN {"PML_IDENTITY_COLLISION"} ELSE {}

Refused(errors) ==
  [kind |-> "invalid", errors |-> errors, apps |-> <<>>, resources |-> {}, order |-> <<>>]

AppErrors(files, env, app) ==
  LET config == LoadAppBuildConfig(files.configs[app.path])
  IN  config.errors \cup
      (IF config.errors = {} THEN CheckEnvRequirements(config.needs, env) ELSE {})

ConfigErrors(files, env) == UNION {AppErrors(files, env, a) : a \in Range(files.apps.apps)}
GraphErrors(apps) == {e[1] : e \in BuildDependsOnGraph(apps).errors}

\* What is collected before anything is refused: the configs, the graph, the names.
CollectErrors(files, env) ==
  ConfigErrors(files, env) \cup GraphErrors(files.apps.apps)
  \cup CheckIdentityCollision(files.apps.apps, LoadResources(files.resources).entries)

LoadProjectModel(files, env) ==
  LET apps      == files.apps
      resources == LoadResources(files.resources)
      collected == CollectErrors(files, env)
  IN  IF apps.form = "absent" THEN [Refused({}) EXCEPT !.kind = "missing"]
      ELSE IF ParseErrors(apps) # {} THEN Refused(ParseErrors(apps))
      ELSE IF ExtractApps(apps) # {} THEN Refused(ExtractApps(apps))
      ELSE IF resources.errors # {} THEN Refused(resources.errors)
      ELSE IF collected # {} THEN Refused(collected)
      ELSE [kind |-> "ok", errors |-> {}, apps |-> apps.apps, resources |-> resources.entries,
            order |-> BuildDependsOnGraph(apps.apps).order]

AppOf(model, id) == model.apps[CHOOSE i \in DOMAIN model.apps : model.apps[i].id = id]

-----------------------------------------------------------------------------
(* Just before a build the references are substituted, once: a value that  *)
(* is itself a reference stays in the result and refuses the build.        *)

InterpolateString(name, env) == env[name] = "text"

PrepareBuildEnv(files, env, app) ==
  IF \A n \in LoadAppBuildConfig(files.configs[app.path]).needs : InterpolateString(n, env)
  THEN {} ELSE {"PML_ENV_UNRESOLVED"}

-----------------------------------------------------------------------------
(* builders.yaml and the packages it names.                                *)

ParseBuildersYaml(doc) ==
  IF doc.form = "duplicate" THEN {"BRG_DUPLICATE_KEY"}
  ELSE IF doc.form = "version" THEN {"BRG_VERSION"}
  ELSE IF doc.form \in {"syntax", "shape"} \/ doc.flawed THEN {"BRG_INVALID"}
  ELSE {}

Entries(doc) ==
  {<<"builder", k>> : k \in DOMAIN doc.builders} \cup
  {<<"materializer", k>> : k \in DOMAIN doc.materializers}

PackageOf(doc, entry) ==
  IF entry[1] = "builder" THEN doc.builders[entry[2]] ELSE doc.materializers[entry[2]]

DetectPluginKind(package) ==
  CASE PackageKind[package] = "neither" -> {"BRG_NOT_A_PLUGIN"}
    [] OTHER -> {}

LoadPlugin(package) ==
  CASE PackageKind[package] = "missing" -> {"BRG_PACKAGE_NOT_FOUND"}
    [] PackageKind[package] = "throws"  -> {"BRG_LOAD_ERROR"}
    [] OTHER -> DetectPluginKind(package)

\* Whatever the entry says it is, a package is used for what it exports.
GetBuilder(package) == PackageKind[package] = "builder"
GetMaterializer(package) == PackageKind[package] = "materializer"

LoadRegistry(doc) ==
  LET errors == IF ParseBuildersYaml(doc) # {} THEN ParseBuildersYaml(doc)
                ELSE UNION {LoadPlugin(PackageOf(doc, e)) : e \in Entries(doc)}
  IN  IF doc.form = "absent" THEN [kind |-> "throws", errors |-> {}, records |-> <<>>]
      ELSE IF errors # {} THEN [kind |-> "invalid", errors |-> errors, records |-> <<>>]
      ELSE [kind |-> "ok", errors |-> {},
            records |-> [e \in Entries(doc) |-> PackageOf(doc, e)]]

ValidateBuilders(model, records) ==
  IF \A a \in Range(model.apps) : <<"builder", a.builder>> \in DOMAIN records
  THEN {} ELSE {"BRG_UNKNOWN_BUILDER"}
=============================================================================
