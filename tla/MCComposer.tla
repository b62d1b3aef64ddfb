----------------------------- MODULE MCComposer -----------------------------
(* Two apps, api and adm, of one project and what may be wrong with them:   *)
(* each project of MCProjects is the plain one with one or two files changed. *)
EXTENDS Composer

Operation(id, security, domain, ref) ==
  [id |-> id, security |-> security, domain |-> domain, ref |-> ref, text |-> "old"]
Entry(ref) == [ref |-> ref, text |-> "old"]

Fn == Template("functions", "fn", "id")
ListA == Operation("listA", {"user"}, "functions", Fn)
AddA  == Operation("addA", {}, "buckets", Template("buckets", "files", "name"))
ListM == Operation("listM", {}, "functions", Bare("fn"))

ApiDoc == [version |-> "3", info |-> "api", security |-> {},
           paths |-> "/a" :> ("get" :> ListA @@ "post" :> AddA),
           components |-> "schemas" :> ("Item" :> Entry(NoRef))]
AdmDoc == [version |-> "3", info |-> "adm", security |-> {"user"},
           paths |-> "/m" :> ("get" :> ListM), components |-> <<>>]

Scheme(name, type, complete, function) ==
  [name |-> name, type |-> type, complete |-> complete, function |-> function]
Open  == Scheme("public", "none", TRUE, NoRef)
User  == Scheme("user", "jwt", TRUE, NoRef)
Guard == Scheme("guard", "function", TRUE, Bare("fn"))
Auth(default, schemes) == [form |-> "ok", default |-> default, schemes |-> schemes]
PlainAuth == Auth("user", <<Open, User, Guard>>)

NoRules == [form |-> "absent", rules |-> <<>>]
Rules(rules) == [form |-> "ok", rules |-> rules]
BrokenRules == [form |-> "broken", rules |-> <<>>]

Api == [config |-> "empty", artifact |-> "ok", program |-> "absent", doc |-> ApiDoc,
        auth |-> PlainAuth, overrides |-> NoRules, openapiDir |-> FALSE]
Adm == [Api EXCEPT !.doc = AdmDoc]

Resource(domain, name) == [domain |-> domain, name |-> name, properties |-> {}]
Resources(entries) == [form |-> "ok", entries |-> entries]
Plain == [resources |-> Resources(<<Resource("functions", "fn"), Resource("buckets", "files")>>),
          env |-> [form |-> "absent", mode |-> "compose", entries |-> <<>>],
          global |-> NoRules, auth |-> PlainAuth, apps |-> "api" :> Api @@ "adm" :> Adm]

-----------------------------------------------------------------------------
(* Rules: each file of rules is one of these                                *)

Rule(op, kind, path, method, id, name, value) ==
  [op |-> op, kind |-> kind, path |-> path, method |-> method, id |-> id, name |-> name,
   value |-> value]
OnPath(op, path, value) == Rule(op, "path", path, none, none, none, value)
OnOp(op, path, method, value) == Rule(op, "operation", path, method, none, none, value)
OnId(op, id, value) == Rule(op, "operationId", none, none, id, none, value)
OnPart(op, name, value) == Rule(op, "component", none, none, none, name, value)
OnInfo(op, value) == Rule(op, "info", none, none, none, none, value)

New == Operation("new", {}, "functions", Fn)
Text(id) == Operation(id, {}, "functions", NoRef)
Lost == [New EXCEPT !.ref = Template("functions", "gone", "id")]

GlobalRules == [
  none |-> <<>>,
  info |-> <<OnInfo("replace", "title")>>,
  infoAdd |-> <<OnInfo("add", "title")>>,
  infoGone |-> <<OnInfo("replace", "title"), OnInfo("remove", "title")>>,
  path |-> <<OnInfo("replace", "t"), OnPath("replace", "/a", "get" :> New)>>,
  dropped |-> <<OnInfo("replace", "t"), OnPath("remove", "/a", none)>>,
  taken |-> <<OnInfo("replace", "t"), OnOp("add", "/a", "put", New)>>,
  part |-> <<OnInfo("replace", "t"), OnPart("replace", "Item", Entry(NoRef)), OnPart("remove", "user", none)>>,
  partLost |-> <<OnPart("replace", "guard", Entry(Template("functions", "gone", "id")))>>,
  missing |-> <<OnPart("add", "Other", Entry(NoRef))>>]

LocalRules == [
  none |-> <<>>,
  own |-> <<OnOp("replace", "/a", "get", New), OnId("remove", "addA", none)>>,
  ownId |-> <<OnId("replace", "listA", New), OnId("replace", "listA", ListA)>>,
  stale |-> <<OnOp("replace", "/a", "get", New), OnId("replace", "listA", AddA)>>,
  paths |-> <<OnPath("add", "/b", "get" :> New), OnPath("remove", "/b", none), OnPath("remove", "/a", none)>>,
  opGone |-> <<OnOp("remove", "/a", "get", none), OnOp("add", "/a", "get", New)>>,
  again |-> <<OnPath("add", "/a", "get" :> New)>>,
  lost |-> <<OnOp("replace", "/a", "post", Lost)>>,
  other |-> <<OnOp("replace", "/m", "get", New)>>,
  otherId |-> <<OnId("replace", "listM", New)>>,
  otherPath |-> <<OnPath("remove", "/m", none)>>,
  part |-> <<OnPart("replace", "Item", Entry(NoRef))>>]

WithRules(global, local) ==
  [Plain EXCEPT !.global = Rules(global), !.apps["api"].overrides = Rules(local)]

RuleProject(g, l) == WithRules(GlobalRules[g], LocalRules[l])

-----------------------------------------------------------------------------
(* Files that are wrong                                                     *)

EnvFile(mode, entries) == [form |-> "ok", mode |-> mode, entries |-> entries]
EnvEntry(domain, variable, default) ==
  [identity |-> <<domain, "fn", "id">>, variable |-> variable, default |-> default]
WithAuth(auth) == [Plain EXCEPT !.auth = auth, !.apps["api"].auth = auth]
WithApi(app) == [Plain EXCEPT !.apps["api"] = app]
WithDoc(doc) == WithApi([Api EXCEPT !.doc = doc])
ApiRef(ref) == WithDoc([ApiDoc EXCEPT !.paths["/a"]["get"].ref = ref])
ApiSecurity(names) == WithDoc([ApiDoc EXCEPT !.paths["/a"]["get"].security = names])

Variants ==
  [plain |-> Plain,
   indexAbsent |-> [Plain EXCEPT !.resources.form = "absent"],
   indexBroken |-> [Plain EXCEPT !.resources.form = "broken"],
   indexDomain |-> [Plain EXCEPT !.resources = Resources(<<Resource("disks", "fn")>>)],
   indexProperty |-> [Plain EXCEPT !.resources.entries[1].properties = {"name"}],
   indexTwice |-> [Plain EXCEPT !.resources = Resources(<<Resource("functions", "fn"), Resource("functions", "fn")>>)],
   env |-> [Plain EXCEPT !.env = EnvFile("compose", <<EnvEntry("functions", "FN_ID", FALSE)>>)],
   envUnset |-> [Plain EXCEPT !.env = EnvFile("compose", <<EnvEntry("functions", "UNSET", FALSE)>>)],
   envBroken |-> [Plain EXCEPT !.env.form = "broken"],
   envMode |-> [Plain EXCEPT !.env = EnvFile("other", <<>>)],
   envOnly |-> [Plain EXCEPT !.env = EnvFile("env-only", <<>>)],
   envOnlyRules |-> [Plain EXCEPT !.env = EnvFile("env-only", <<>>), !.apps["api"].overrides = BrokenRules],
   envDomain |-> [Plain EXCEPT !.env = EnvFile("compose", <<EnvEntry("disks", "FN_ID", FALSE)>>)],
   envDefault |-> [Plain EXCEPT !.env = EnvFile("compose", <<EnvEntry("functions", "FN_ID", TRUE)>>)],
   envUndeclared |-> [Plain EXCEPT !.env = EnvFile("compose", <<EnvEntry("queues", "FN_ID", FALSE)>>)],
   authAbsent |-> WithAuth([PlainAuth EXCEPT !.form = "absent"]),
   authBroken |-> WithAuth([PlainAuth EXCEPT !.form = "broken"]),
   authTwice |-> WithAuth(Auth("user", <<User, User>>)),
   authEmpty |-> WithAuth(Auth("user", <<>>)),
   authDefault |-> WithAuth(Auth("gone", <<User>>)),
   authOpen |-> WithAuth(Auth("public", <<Open, User>>)),
   authType |-> WithAuth(Auth("user", <<User, Scheme("basic", "basic", TRUE, NoRef)>>)),
   authField |-> WithAuth(Auth("user", <<Scheme("user", "jwt", FALSE, NoRef)>>)),
   authRef |-> WithAuth(Auth("user", <<User, Scheme("guard", "function", TRUE, Fn)>>)),
   authGone |-> WithAuth(Auth("user", <<User, Scheme("guard", "function", TRUE, Bare("gone"))>>)),
   secGone |-> ApiSecurity({"gone"}),
   secPublic |-> ApiSecurity({"public"}),
   secNone |-> [WithAuth(Auth("user", <<Scheme("open", "none", TRUE, NoRef), User>>)) EXCEPT
                  !.apps["api"].doc.paths["/a"]["get"].security = {"open"}],
   rulesBroken |-> [Plain EXCEPT !.apps["api"].overrides = BrokenRules],
   globalBroken |-> [Plain EXCEPT !.global = BrokenRules],
   openapiDir |-> [Plain EXCEPT !.apps["api"].openapiDir = TRUE,
                                !.global = Rules(GlobalRules["info"]),
                                !.apps["api"].overrides = Rules(GlobalRules["info"])],
   targetsStay |-> WithRules(<<OnOp("replace", "/a", "get", Text("new"))>>, <<OnId("remove", "addA", none)>>),
   targetGone |-> WithRules(<<>>, <<OnPath("remove", "/gone", none)>>),
   targetTaken |-> WithRules(<<OnPath("remove", "/a", none)>>, <<OnId("remove", "addA", none)>>),
   targetGiven |-> WithRules(<<OnOp("replace", "/a", "get", Text("addA")), OnOp("remove", "/a", "get", none)>>,
                             <<OnId("remove", "addA", none)>>),
   twoIds |-> WithDoc([ApiDoc EXCEPT !.paths["/a"]["post"].id = "listA"]),
   sameId |-> [Plain EXCEPT !.apps["adm"].doc.paths["/m"]["get"].id = "listA"],
   samePath |-> [Plain EXCEPT !.apps["adm"].doc.paths = ApiDoc.paths],
   samePart |-> [Plain EXCEPT !.apps["adm"].doc.components = ApiDoc.components],
   version |-> [Plain EXCEPT !.apps["adm"].doc.version = "2"],
   schemeTaken |-> WithDoc([ApiDoc EXCEPT !.components = "securitySchemes" :> ("user" :> Entry(NoRef))]),
   schemeLost |-> WithDoc([ApiDoc EXCEPT !.components =
                             "securitySchemes" :> ("mine" :> Entry(Template("functions", "gone", "id")))]),
   noInfo |-> WithDoc([ApiDoc EXCEPT !.info = none]),
   refGone |-> ApiRef(Template("functions", "gone", "id")),
   refDomain |-> ApiRef(Template("disks", "fn", "id")),
   refProperty |-> ApiRef(Template("functions", "fn", "name")),
   refForeign |-> ApiRef(Template("buckets", "files", "name")),
   refMalformed |-> ApiRef(Value("malformed", "functions", "fn", "id")),
   noApps |-> [Plain EXCEPT !.apps = <<>>],
   oneApp |-> [Plain EXCEPT !.apps = "api" :> Api],
   configAbsent |-> WithApi([Api EXCEPT !.config = "absent"]),
   configBroken |-> WithApi([Api EXCEPT !.config = "broken"]),
   configInvalid |-> WithApi([Api EXCEPT !.config = "invalid"]),
   fileOk |-> WithApi([Api EXCEPT !.config = "file"]),
   fileBroken |-> WithApi([Api EXCEPT !.config = "file", !.artifact = "broken"]),
   fileAbsent |-> WithApi([Api EXCEPT !.config = "file", !.artifact = "absent"]),
   noSource |-> WithApi([Api EXCEPT !.artifact = "absent"]),
   module |-> WithApi([Api EXCEPT !.config = "module", !.artifact = "absent", !.program = "returns"])]

RunProject(program) == WithApi([Api EXCEPT !.artifact = "absent", !.program = program])

-----------------------------------------------------------------------------
ProjectNames ==
  {<<"rules", g, l>> : g \in DOMAIN GlobalRules, l \in DOMAIN LocalRules}
  \cup {<<"files", v>> : v \in DOMAIN Variants} \cup {<<"runs", p>> : p \in Programs \ {"absent"}}

Request(kind, app) == [IdleRequest EXCEPT !.kind = kind, !.app = app]
Build == Request("build", "api")
Compose(apps) == [Request("compose", none) EXCEPT !.apps = apps, !.functions = {"fn"}]
Both == Compose(<<"api", "adm">>)
Siblings(domain, app) == <<[domain |-> domain, app |-> app]>>

Calls(n) ==
  CASE n[1] = "rules" -> {Build, Both} \cup {Request("check", "api") : l \in {n[3]} \cap {"own", "stale"}}
    [] n[1] = "runs"  -> {Build, Request("check", "api")}
    [] n = <<"files", "plain">> ->
         {[Build EXCEPT !.identities = Siblings("functions", "sib")],
          [Build EXCEPT !.identities = Siblings("functions", "fn")],
          [Build EXCEPT !.identities = Siblings("disks", "sib")],
          [Build EXCEPT !.path = "unset"], [Build EXCEPT !.path = "missing"],
          [Build EXCEPT !.entry = "invalid"], [Build EXCEPT !.entry = "file"],
          Compose(<<>>), Compose(<<"api", "api">>), [Both EXCEPT !.functions = none],
          Request("compile", none), Request("compile", "gone")}
    [] n = <<"files", "noApps">> -> {Request("compile", none), Request("check", none)}
    [] n = <<"files", "oneApp">> ->
         {Request("compile", none), [Request("compile", none) EXCEPT !.envOnly = TRUE],
          Request("check", none), [Request("check", none) EXCEPT !.envOnly = TRUE]}
    [] OTHER -> {Request("compile", "api"), Request("check", "api"), Both}

Files(n) ==
  CASE n[1] = "rules" -> RuleProject(n[2], n[3])
    [] n[1] = "files" -> Variants[n[2]]
    [] n[1] = "runs"  -> RunProject(n[2])

MCProjects == [n \in ProjectNames |-> Files(n) @@ ("calls" :> Calls(n))]
=============================================================================
