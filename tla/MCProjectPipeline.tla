-------------------------- MODULE MCProjectPipeline --------------------------
(* A gateway in front of a function, a site, and what an editor may make of  *)
(* them. Each variant is a project of its own and a source of single edits.  *)
EXTENDS ProjectPipeline

Fn == <<"fn">>
Mq == <<"mq">>
Api == <<"api">>
Web == <<"web">>
Img == <<"Img">>

MCAlphabet == <<Img, Api, Fn, Mq, <<"old">>, Web>>
MCLowercase == {"fn", "mq", "api", "web", "old", "older", "url", "function", "gateway", "bucket",
                "container", "queue", "id", "ext"}

MCAppDomain == [t \in {"ycforge:function", "ycforge:docker-image", "ycforge:api-gateway"} |->
  CASE t = "ycforge:function" -> "functions" [] t = "ycforge:docker-image" -> "containers"
    [] OTHER -> "gateways"]
MCTfType == [d \in {"functions", "containers", "gateways"} |->
  CASE d = "functions" -> "yandex_function" [] d = "containers" -> "yandex_serverless_container"
    [] OTHER -> "yandex_api_gateway"]
MCIdlDomain == [t \in Range(MCTfType) |-> CHOOSE d \in DOMAIN MCTfType : MCTfType[d] = t]

MCPackageKind == [p \in {"zip", "docker", "vite", "composer"} |-> "builder"]
  @@ [p \in {"yfn", "ycont", "ybucket", "ygw", "ymq"} |-> "materializer"]
  @@ ("broken" :> "throws") @@ ("lodash" :> "neither") @@ ("gone" :> "missing")
MCBuilds == ("zip" :> "ycforge:function") @@ ("docker" :> "ycforge:docker-image")
  @@ ("vite" :> "ycforge:frontend") @@ ("composer" :> "ycforge:api-gateway")
MCSupports == ("yfn" :> "ycforge:function") @@ ("ycont" :> "ycforge:docker-image")
  @@ ("ybucket" :> "ycforge:frontend") @@ ("ygw" :> "ycforge:api-gateway") @@ ("ymq" :> "ycforge:queue")

Descriptor == <<"artifact", ".", "json">>
Page   == <<"a", "-", "b", ".", "js">>
Page2  == <<"a", "_", "b", ".", "js">>
Index  == <<"index", ".", "html">>
MCFileOrder == <<Page, Page2, Descriptor, Index>>

App(id, path, builder, deps) ==
  [id |-> id, path |-> path, builder |-> builder, deps |-> deps, flaws |-> {}]
Ok(fields) == [form |-> "ok", suspicious |-> FALSE] @@ fields

FnApp  == App(Fn, "fn", "ycforge:function", <<>>)
ApiApp == App(Api, "api", "ycforge:api-gateway", <<Fn>>)
WebApp == App(Web, "web", "ycforge:frontend", <<Api>>)

Config(needs) == Ok([needs |-> needs])
Source(version, site, refs) == [version |-> version, site |-> site, refs |-> refs]

Endpoint(id) == [idl |-> <<"functions", id>>, idt |-> <<"yandex_function", id>>]
Move(a, b) == [from |-> a, to |-> b, wellFormed |-> TRUE]
Rule(target, patch) == [target |-> target, patch |-> patch, wellFormed |-> TRUE]
Entry(name, ref) == [name |-> name, ref |-> ref, wellFormed |-> TRUE]

Base ==
  [apps       |-> Ok([apps |-> <<WebApp, ApiApp, FnApp>>]),
   resources  |-> Ok([entries |-> {<<"functions", <<"ext">>>>}, flawed |-> FALSE]),
   configs    |-> [p \in {"fn", "api", "web", "mq", "img"} |-> Config(IF p = "fn" THEN {"URL"} ELSE {})],
   builders   |-> Ok([builders |-> ("ycforge:function" :> "zip") @@ ("ycforge:frontend" :> "vite")
                                   @@ ("ycforge:api-gateway" :> "composer") @@ ("ycforge:docker-image" :> "docker"),
                      materializers |-> ("f" :> "yfn") @@ ("b" :> "ybucket") @@ ("g" :> "ygw")
                                   @@ ("c" :> "ycont") @@ ("q" :> "ymq"),
                      flawed |-> FALSE]),
   extensions |-> Ok([rules |-> <<Rule(<<"functions", Fn>>,
                                       <<"memory">> :> Text("256") @@ <<"content">> :> EmptyMap)>>]),
   moves      |-> Ok([moves |-> <<Move(Endpoint(<<"old">>), Endpoint(Fn)),
                                  Move(Endpoint(<<"older">>), Endpoint(<<"old">>))>>]),
   outputs    |-> Ok([entries |-> <<Entry(<<"url">>, <<"functions", Fn, <<"id">>>>)>>]),
   env        |-> [n \in {"URL"} |-> "text"],
   sources    |-> [fn |-> Source(1, {}, {}),
                   api |-> Source(1, {}, {<<"functions", Fn>>, <<"functions", <<"ext">>>>}),
                   web |-> Source(1, {Page, Descriptor, Index}, {}),
                   mq |-> Source(1, {}, {}), img |-> Source(1, {}, {})]]

AppsDoc(apps) == [Base EXCEPT !.apps = Ok([apps |-> apps])]

\* Two apps more, a diamond; and graphs that cannot be ordered.
MqApp  == App(Mq, "mq", "ycforge:function", <<Api, Web>>)
ImgApp == App(Img, "img", "ycforge:docker-image", <<Fn>>)
Diamond == [AppsDoc(<<MqApp, [WebApp EXCEPT !.deps = <<Fn>>], ApiApp, FnApp>>)
              EXCEPT !.sources["fn"].version = 2, !.env["URL"] = "ref",
                     !.extensions.rules = <<Rule(<<"functions", Mq>>, <<"memory", "size">> :> EnvRef)>>,
                     !.outputs.suspicious = TRUE]
Cycle  == [AppsDoc(<<WebApp, ApiApp, [FnApp EXCEPT !.deps = <<Web>>]>>)
             EXCEPT !.resources.entries = {<<"functions", Fn>>}, !.env["URL"] = "empty",
                    !.builders.builders["ycforge:function"] = "broken",
                    !.moves.moves = <<Move(Endpoint(<<"old">>), Endpoint(<<"older">>))>>,
                    !.extensions.rules = <<Rule(<<"functions", <<"old">>>>, <<"memory">> :> EmptyMap)>>,
                    !.outputs.entries = <<Entry(<<"ycsf", "url">>, <<"functions", Fn, <<"id">>>>)>>]
Itself == [AppsDoc(<<[FnApp EXCEPT !.deps = <<Fn, Mq>>]>>)
             EXCEPT !.moves.moves = <<Move(Endpoint(<<"old">>), Endpoint(Fn)),
                                      Move(Endpoint(<<"old">>), Endpoint(<<"older">>))>>,
                    !.builders.materializers = ("f" :> "yfn") @@ ("f2" :> "yfn"),
                    !.extensions.form = "version",
                    !.outputs.form = "absent", !.resources.form = "absent",
                    !.sources["web"].site = {Page, Index}]
Renamed == [AppsDoc(<<ImgApp, App(<<"old">>, "fn", "ycforge:function", <<>>)>>)
              EXCEPT !.configs["fn"].form = "syntax", !.builders.form = "absent",
                     !.moves.moves = <<Move(Endpoint(Fn), Endpoint(<<"old">>)),
                                       Move(Endpoint(<<"old">>), Endpoint(Fn))>>,
                     !.extensions.form = "absent", !.sources["api"].refs = {<<"functions", Mq>>}]
Image == [AppsDoc(<<ImgApp, FnApp>>)
            EXCEPT !.moves.form = "shape", !.configs["img"].suspicious = TRUE,
                   !.builders.flawed = TRUE, !.apps.suspicious = TRUE,
                   !.outputs.entries = <<Entry(<<"url">>, <<"containers", Img, <<"id">>>>)>>]
NoApps == [Base EXCEPT !.apps.form = "absent", !.configs["api"].form = "absent",
                       !.resources.form = "duplicate", !.env["URL"] = "unset",
                       !.sources["api"].refs = {<<"functions", Mq>>}]

Dangling == [Base EXCEPT !.sources["api"].refs = {<<"functions", Mq>>}]
Astray == [Base EXCEPT !.outputs.entries = <<Entry(<<"url">>, <<"functions", Mq, <<"id">>>>)>>,
                       !.moves.moves = <<Move(Endpoint(<<"old">>), Endpoint(<<"older">>))>>]

MCProjects == {Base, Diamond, Cycle, Itself, Renamed, Image, NoApps, Dangling}

MCVersions == {Base, Diamond, Renamed, Astray}

CONSTANT none
MCTargets == {none, Fn}
\* A site with two pages whose names differ in a character that names may not have.
MCCollision == {[AppsDoc(<<[WebApp EXCEPT !.deps = <<>>]>>)
                 EXCEPT !.sources["web"].site = {Page, Page2, Descriptor},
                        !.outputs.form = "absent", !.extensions.form = "absent",
                        !.moves.form = "absent"]}
=============================================================================
