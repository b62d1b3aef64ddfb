---------------------------- MODULE Composition ----------------------------
(* One gateway document out of the documents of several apps: the merge,    *)
(* the authentication of auth.yaml and the rules of the overrides.yaml      *)
(* files (composer/src/compose).                                            *)
(*                                                                          *)
(* A document is [version, info, security, paths, components]: paths maps a *)
(* path to a function from methods to operations, components a section to a *)
(* function from names to entries. An operation is [id, security, domain,   *)
(* ref, text]: ref is the field of its integration that may bear a          *)
(* reference, domain the kind of resource that field takes. An entry is     *)
(* [ref, text]. A draft is [doc, owner, ids]: the document while rules      *)
(* change it, with the owner of each path and the place of each operationId.*)
EXTENDS AuthConfig

ComposeCodes == {"COMPOSE_NO_PARTICIPANTS", "COMPOSE_OPENAPI_VERSION_MISMATCH",
                 "COMPOSE_PATH_COLLISION", "COMPOSE_OPERATIONID_COLLISION",
                 "COMPOSE_COMPONENT_COLLISION", "COMPOSE_SECURITY_REF_NONE_SCHEME",
                 "COMPOSE_INFO_MISSING", "OVERRIDE_FILE_INVALID_YAML", "OVERRIDE_TARGET_MISSING",
                 "OVERRIDE_TARGET_ALREADY_EXISTS", "OVERRIDE_OUT_OF_SCOPE"}

Sections == <<"parameters", "schemas", "securitySchemes">>    \* in the order of the document

Methods == {"get", "post", "put"}    \* of HTTP_METHODS those that the documents use

NoRef == Literal("")

IsOperation(o) == DOMAIN o = {"id", "security", "domain", "ref", "text"}
IsItem(item)   == \A m \in DOMAIN item : IsOperation(item[m])
IsEntry(e)     == DOMAIN e = {"ref", "text"}

IsDocument(doc) ==
  /\ DOMAIN doc = {"version", "info", "security", "paths", "components"}
  /\ \A p \in DOMAIN doc.paths : IsItem(doc.paths[p])
  /\ \A s \in DOMAIN doc.components :
       \A n \in DOMAIN doc.components[s] : IsEntry(doc.components[s][n])

\* A rule that the parser of an overrides.yaml lets through, with a value of the
\* kind of its target, which the parser does not look at.
IsRule(rule) ==
  /\ DOMAIN rule = {"op", "kind", "path", "method", "id", "name", "value"}
  /\ rule.op \in {"replace", "add", "remove"}
  /\ rule.kind \in {"info", "path", "operation", "operationId", "component"}
  /\ rule.kind = "operation" => rule.method \in Methods
  /\ rule.op # "remove" =>
       /\ rule.kind = "info" => rule.value # none
       /\ rule.kind = "path" => IsItem(rule.value)
       /\ rule.kind \in {"operation", "operationId"} => IsOperation(rule.value)
       /\ rule.kind = "component" => IsEntry(rule.value)

IsRuleList(rules) == rules \in Seq(Range(rules)) /\ \A rule \in Range(rules) : IsRule(rule)

Without(f, k) == [x \in DOMAIN f \ {k} |-> f[x]]

With(f, k, v) == [x \in DOMAIN f \cup {k} |-> IF x = k THEN v ELSE f[x]]

-----------------------------------------------------------------------------
(* merge.ts, provenance.ts: a participant is [app, doc].                    *)

\* The operationIds of a document, each as [id, path, method].
Operations(doc) ==
  UNION {{[id |-> doc.paths[p][m].id, path |-> p, method |-> m] :
            m \in {n \in Methods \cap DOMAIN doc.paths[p] : doc.paths[p][n].id # none}} :
          p \in DOMAIN doc.paths}

\* The sequence of sets has one member in two places.
SameTwice(keys) == \E i, j \in DOMAIN keys : i # j /\ keys[i] \cap keys[j] # {}

PathsOf(parts) == [i \in DOMAIN parts |-> DOMAIN parts[i].doc.paths]

ComponentsOf(parts) ==
  [i \in DOMAIN parts |->
     UNION {{<<s, n>> : n \in DOMAIN parts[i].doc.components[s]} :
              s \in DOMAIN parts[i].doc.components}]

IdsOf(parts) == [i \in DOMAIN parts |-> {o.id : o \in Operations(parts[i].doc)}]

\* Two operations with one id, in one document or in two.
OperationIdTwice(parts) ==
  \E i, j \in DOMAIN parts : \E a \in Operations(parts[i].doc), b \in Operations(parts[j].doc) :
    a.id = b.id /\ (i # j \/ a # b)

MergeCode(parts) ==
  IF Cardinality({parts[i].doc.version : i \in DOMAIN parts}) > 1 THEN "COMPOSE_OPENAPI_VERSION_MISMATCH"
  ELSE IF SameTwice(PathsOf(parts)) THEN "COMPOSE_PATH_COLLISION"
  ELSE IF OperationIdTwice(parts) THEN "COMPOSE_OPERATIONID_COLLISION"
  ELSE IF SameTwice(ComponentsOf(parts)) THEN "COMPOSE_COMPONENT_COLLISION"
  ELSE "none"

\* The part that has the key; after MergeCode there is at most one.
From(parts, keys, key) == parts[CHOOSE i \in DOMAIN parts : key \in keys[i]]

AssignApp(app, doc) ==
  [id \in {o.id : o \in Operations(doc)} |->
     LET o == CHOOSE o \in Operations(doc) : o.id = id
     IN  [path |-> o.path, method |-> o.method, app |-> app]]

\* info is what the caller takes over: the app's own in a build, nothing in compose().
MergeDocuments(parts, info) ==
  LET paths    == PathsOf(parts)
      entries  == ComponentsOf(parts)
      ids      == IdsOf(parts)
      all(keys) == UNION {keys[i] : i \in DOMAIN parts}
      names(s) == {e[2] : e \in {c \in all(entries) : c[1] = s}}
      sections == UNION {DOMAIN parts[i].doc.components : i \in DOMAIN parts}
      home(p)  == From(parts, paths, p)
      entry(s, n) == From(parts, entries, <<s, n>>).doc.components[s][n]
  IN  [doc |-> [version    |-> parts[1].doc.version, info |-> info, security |-> {},
                paths      |-> [p \in all(paths) |-> home(p).doc.paths[p]],
                components |-> [s \in sections |-> [n \in names(s) |-> entry(s, n)]]],
       owner |-> [p \in all(paths) |-> home(p).app],
       ids   |-> [id \in all(ids) |->
                    LET part == From(parts, ids, id) IN AssignApp(part.app, part.doc)[id]]]

-----------------------------------------------------------------------------
(* auth-apply.ts                                                            *)

AuthApplyCode(draft, auth, index) ==
  LET named   == SecurityEntries([draft.doc EXCEPT !.security = {}])
      taken   == IF "securitySchemes" \in DOMAIN draft.doc.components
                 THEN DOMAIN draft.doc.components["securitySchemes"] ELSE {}
      code(s) == IF s.type = "none" THEN "none"
                 ELSE IF s.name \in taken THEN "COMPOSE_COMPONENT_COLLISION"
                 ELSE IF s.type = "function" /\ <<"functions", s.function.name, "id">> \notin index
                        THEN "RESOURCE_REF_NOT_DECLARED"
                 ELSE "none"
  IN  IF \E s \in Range(auth.schemes) : s.type = "none" /\ s.name \in named
      THEN "COMPOSE_SECURITY_REF_NONE_SCHEME"
      ELSE FirstCode([i \in DOMAIN auth.schemes |-> code(auth.schemes[i])])

SchemeEntry(s) ==
  [text |-> s.type,
   ref  |-> IF s.type = "function" THEN Template("functions", s.function.name, "id") ELSE NoRef]

ApplyAuth(draft, auth) ==
  LET emitted == {s.name : s \in {t \in Range(auth.schemes) : t.type # "none"}}
      old     == IF "securitySchemes" \in DOMAIN draft.doc.components
                 THEN draft.doc.components["securitySchemes"] ELSE <<>>
      entries == [n \in emitted \cup DOMAIN old |->
                    IF n \in emitted THEN SchemeEntry(SchemeOf(auth, n)) ELSE old[n]]
  IN  [draft EXCEPT
         !.doc.security = IF SchemeOf(auth, auth.default).type = "none" THEN @ ELSE {auth.default},
         !.doc.components = With(@, "securitySchemes", entries)]

-----------------------------------------------------------------------------
(* overrides/apply.ts: a rule is [op, kind, path, method, id, name, value]; *)
(* app is the owner of a local file, none for the global one.               *)

NoPlace == [at |-> "nowhere", in |-> none, key |-> none]
Place(at, in, key) == [at |-> at, in |-> in, key |-> key]

\* Where the rule points to: the container exists, its key perhaps not.
ResolveTarget(draft, rule) ==
  LET doc == draft.doc
      item(path, method) == IF path \in DOMAIN doc.paths THEN Place("operation", path, method)
                            ELSE NoPlace
      holds(s) == s \in DOMAIN doc.components /\ rule.name \in DOMAIN doc.components[s]
  IN  CASE rule.kind = "info"      -> Place("info", none, none)
        [] rule.kind = "path"      -> Place("path", none, rule.path)
        [] rule.kind = "operation" -> item(rule.path, rule.method)
        [] rule.kind = "operationId" ->
             IF rule.id \in DOMAIN draft.ids
             THEN item(draft.ids[rule.id].path, draft.ids[rule.id].method) ELSE NoPlace
        [] rule.kind = "component" ->
             IF \E s \in Range(Sections) : holds(s)
             THEN Place("component", SelectSeq(Sections, holds)[1], rule.name) ELSE NoPlace

Present(doc, place) ==
  CASE place.at = "nowhere"   -> FALSE
    [] place.at = "info"      -> doc.info # none
    [] place.at = "path"      -> place.key \in DOMAIN doc.paths
    [] place.at = "operation" -> place.key \in DOMAIN doc.paths[place.in]
    [] place.at = "component" -> TRUE

\* Mutant: an operation named by its id counts as one of the app's own.
OutOfScopeById(draft, rule, app) ==
  \/ rule.kind \in {"info", "component"}
  \/ rule.kind \in {"path", "operation"} /\ rule.path \in DOMAIN draft.owner
       /\ draft.owner[rule.path] # app

\* A local rule reaches paths of its app and paths of nobody.
OutOfScope(draft, rule, app) ==
  LET path == IF rule.kind # "operationId" THEN rule.path
              ELSE IF rule.id \in DOMAIN draft.ids THEN draft.ids[rule.id].path ELSE none
  IN  \/ rule.kind \in {"info", "component"}
      \/ path \in DOMAIN draft.owner /\ draft.owner[path] # app

RuleCode(draft, rule, app) ==
  LET place   == ResolveTarget(draft, rule)
      present == Present(draft.doc, place)
  IN  IF app # none /\ OutOfScope(draft, rule, app) THEN "OVERRIDE_OUT_OF_SCOPE"
      ELSE IF rule.op \in {"replace", "remove"} /\ ~present
             /\ ~(rule.kind = "info" /\ rule.op = "replace") THEN "OVERRIDE_TARGET_MISSING"
      ELSE IF rule.op = "add" /\ present THEN "OVERRIDE_TARGET_ALREADY_EXISTS"
      ELSE IF rule.op = "add" /\ place = NoPlace /\ rule.kind # "operation" THEN "OVERRIDE_TARGET_MISSING"
      ELSE "none"

Put(doc, place, value) ==
  CASE place.at = "info"      -> [doc EXCEPT !.info = value]
    [] place.at = "path"      -> [doc EXCEPT !.paths = With(@, place.key, value)]
    [] place.at = "operation" ->
         LET item == IF place.in \in DOMAIN doc.paths THEN doc.paths[place.in] ELSE <<>>
         IN  [doc EXCEPT !.paths = With(@, place.in, With(item, place.key, value))]
    [] place.at = "component" ->
         [doc EXCEPT !.components[place.in] = With(@, place.key, value)]

Delete(doc, place) ==
  CASE place.at = "info"      -> [doc EXCEPT !.info = none]
    [] place.at = "path"      -> [doc EXCEPT !.paths = Without(@, place.key)]
    [] place.at = "operation" -> [doc EXCEPT !.paths[place.in] = Without(@, place.key)]
    [] place.at = "component" -> [doc EXCEPT !.components[place.in] = Without(@, place.key)]

\* The ids without those of the operations of a path, of one method or of all.
Forget(ids, path, methods) ==
  [i \in {j \in DOMAIN ids : ~(ids[j].path = path /\ ids[j].method \in methods)} |-> ids[i]]

\* Mutant: the ids of a removed path stay.
UpdateOwnershipKeepsIds(draft, rule, app) ==
  LET owner == IF app = none THEN "global" ELSE app
  IN  CASE rule.kind \in {"path", "operation"} /\ rule.op = "add" ->
             [draft EXCEPT !.owner = With(@, rule.path, owner)]
        [] rule.kind = "path" /\ rule.op = "remove" -> [draft EXCEPT !.owner = Without(@, rule.path)]
        [] OTHER -> draft

\* A path or an operation that is added has the owner of the rule; replacing a
\* path leaves the ids of the old one, replacing an operation leaves its old id.
UpdateOwnership(draft, rule, app) ==
  LET owner == IF app = none THEN "global" ELSE app
      known == rule.kind = "operationId" /\ rule.id \in DOMAIN draft.ids
      at    == CASE rule.kind = "operation" -> [path |-> rule.path, method |-> rule.method]
                 [] known -> [path |-> draft.ids[rule.id].path, method |-> draft.ids[rule.id].method]
                 [] OTHER -> [path |-> none, method |-> none]
      newId == IF rule.op # "remove" /\ at.path \in DOMAIN draft.doc.paths
                  /\ at.method \in DOMAIN draft.doc.paths[at.path]
               THEN draft.doc.paths[at.path][at.method].id ELSE none
      assign(ids) == IF newId = none THEN ids
                     ELSE With(ids, newId, [path |-> at.path, method |-> at.method, app |-> owner])
  IN  IF rule.kind = "path" /\ rule.op = "add" THEN [draft EXCEPT !.owner = With(@, rule.path, owner)]
      ELSE IF rule.kind = "path" /\ rule.op = "remove" THEN
             [draft EXCEPT !.owner = Without(@, rule.path),
                           !.ids = Forget(@, rule.path, Methods)]
      ELSE IF rule.kind = "operation" /\ rule.op = "remove" THEN
             [draft EXCEPT !.ids = Forget(@, at.path, {at.method})]
      ELSE IF rule.kind = "operation" THEN
             [draft EXCEPT !.owner = IF rule.op = "add" THEN With(@, rule.path, owner) ELSE @,
                           !.ids = assign(@)]
      ELSE IF known /\ rule.op = "remove" THEN [draft EXCEPT !.ids = Without(@, rule.id)]
      ELSE IF known /\ newId \notin {none, rule.id} THEN
             [draft EXCEPT !.ids = assign(Without(@, rule.id))]
      ELSE draft

\* A rule that RuleCode lets pass.
ApplyRule(draft, rule, app) ==
  LET resolved == ResolveTarget(draft, rule)
      place == IF resolved = NoPlace THEN Place("operation", rule.path, rule.method) ELSE resolved
      doc   == IF rule.op = "remove" THEN Delete(draft.doc, place)
               ELSE Put(draft.doc, place, rule.value)
  IN  UpdateOwnership([draft EXCEPT !.doc = doc], rule, app)

\* The strings in the value of a rule that may be references (load-overrides.ts).
RuleRefs(rule) ==
  IF rule.op = "remove" \/ rule.kind = "info" THEN {}
  ELSE IF rule.kind = "path" THEN {rule.value[m].ref : m \in DOMAIN rule.value}
  ELSE {rule.value.ref}

ResolveRule(rule, with) ==
  LET settle(bearer) == [bearer EXCEPT !.ref = ResolveScalar(@, with).value]
  IN  IF rule.op = "remove" \/ rule.kind = "info" THEN rule
      ELSE IF rule.kind = "path" THEN [rule EXCEPT !.value = [m \in DOMAIN @ |-> settle(@[m])]]
      ELSE [rule EXCEPT !.value = settle(@)]

-----------------------------------------------------------------------------
(* The fields that may bear a reference, and their values in the end.       *)

\* <<place, domain, value>> for each reference-bearing field.
BearerFields(doc) ==
  (IF "securitySchemes" \in DOMAIN doc.components
   THEN {<<<<"securitySchemes", n>>, "functions", doc.components["securitySchemes"][n].ref>> :
           n \in DOMAIN doc.components["securitySchemes"]}
   ELSE {})
  \cup UNION {{<<<<p, m>>, doc.paths[p][m].domain, doc.paths[p][m].ref>> : m \in DOMAIN doc.paths[p]} :
                p \in DOMAIN doc.paths}

\* Mutant: the authorizers of the security schemes are left out.
ResolveReferencesOfPaths(doc, with) ==
  [doc EXCEPT !.paths = [p \in DOMAIN @ |-> [m \in DOMAIN @[p] |->
                           [@[p][m] EXCEPT !.ref = ResolveScalar(@, with).value]]]]

ResolveReferences(doc, with) ==
  LET fields(f) == [k \in DOMAIN f |-> [f[k] EXCEPT !.ref = ResolveScalar(@, with).value]]
  IN  [doc EXCEPT !.paths = [p \in DOMAIN @ |-> fields(@[p])],
                  !.components = [s \in DOMAIN @ |->
                                    IF s = "securitySchemes" THEN fields(@[s]) ELSE @[s]]]

\* The error, if one of the values has one.
ResolveCode(values, with) ==
  LET codes == {ResolveScalar(v, with).code : v \in values} \ {"none"}
  IN  IF codes = {} THEN "none" ELSE CHOOSE c \in codes : TRUE

\* The references that the artifact names for the materializer.
CollectResourceReferences(doc) ==
  {Identity(b[3]) : b \in {f \in BearerFields(doc) :
     f[3].form = "template" /\ f[3].domain = f[2] /\ f[3].property = DomainProperties[f[2]]}}
=============================================================================
