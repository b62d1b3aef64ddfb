-------------------------- MODULE Composer_proofs --------------------------
(* Proofs about the calls of the composer: whatever the projects and the    *)
(* number of calls, overlapping compilations give the environment variable  *)
(* back, a local rule leaves the rest of the document alone, the provenance *)
(* matches the document, what is still a reference is declared, and a       *)
(* `check` that passes keeps its promise to `compile`.                      *)
EXTENDS Composer, FiniteSetTheorems, SequenceTheorems, WellFoundedInduction, TLAPS

-----------------------------------------------------------------------------
(* Stages *)

Kinds == {"build", "compile", "compose", "check"}

StageNames == {"index", "source", "sources", "auth", "merge", "overrides", "rules", "info",
               "resolve", "conflicts", "refs", "targets"}

StagesOf(kind) == {Stages[kind][i] : i \in DOMAIN Stages[kind]}

LEMMA StageKinds == DOMAIN Stages = Kinds
  BY DEF Stages, Kinds

LEMMA StageSequences ==
  ASSUME NEW kind \in Kinds
  PROVE  /\ Stages[kind] \in Seq(StageNames)
         /\ Stages[kind] # <<>>
         /\ kind # "check" => Stages[kind][Len(Stages[kind])] = "resolve"
  <1>1. CASE kind = "build" BY <1>1 DEF Stages, StageNames
  <1>2. CASE kind = "compile" BY <1>2 DEF Stages, StageNames
  <1>3. CASE kind = "compose" BY <1>3 DEF Stages, StageNames
  <1>4. CASE kind = "check" BY <1>4 DEF Stages, StageNames
  <1> QED BY <1>1, <1>2, <1>3, <1>4 DEF Kinds

(* A call goes from a stage to another one or ends; only the last stage of   *)
(* a compilation or of compose() ends it.                                    *)
LEMMA Following ==
  ASSUME NEW kind \in Kinds, NEW stage \in StagesOf(kind)
  PROVE  /\ stage \in StageNames
         /\ StageAfter(kind, stage) \in StagesOf(kind) \cup {"done"}
         /\ kind # "check" /\ stage # "resolve" => StageAfter(kind, stage) # "done"
  <1> DEFINE s == Stages[kind]
             i == CHOOSE k \in DOMAIN s : s[k] = stage
  <1>1. s \in Seq(StageNames) /\ s # <<>> BY StageSequences
  <1>2. i \in DOMAIN s /\ s[i] = stage BY DEF StagesOf
  <1>3. DOMAIN s = 1..Len(s) /\ Len(s) \in Nat BY <1>1
  <1>4. \A k \in DOMAIN s : s[k] \in StageNames BY <1>1
  <1>5. i # Len(s) => i + 1 \in DOMAIN s BY <1>2, <1>3
  <1>6. StageAfter(kind, stage) = IF i = Len(s) THEN "done" ELSE s[i + 1] BY Zenon DEF StageAfter
  <1>7. i = Len(s) /\ kind # "check" => stage = "resolve" BY <1>2, StageSequences
  <1> HIDE DEF i, s
  <1>8. \A k \in DOMAIN s : s[k] \in StagesOf(kind) BY DEF s, StagesOf
  <1>9. "done" \notin StageNames BY DEF StageNames
  <1> QED BY <1>2, <1>4, <1>5, <1>6, <1>7, <1>8, <1>9

LEMMA FirstStage ==
  ASSUME NEW kind \in Kinds
  PROVE  Stages[kind][1] \in StagesOf(kind)
  <1>1. Stages[kind] \in Seq(StageNames) /\ Stages[kind] # <<>> BY StageSequences
  <1>2. 1 \in DOMAIN Stages[kind] BY <1>1
  <1> QED BY <1>2 DEF StagesOf

LEMMA StagesAreStages ==
  ASSUME NEW kind \in Kinds, NEW stage \in StagesOf(kind)
  PROVE  stage \in StageNames /\ stage \notin {"idle", "done"}
  BY Following DEF StageNames

-----------------------------------------------------------------------------
(* Drafts: well-formed documents whose provenance matches *)

Provenance(d) ==
  /\ DOMAIN d.owner = DOMAIN d.doc.paths
  /\ \A id \in DOMAIN d.ids : d.ids[id].path \in DOMAIN d.doc.paths /\ d.ids[id].method \in Methods

IsDraft(d) == DOMAIN d = {"doc", "owner", "ids"} /\ IsDocument(d.doc) /\ Provenance(d)

LEMMA EmptyDraft == IsDocument(EmptyDoc) /\ IsDraft(Idle.draft)
  <1>1. DOMAIN EmptyDoc.paths = {} /\ DOMAIN EmptyDoc.components = {} BY DEF EmptyDoc
  <1>2. IsDocument(EmptyDoc) BY <1>1 DEF IsDocument, EmptyDoc
  <1>3. Idle.draft = [doc |-> EmptyDoc, owner |-> <<>>, ids |-> <<>>] BY DEF Idle
  <1> DEFINE d == Idle.draft
  <1>4. d.doc = EmptyDoc /\ d.owner = <<>> /\ d.ids = <<>> BY <1>3
  <1>5. DOMAIN d = {"doc", "owner", "ids"} BY <1>3
  <1> HIDE DEF d
  <1>6. DOMAIN d.owner = {} /\ DOMAIN d.ids = {} BY <1>4
  <1> QED BY <1>1, <1>2, <1>4, <1>5, <1>6 DEF IsDraft, Provenance, d

(* Only the places of operations of the document are assigned.               *)
LEMMA AssignAppPlaces ==
  ASSUME NEW app, NEW doc, NEW id \in {o.id : o \in Operations(doc)}
  PROVE  /\ AssignApp(app, doc)[id].path \in DOMAIN doc.paths
         /\ AssignApp(app, doc)[id].method \in Methods
  <1> DEFINE o == CHOOSE o \in Operations(doc) : o.id = id
  <1>1. o \in Operations(doc) OBVIOUS
  <1>2. o.path \in DOMAIN doc.paths /\ o.method \in Methods BY <1>1 DEF Operations
  <1>3. AssignApp(app, doc)[id] = [path |-> o.path, method |-> o.method, app |-> app]
    BY DEF AssignApp
  <1> HIDE DEF o
  <1> QED BY <1>2, <1>3

LEMMA FromHas ==
  ASSUME NEW parts, NEW keys, DOMAIN keys = DOMAIN parts,
         NEW key \in UNION {keys[i] : i \in DOMAIN parts}
  PROVE  \E i \in DOMAIN parts : From(parts, keys, key) = parts[i] /\ key \in keys[i]
  <1>1. PICK i \in DOMAIN parts : key \in keys[i] OBVIOUS
  <1> QED BY <1>1 DEF From

LEMMA MergeIsDraft ==
  ASSUME NEW parts, NEW info, \A i \in DOMAIN parts : IsDocument(parts[i].doc)
  PROVE  IsDraft(MergeDocuments(parts, info))
  <1> DEFINE paths    == PathsOf(parts)
             entries  == ComponentsOf(parts)
             ids      == IdsOf(parts)
             all(keys) == UNION {keys[i] : i \in DOMAIN parts}
             names(s) == {e[2] : e \in {c \in all(entries) : c[1] = s}}
             sections == UNION {DOMAIN parts[i].doc.components : i \in DOMAIN parts}
             home(p)  == From(parts, paths, p)
             entry(s, n) == From(parts, entries, <<s, n>>).doc.components[s][n]
             items    == [p \in all(paths) |-> home(p).doc.paths[p]]
             comps    == [s \in sections |-> [n \in names(s) |-> entry(s, n)]]
             doc      == [version |-> parts[1].doc.version, info |-> info, security |-> {},
                          paths |-> items, components |-> comps]
             owner    == [p \in all(paths) |-> home(p).app]
             places   == [id \in all(ids) |->
                            LET part == From(parts, ids, id) IN AssignApp(part.app, part.doc)[id]]
             merged   == MergeDocuments(parts, info)
  <1>1. merged = [doc |-> doc, owner |-> owner, ids |-> places] BY Zenon DEF MergeDocuments
  <1>2. /\ DOMAIN paths = DOMAIN parts /\ DOMAIN entries = DOMAIN parts /\ DOMAIN ids = DOMAIN parts
        /\ \A i \in DOMAIN parts : paths[i] = DOMAIN parts[i].doc.paths
        /\ \A i \in DOMAIN parts : entries[i] =
             UNION {{<<s, n>> : n \in DOMAIN parts[i].doc.components[s]} :
                      s \in DOMAIN parts[i].doc.components}
        /\ \A i \in DOMAIN parts : ids[i] = {o.id : o \in Operations(parts[i].doc)}
    BY DEF PathsOf, ComponentsOf, IdsOf
  <1>3. \A p \in all(paths) : IsItem(items[p])
    <2> TAKE p \in all(paths)
    <2>1. PICK i \in DOMAIN parts : home(p) = parts[i] /\ p \in paths[i] BY <1>2, FromHas
    <2>2. items[p] = parts[i].doc.paths[p] /\ p \in DOMAIN parts[i].doc.paths BY <2>1, <1>2
    <2> HIDE DEF items
    <2> QED BY <2>2 DEF IsDocument
  <1>4. \A s \in sections : \A n \in names(s) : IsEntry(comps[s][n])
    <2> TAKE s \in sections
    <2> TAKE n \in names(s)
    <2>1. PICK c \in all(entries) : c[1] = s /\ c[2] = n OBVIOUS
    <2>2. PICK k \in DOMAIN parts : c \in entries[k] BY <2>1
    <2> HIDE DEF entries
    <2>3. \E t, m : c = <<t, m>> BY <2>2, <1>2
    <2>4. c = <<s, n>> BY <2>1, <2>3
    <2>5. <<s, n>> \in all(entries) BY <2>1, <2>4
    <2>6. PICK i \in DOMAIN parts : From(parts, entries, <<s, n>>) = parts[i] /\ <<s, n>> \in entries[i]
      BY <2>5, <1>2, FromHas
    <2>7. PICK t \in DOMAIN parts[i].doc.components :
            <<s, n>> \in {<<t, m>> : m \in DOMAIN parts[i].doc.components[t]}
      BY <2>6, <1>2
    <2>8. s \in DOMAIN parts[i].doc.components /\ n \in DOMAIN parts[i].doc.components[s] BY <2>7
    <2>9. comps[s][n] = parts[i].doc.components[s][n] BY <2>6
    <2> QED BY <2>8, <2>9 DEF IsDocument
  <1>5. \A id \in all(ids) : places[id].path \in all(paths) /\ places[id].method \in Methods
    <2> TAKE id \in all(ids)
    <2>1. PICK i \in DOMAIN parts : From(parts, ids, id) = parts[i] /\ id \in ids[i] BY <1>2, FromHas
    <2>2. id \in {o.id : o \in Operations(parts[i].doc)} BY <2>1, <1>2
    <2>3. places[id] = AssignApp(parts[i].app, parts[i].doc)[id] BY <2>1
    <2>4. places[id].path \in paths[i] /\ places[id].method \in Methods
      BY <2>2, <2>3, <1>2, AssignAppPlaces
    <2> QED BY <2>4
  <1>6. DOMAIN items = all(paths) /\ DOMAIN owner = all(paths) /\ DOMAIN places = all(ids)
        /\ DOMAIN comps = sections /\ \A s \in sections : DOMAIN comps[s] = names(s)
    OBVIOUS
  <1>7. doc.paths = items /\ doc.components = comps
        /\ DOMAIN doc = {"version", "info", "security", "paths", "components"}
    OBVIOUS
  <1>8. DOMAIN merged = {"doc", "owner", "ids"} /\ merged.doc = doc /\ merged.owner = owner
        /\ merged.ids = places
    BY <1>1
  <1> HIDE DEF merged, doc, owner, places, items, comps, all, sections, names
  <1>9. IsDocument(doc) BY <1>3, <1>4, <1>6, <1>7 DEF IsDocument
  <1>10. Provenance(merged) BY <1>5, <1>6, <1>7, <1>8 DEF Provenance
  <1>11. IsDraft(merged) BY <1>8, <1>9, <1>10 DEF IsDraft
  <1> QED BY <1>11 DEF merged

LEMMA AuthIsDraft ==
  ASSUME NEW draft, NEW auth, IsDraft(draft)
  PROVE  IsDraft(ApplyAuth(draft, auth))
  <1> DEFINE emitted == {s.name : s \in {t \in Range(auth.schemes) : t.type # "none"}}
             old == IF "securitySchemes" \in DOMAIN draft.doc.components
                    THEN draft.doc.components["securitySchemes"] ELSE <<>>
             entries == [n \in emitted \cup DOMAIN old |->
                           IF n \in emitted THEN SchemeEntry(SchemeOf(auth, n)) ELSE old[n]]
             comps == With(draft.doc.components, "securitySchemes", entries)
             security == IF SchemeOf(auth, auth.default).type = "none" THEN draft.doc.security
                         ELSE {auth.default}
             new == ApplyAuth(draft, auth)
  <1>1. \A n \in DOMAIN entries : IsEntry(entries[n])
    <2>1. \A s : IsEntry(SchemeEntry(s)) BY DEF IsEntry, SchemeEntry
    <2>2. \A n \in DOMAIN old : IsEntry(old[n]) BY DEF IsDraft, IsDocument
    <2> HIDE DEF old, emitted
    <2>3. \A n \in emitted : entries[n] = SchemeEntry(SchemeOf(auth, n)) OBVIOUS
    <2>4. \A n \in DOMAIN old : n \notin emitted => entries[n] = old[n] OBVIOUS
    <2>5. DOMAIN entries = emitted \cup DOMAIN old OBVIOUS
    <2> HIDE DEF entries
    <2> QED BY <2>1, <2>2, <2>3, <2>4, <2>5
  <1>2. new = [draft EXCEPT !.doc.security = security, !.doc.components = comps]
    BY Zenon DEF ApplyAuth
  <1> HIDE DEF security, entries
  <1>3. DOMAIN comps = {"securitySchemes"} \cup DOMAIN draft.doc.components
        /\ comps["securitySchemes"] = entries
        /\ \A s \in DOMAIN draft.doc.components : s # "securitySchemes" =>
             comps[s] = draft.doc.components[s]
    BY DEF With
  <1> HIDE DEF comps, new
  <1>4. DOMAIN draft = {"doc", "owner", "ids"}
        /\ DOMAIN draft.doc = {"version", "info", "security", "paths", "components"}
    BY DEF IsDraft, IsDocument
  <1>5. DOMAIN new = DOMAIN draft /\ DOMAIN new.doc = DOMAIN draft.doc
    BY <1>2, <1>4
  <1>6. new.owner = draft.owner /\ new.ids = draft.ids /\ new.doc.components = comps
        /\ new.doc.paths = draft.doc.paths
    BY <1>2, <1>4
  <1>7. IsDocument(new.doc)
    <2>1. \A p \in DOMAIN new.doc.paths : IsItem(new.doc.paths[p]) BY <1>6 DEF IsDraft, IsDocument
    <2>2. ASSUME NEW s \in DOMAIN comps PROVE \A n \in DOMAIN comps[s] : IsEntry(comps[s][n])
      <3>1. CASE s = "securitySchemes" BY <3>1, <1>1, <1>3
      <3>2. CASE s # "securitySchemes" BY <3>2, <1>3 DEF IsDraft, IsDocument
      <3> QED BY <3>1, <3>2
    <2> QED BY <2>1, <2>2, <1>4, <1>5, <1>6 DEF IsDocument
  <1>8. IsDraft(new) BY <1>4, <1>5, <1>6, <1>7 DEF IsDraft, Provenance
  <1> QED BY <1>8 DEF new

-----------------------------------------------------------------------------
(* Rules *)

(* What RuleCode asks of a rule that it lets pass, by the kind of its target: *)
(* the path that the rule changes, and where the operation is.               *)
TargetPath(draft, rule) ==
  IF rule.kind = "operationId" THEN draft.ids[rule.id].path ELSE rule.path

PathKinds == {"path", "operation", "operationId"}

LEMMA Passed ==
  ASSUME NEW draft, NEW rule, NEW app, IsRule(rule), RuleCode(draft, rule, app) = "none"
  PROVE  /\ app # none => ~OutOfScope(draft, rule, app)
         /\ rule.kind = "path" /\ rule.op # "add" => rule.path \in DOMAIN draft.doc.paths
         /\ rule.kind = "operation" /\ rule.op # "add" => rule.path \in DOMAIN draft.doc.paths
         /\ rule.kind = "operationId" =>
              rule.id \in DOMAIN draft.ids /\ draft.ids[rule.id].path \in DOMAIN draft.doc.paths
         /\ rule.kind = "component" => ResolveTarget(draft, rule) # NoPlace
  <1> DEFINE place == ResolveTarget(draft, rule)
             present == Present(draft.doc, place)
             item(path, method) == IF path \in DOMAIN draft.doc.paths
                                   THEN Place("operation", path, method) ELSE NoPlace
  <1>1. app # none => ~OutOfScope(draft, rule, app) BY DEF RuleCode
  <1>2. rule.op \in {"replace", "remove"} => present \/ (rule.kind = "info" /\ rule.op = "replace")
    BY Zenon DEF RuleCode
  <1>3. rule.op = "add" => place # NoPlace \/ rule.kind = "operation" BY Zenon DEF RuleCode
  <1>4. place = NoPlace => ~present BY DEF Present, NoPlace
  <1>5. rule.kind = "path" => place = Place("path", none, rule.path) BY DEF ResolveTarget
  <1>6. rule.kind = "operation" => place = item(rule.path, rule.method) BY Zenon DEF ResolveTarget
  <1>7. rule.kind = "operationId" =>
          place = IF rule.id \in DOMAIN draft.ids
                  THEN item(draft.ids[rule.id].path, draft.ids[rule.id].method) ELSE NoPlace
    BY Zenon DEF ResolveTarget
  <1>8. rule.op \in {"replace", "add", "remove"} BY DEF IsRule
  <1>9. place = Place("path", none, rule.path) => present = (rule.path \in DOMAIN draft.doc.paths)
    BY DEF Present, Place
  <1> HIDE DEF place, present
  <1>10. rule.kind = "operationId" => place # NoPlace BY <1>2, <1>3, <1>4, <1>8
  <1>11. rule.kind = "operation" /\ rule.op # "add" => place # NoPlace BY <1>2, <1>4, <1>8
  <1>12. rule.kind = "component" => place # NoPlace BY <1>2, <1>3, <1>4, <1>8
  <1> QED BY <1>1, <1>2, <1>5, <1>6, <1>7, <1>8, <1>9, <1>10, <1>11, <1>12 DEF place

(* The document that a rule leaves.                                          *)
RuleDoc(draft, rule) ==
  LET resolved == ResolveTarget(draft, rule)
      place == IF resolved = NoPlace THEN Place("operation", rule.path, rule.method) ELSE resolved
  IN  IF rule.op = "remove" THEN Delete(draft.doc, place) ELSE Put(draft.doc, place, rule.value)

LEMMA ApplyRuleIs ==
  ASSUME NEW draft, NEW rule, NEW app
  PROVE  ApplyRule(draft, rule, app)
           = UpdateOwnership([draft EXCEPT !.doc = RuleDoc(draft, rule)], rule, app)
  BY Zenon DEF ApplyRule, RuleDoc

LEMMA SetPaths ==
  ASSUME NEW doc, NEW paths, NEW new, IsDocument(doc), \A p \in DOMAIN paths : IsItem(paths[p]),
         new = [doc EXCEPT !.paths = paths]
  PROVE  /\ IsDocument(new) /\ new.paths = paths
         /\ [new EXCEPT !.paths = <<>>] = [doc EXCEPT !.paths = <<>>]
  <1>1. DOMAIN doc = {"version", "info", "security", "paths", "components"} BY DEF IsDocument
  <1>2. DOMAIN new = DOMAIN doc /\ new.paths = paths /\ new.components = doc.components BY <1>1
  <1>3. [new EXCEPT !.paths = <<>>] = [doc EXCEPT !.paths = <<>>] BY <1>1
  <1>4. IsDocument(new) BY ONLY <1>1, <1>2, IsDocument(doc), \A p \in DOMAIN paths : IsItem(paths[p]) DEF IsDocument
  <1> QED BY <1>2, <1>3, <1>4

LEMMA SetComponents ==
  ASSUME NEW doc, NEW comps, NEW new, IsDocument(doc), new = [doc EXCEPT !.components = comps],
         \A s \in DOMAIN comps : \A n \in DOMAIN comps[s] : IsEntry(comps[s][n])
  PROVE  IsDocument(new) /\ new.paths = doc.paths
  <1>1. DOMAIN doc = {"version", "info", "security", "paths", "components"} BY DEF IsDocument
  <1>2. DOMAIN new = DOMAIN doc /\ new.paths = doc.paths /\ new.components = comps BY <1>1
  <1>3. IsDocument(new) BY <1>1, <1>2 DEF IsDocument
  <1> QED BY <1>2, <1>3

LEMMA SetInfo ==
  ASSUME NEW doc, NEW info, NEW new, IsDocument(doc), new = [doc EXCEPT !.info = info]
  PROVE  IsDocument(new) /\ new.paths = doc.paths
  <1>1. DOMAIN doc = {"version", "info", "security", "paths", "components"} BY DEF IsDocument
  <1>2. DOMAIN new = DOMAIN doc /\ new.paths = doc.paths /\ new.components = doc.components BY <1>1
  <1>3. IsDocument(new) BY <1>1, <1>2 DEF IsDocument
  <1> QED BY <1>2, <1>3

LEMMA ItemWith ==
  ASSUME NEW item, NEW m, NEW o, IsItem(item), IsOperation(o)
  PROVE  IsItem(With(item, m, o))
  <1>1. DOMAIN With(item, m, o) = {m} \cup DOMAIN item /\ With(item, m, o)[m] = o
        /\ \A x \in DOMAIN item : x # m => With(item, m, o)[x] = item[x]
    BY DEF With
  <1> DEFINE new == With(item, m, o)
  <1> HIDE DEF new
  <1>2. IsItem(new) BY <1>1 DEF IsItem, new
  <1> QED BY <1>2 DEF new

LEMMA ItemWithout ==
  ASSUME NEW item, NEW m, IsItem(item)
  PROVE  IsItem(Without(item, m))
  <1>1. DOMAIN Without(item, m) = DOMAIN item \ {m}
        /\ \A x \in DOMAIN item : x # m => Without(item, m)[x] = item[x]
    BY DEF Without
  <1> QED BY <1>1 DEF IsItem

(* A rule changes the document at its target only.                           *)
Changes(draft, rule, new) ==
  /\ IsDocument(new)
  /\ rule.kind \notin PathKinds => new.paths = draft.doc.paths
  /\ rule.kind \in PathKinds =>
       /\ [new EXCEPT !.paths = <<>>] = [draft.doc EXCEPT !.paths = <<>>]
       /\ \A p \in DOMAIN draft.doc.paths : p # TargetPath(draft, rule) =>
            p \in DOMAIN new.paths /\ new.paths[p] = draft.doc.paths[p]
       /\ DOMAIN new.paths =
            IF rule.op = "remove" /\ rule.kind = "path" THEN DOMAIN draft.doc.paths \ {rule.path}
            ELSE DOMAIN draft.doc.paths \cup {TargetPath(draft, rule)}

LEMMA RuleOnPath ==
  ASSUME NEW draft, NEW rule, IsDraft(draft), IsRule(rule), rule.kind = "path"
  PROVE  Changes(draft, rule, RuleDoc(draft, rule))
  <1> DEFINE doc == draft.doc
             new == RuleDoc(draft, rule)
             with == With(doc.paths, rule.path, rule.value)
             without == Without(doc.paths, rule.path)
  <1>1. ResolveTarget(draft, rule) = Place("path", none, rule.path)
        /\ Place("path", none, rule.path) # NoPlace
    BY DEF ResolveTarget, Place, NoPlace
  <1>2. rule.op # "remove" => new = [doc EXCEPT !.paths = with]
    BY <1>1 DEF RuleDoc, Put, Place
  <1>3. rule.op = "remove" => new = [doc EXCEPT !.paths = without]
    BY <1>1 DEF RuleDoc, Delete, Place
  <1>4. IsDocument(doc) /\ \A p \in DOMAIN doc.paths : IsItem(doc.paths[p])
    BY DEF IsDraft, IsDocument
  <1>5. TargetPath(draft, rule) = rule.path BY DEF TargetPath
  <1>6. DOMAIN with = {rule.path} \cup DOMAIN doc.paths /\ with[rule.path] = rule.value
        /\ \A x \in DOMAIN doc.paths : x # rule.path => with[x] = doc.paths[x]
    BY DEF With
  <1>7. DOMAIN without = DOMAIN doc.paths \ {rule.path}
        /\ \A x \in DOMAIN doc.paths : x # rule.path => without[x] = doc.paths[x]
    BY DEF Without
  <1>8. rule.op # "remove" => IsItem(rule.value) BY DEF IsRule
  <1> HIDE DEF doc, new, with, without
  <1>9. CASE rule.op # "remove"
    <2>1. \A p \in DOMAIN with : IsItem(with[p]) BY <1>4, <1>6, <1>8, <1>9
    <2>2. IsDocument(new) /\ new.paths = with
          /\ [new EXCEPT !.paths = <<>>] = [doc EXCEPT !.paths = <<>>]
      BY <2>1, <1>2, <1>4, <1>9, SetPaths
    <2> QED BY <2>2, <1>5, <1>6, <1>9 DEF Changes, doc, new, PathKinds
  <1>10. CASE rule.op = "remove"
    <2>1. \A p \in DOMAIN without : IsItem(without[p]) BY <1>4, <1>7
    <2>2. IsDocument(new) /\ new.paths = without
          /\ [new EXCEPT !.paths = <<>>] = [doc EXCEPT !.paths = <<>>]
      BY <2>1, <1>3, <1>4, <1>10, SetPaths
    <2> QED BY <2>2, <1>5, <1>7, <1>10 DEF Changes, doc, new, PathKinds
  <1> QED BY <1>9, <1>10 DEF new

LEMMA RuleOnOperation ==
  ASSUME NEW draft, NEW rule, NEW app, IsDraft(draft), IsRule(rule),
         RuleCode(draft, rule, app) = "none", rule.kind \in {"operation", "operationId"}
  PROVE  Changes(draft, rule, RuleDoc(draft, rule))
  <1> DEFINE doc == draft.doc
             new == RuleDoc(draft, rule)
             path == TargetPath(draft, rule)
             method == IF rule.kind = "operation" THEN rule.method ELSE draft.ids[rule.id].method
             place == Place("operation", path, method)
             resolved == ResolveTarget(draft, rule)
             item == IF path \in DOMAIN doc.paths THEN doc.paths[path] ELSE <<>>
             with == With(doc.paths, path, With(item, method, rule.value))
             without == [doc.paths EXCEPT ![path] = Without(@, method)]
  <1>1. resolved = place \/ (resolved = NoPlace /\ rule.kind = "operation")
    BY Passed DEF ResolveTarget, TargetPath
  <1>2. (IF resolved = NoPlace THEN Place("operation", rule.path, rule.method) ELSE resolved) = place
    <2>1. place # NoPlace BY DEF Place, NoPlace
    <2> QED BY <1>1, <2>1 DEF TargetPath
  <1>3. new = IF rule.op = "remove" THEN Delete(doc, place) ELSE Put(doc, place, rule.value)
    BY <1>2 DEF RuleDoc
  <1>4. place.at = "operation" /\ place.in = path /\ place.key = method BY DEF Place
  <1> HIDE DEF place, new, path, method, resolved, doc
  <1>5. rule.op # "remove" => new = [doc EXCEPT !.paths = with] BY <1>3, <1>4 DEF Put
  <1>6. rule.op = "remove" => new = [doc EXCEPT !.paths = without] BY <1>3, <1>4 DEF Delete
  <1>7. IsDocument(doc) /\ \A p \in DOMAIN doc.paths : IsItem(doc.paths[p])
    BY DEF IsDraft, IsDocument, doc
  <1>8. IsItem(item)
    <2>1. DOMAIN <<>> = {} OBVIOUS
    <2> QED BY <1>7, <2>1 DEF IsItem
  <1>9. rule.op # "remove" => IsOperation(rule.value) BY DEF IsRule
  <1>10. rule.op = "remove" => path \in DOMAIN doc.paths BY Passed DEF path, doc, TargetPath
  <1>11. DOMAIN with = {path} \cup DOMAIN doc.paths /\ with[path] = With(item, method, rule.value)
         /\ \A x \in DOMAIN doc.paths : x # path => with[x] = doc.paths[x]
    BY DEF With
  <1> HIDE DEF with, item
  <1>12. CASE rule.op # "remove"
    <2>1. IsItem(With(item, method, rule.value)) BY <1>8, <1>9, <1>12, ItemWith
    <2>2. \A p \in DOMAIN with : IsItem(with[p]) BY <1>7, <1>11, <2>1
    <2>3. IsDocument(new) /\ new.paths = with
          /\ [new EXCEPT !.paths = <<>>] = [doc EXCEPT !.paths = <<>>]
      BY <2>2, <1>5, <1>7, <1>12, SetPaths
    <2> QED BY <2>3, <1>11, <1>12 DEF Changes, doc, new, path, PathKinds
  <1>13. CASE rule.op = "remove"
    <2>1. IsItem(Without(doc.paths[path], method)) BY <1>7, <1>10, <1>13, ItemWithout
    <2>2. DOMAIN without = DOMAIN doc.paths /\ without[path] = Without(doc.paths[path], method)
          /\ \A x \in DOMAIN doc.paths : x # path => without[x] = doc.paths[x]
      BY <1>10, <1>13
    <2> HIDE DEF without
    <2>3. \A p \in DOMAIN without : IsItem(without[p]) BY <1>7, <2>1, <2>2
    <2>4. IsDocument(new) /\ new.paths = without
          /\ [new EXCEPT !.paths = <<>>] = [doc EXCEPT !.paths = <<>>]
      BY <2>3, <1>6, <1>7, <1>13, SetPaths
    <2> QED BY <2>4, <2>2, <1>10, <1>13 DEF Changes, doc, new, path, PathKinds
  <1> QED BY <1>12, <1>13 DEF new

LEMMA RuleOnInfo ==
  ASSUME NEW draft, NEW rule, IsDraft(draft), rule.kind = "info"
  PROVE  Changes(draft, rule, RuleDoc(draft, rule))
  <1> DEFINE doc == draft.doc
             new == RuleDoc(draft, rule)
  <1>1. ResolveTarget(draft, rule) = Place("info", none, none)
        /\ Place("info", none, none) # NoPlace
    BY DEF ResolveTarget, Place, NoPlace
  <1>2. new = [doc EXCEPT !.info = IF rule.op = "remove" THEN none ELSE rule.value]
    BY <1>1 DEF RuleDoc, Put, Delete, Place
  <1>3. IsDocument(doc) BY DEF IsDraft
  <1> HIDE DEF doc, new
  <1>4. IsDocument(new) /\ new.paths = doc.paths BY <1>2, <1>3, SetInfo
  <1> QED BY <1>4 DEF Changes, doc, new, PathKinds

LEMMA RuleOnComponent ==
  ASSUME NEW draft, NEW rule, NEW app, IsDraft(draft), IsRule(rule),
         RuleCode(draft, rule, app) = "none", rule.kind = "component"
  PROVE  Changes(draft, rule, RuleDoc(draft, rule))
  <1> DEFINE doc == draft.doc
             new == RuleDoc(draft, rule)
             resolved == ResolveTarget(draft, rule)
  <1>1. resolved # NoPlace BY Passed
  <1>2. \E s : resolved = Place("component", s, rule.name)
    <2>1. resolved = NoPlace \/ \E s : resolved = Place("component", s, rule.name)
      BY Zenon DEF ResolveTarget
    <2> QED BY <1>1, <2>1
  <1>3. PICK s : resolved = Place("component", s, rule.name) BY <1>2
  <1>4. new = IF rule.op = "remove" THEN Delete(doc, resolved) ELSE Put(doc, resolved, rule.value)
    BY <1>1 DEF RuleDoc
  <1>5. resolved.at = "component" /\ resolved.in = s /\ resolved.key = rule.name BY <1>3 DEF Place
  <1> HIDE DEF resolved, new, doc
  <1> DEFINE with == With(doc.components[s], rule.name, rule.value)
             without == Without(doc.components[s], rule.name)
             section == IF rule.op = "remove" THEN without ELSE with
             comps == [doc.components EXCEPT ![s] = section]
  <1>6. DOMAIN doc = {"version", "info", "security", "paths", "components"} /\ IsDocument(doc)
    BY DEF IsDraft, IsDocument, doc
  <1>7. new = [doc EXCEPT !.components = comps]
    <2>1. CASE rule.op = "remove"
      <3>1. new = [doc EXCEPT !.components[s] = without] BY <2>1, <1>4, <1>5 DEF Delete
      <3> QED BY <2>1, <3>1
    <2>2. CASE rule.op # "remove"
      <3>1. new = [doc EXCEPT !.components[s] = with] BY <2>2, <1>4, <1>5 DEF Put
      <3> QED BY <2>2, <3>1
    <2> QED BY <2>1, <2>2
  <1>8. s \in DOMAIN doc.components => \A n \in DOMAIN section : IsEntry(section[n])
    <2> SUFFICES ASSUME s \in DOMAIN doc.components PROVE \A n \in DOMAIN section : IsEntry(section[n])
      OBVIOUS
    <2>1. \A n \in DOMAIN doc.components[s] : IsEntry(doc.components[s][n]) BY <1>6 DEF IsDocument
    <2>2. rule.op # "remove" => IsEntry(rule.value) BY DEF IsRule
    <2>3. DOMAIN with = {rule.name} \cup DOMAIN doc.components[s] /\ with[rule.name] = rule.value
          /\ \A x \in DOMAIN doc.components[s] : x # rule.name => with[x] = doc.components[s][x]
      BY DEF With
    <2>4. DOMAIN without = DOMAIN doc.components[s] \ {rule.name}
          /\ \A x \in DOMAIN doc.components[s] : x # rule.name => without[x] = doc.components[s][x]
      BY DEF Without
    <2> HIDE DEF with, without
    <2> QED BY <2>1, <2>2, <2>3, <2>4
  <1>9. DOMAIN comps = DOMAIN doc.components
        /\ \A t \in DOMAIN doc.components : comps[t] = IF t = s THEN section ELSE doc.components[t]
    OBVIOUS
  <1> HIDE DEF section, comps
  <1>10. \A t \in DOMAIN comps : \A n \in DOMAIN comps[t] : IsEntry(comps[t][n])
    BY <1>6, <1>8, <1>9 DEF IsDocument
  <1>11. IsDocument(new) /\ new.paths = doc.paths BY <1>6, <1>7, <1>10, SetComponents
  <1>12. "component" \notin PathKinds BY DEF PathKinds
  <1> QED BY <1>11, <1>12 DEF Changes, doc, new

LEMMA RuleChanges ==
  ASSUME NEW draft, NEW rule, NEW app, IsDraft(draft), IsRule(rule),
         RuleCode(draft, rule, app) = "none"
  PROVE  Changes(draft, rule, RuleDoc(draft, rule))
  <1>1. rule.kind \in {"info", "path", "operation", "operationId", "component"} BY DEF IsRule
  <1> QED BY <1>1, RuleOnInfo, RuleOnPath, RuleOnOperation, RuleOnComponent

(* What becomes of the owners and of the places of the operations, d being   *)
(* the draft with the new document: a rule that adds takes the path, one     *)
(* that removes a path forgets its operations, and an operation that gets a  *)
(* new operationId has its place at the target.                              *)
Owned(d, rule, owner, new) ==
  /\ DOMAIN new = {"doc", "owner", "ids"} /\ new.doc = d.doc
  /\ new.owner = CASE rule.kind \in {"path", "operation"} /\ rule.op = "add" ->
                        With(d.owner, rule.path, owner)
                   [] rule.kind = "path" /\ rule.op = "remove" -> Without(d.owner, rule.path)
                   [] OTHER -> d.owner
  /\ rule.kind = "path" /\ rule.op = "remove" => new.ids = Forget(d.ids, rule.path, Methods)
  /\ \A id \in DOMAIN new.ids :
       \/ id \in DOMAIN d.ids /\ new.ids[id] = d.ids[id]
       \/ /\ rule.kind = "operation"
          /\ new.ids[id].path = rule.path /\ new.ids[id].method = rule.method
          /\ rule.path \in DOMAIN d.doc.paths
       \/ /\ rule.kind = "operationId" /\ rule.id \in DOMAIN d.ids
          /\ new.ids[id].path = d.ids[rule.id].path
          /\ new.ids[id].method = d.ids[rule.id].method
          /\ d.ids[rule.id].path \in DOMAIN d.doc.paths

LEMMA Ownership ==
  ASSUME NEW d, NEW rule, NEW app, DOMAIN d = {"doc", "owner", "ids"}, IsRule(rule)
  PROVE  Owned(d, rule, IF app = none THEN "global" ELSE app, UpdateOwnership(d, rule, app))
  <1> DEFINE new   == UpdateOwnership(d, rule, app)
             owner == IF app = none THEN "global" ELSE app
             known == rule.kind = "operationId" /\ rule.id \in DOMAIN d.ids
             at    == CASE rule.kind = "operation" -> [path |-> rule.path, method |-> rule.method]
                        [] known -> [path |-> d.ids[rule.id].path, method |-> d.ids[rule.id].method]
                        [] OTHER -> [path |-> none, method |-> none]
             newId == IF rule.op # "remove" /\ at.path \in DOMAIN d.doc.paths
                         /\ at.method \in DOMAIN d.doc.paths[at.path]
                      THEN d.doc.paths[at.path][at.method].id ELSE none
             place == [path |-> at.path, method |-> at.method, app |-> owner]
             assign(ids) == IF newId = none THEN ids ELSE With(ids, newId, place)
             Kept(ids, id) == id \in DOMAIN d.ids /\ ids[id] = d.ids[id]
             Placed(ids, id) == ids[id] = place /\ at.path \in DOMAIN d.doc.paths
             Result(r) == new.owner = d.owner /\ new.ids = r
  <1>1. new =
          IF rule.kind = "path" /\ rule.op = "add" THEN [d EXCEPT !.owner = With(@, rule.path, owner)]
          ELSE IF rule.kind = "path" /\ rule.op = "remove" THEN
            [d EXCEPT !.owner = Without(@, rule.path), !.ids = Forget(@, rule.path, Methods)]
          ELSE IF rule.kind = "operation" /\ rule.op = "remove" THEN
            [d EXCEPT !.ids = Forget(@, at.path, {at.method})]
          ELSE IF rule.kind = "operation" THEN
            [d EXCEPT !.owner = IF rule.op = "add" THEN With(@, rule.path, owner) ELSE @,
                      !.ids = assign(@)]
          ELSE IF known /\ rule.op = "remove" THEN [d EXCEPT !.ids = Without(@, rule.id)]
          ELSE IF known /\ newId \notin {none, rule.id} THEN
            [d EXCEPT !.ids = assign(Without(@, rule.id))]
          ELSE d
    BY Zenon DEF UpdateOwnership
  <1>2. newId # none => at.path \in DOMAIN d.doc.paths OBVIOUS
  <1>3. rule.kind = "operation" => at.path = rule.path /\ at.method = rule.method OBVIOUS
  <1>4. known => at.path = d.ids[rule.id].path /\ at.method = d.ids[rule.id].method OBVIOUS
  <1>5. place.path = at.path /\ place.method = at.method OBVIOUS
  <1> HIDE DEF at, newId, place
  <1>6. ASSUME NEW ids, \A id \in DOMAIN ids : Kept(ids, id)
        PROVE  \A id \in DOMAIN assign(ids) : Kept(assign(ids), id) \/ Placed(assign(ids), id)
    <2>1. CASE newId = none BY <2>1, <1>6
    <2>2. CASE newId # none
      <3> DEFINE with == With(ids, newId, place)
      <3>1. DOMAIN with = {newId} \cup DOMAIN ids /\ with[newId] = place
            /\ \A x \in DOMAIN ids : x # newId => with[x] = ids[x]
        BY DEF With
      <3>2. assign(ids) = with BY <2>2
      <3> HIDE DEF with
      <3>3. \A id \in DOMAIN with : Kept(with, id) \/ Placed(with, id) BY <3>1, <1>2, <1>6, <2>2
      <3> QED BY <3>2, <3>3
    <2> QED BY <2>1, <2>2
  <1>7. ASSUME NEW path, NEW methods
        PROVE  \A id \in DOMAIN Forget(d.ids, path, methods) : Kept(Forget(d.ids, path, methods), id)
    BY DEF Forget
  <1>8. \A id \in DOMAIN Without(d.ids, rule.id) : Kept(Without(d.ids, rule.id), id) BY DEF Without
  <1> DEFINE with == With(d.owner, rule.path, owner)
             without == Without(d.owner, rule.path)
             forget == Forget(d.ids, rule.path, Methods)
             drop == Forget(d.ids, at.path, {at.method})
             assigned == assign(d.ids)
             lost == Without(d.ids, rule.id)
             moved == assign(lost)
  <1>9. /\ \A id \in DOMAIN forget : Kept(forget, id)
        /\ \A id \in DOMAIN drop : Kept(drop, id)
        /\ \A id \in DOMAIN lost : Kept(lost, id)
        /\ \A id \in DOMAIN assigned : Kept(assigned, id) \/ Placed(assigned, id)
        /\ \A id \in DOMAIN moved : Kept(moved, id) \/ Placed(moved, id)
    <2>1. \A id \in DOMAIN d.ids : Kept(d.ids, id) OBVIOUS
    <2>2. \A id \in DOMAIN assigned : Kept(assigned, id) \/ Placed(assigned, id) BY <2>1, <1>6
    <2>3. \A id \in DOMAIN moved : Kept(moved, id) \/ Placed(moved, id) BY <1>6, <1>8
    <2> QED BY <1>7, <1>8, <2>2, <2>3
  <1>10. new =
          IF rule.kind = "path" /\ rule.op = "add" THEN [d EXCEPT !.owner = with]
          ELSE IF rule.kind = "path" /\ rule.op = "remove" THEN
            [d EXCEPT !.owner = without, !.ids = forget]
          ELSE IF rule.kind = "operation" /\ rule.op = "remove" THEN [d EXCEPT !.ids = drop]
          ELSE IF rule.kind = "operation" THEN
            [d EXCEPT !.owner = IF rule.op = "add" THEN with ELSE @, !.ids = assigned]
          ELSE IF known /\ rule.op = "remove" THEN [d EXCEPT !.ids = lost]
          ELSE IF known /\ newId \notin {none, rule.id} THEN [d EXCEPT !.ids = moved]
          ELSE d
    BY <1>1
  <1> HIDE DEF with, without, forget, drop, assigned, lost, moved, new, owner
  <1> DEFINE Is(o, i) == DOMAIN new = {"doc", "owner", "ids"} /\ new.doc = d.doc
                         /\ new.owner = o /\ new.ids = i
  <1>11. /\ rule.kind \in {"info", "path", "operation", "operationId", "component"}
         /\ rule.op \in {"replace", "add", "remove"}
    BY DEF IsRule
  <1>12. /\ rule.kind = "path" /\ rule.op = "add" => Is(with, d.ids)
         /\ rule.kind = "path" /\ rule.op = "remove" => Is(without, forget)
         /\ rule.kind = "path" /\ rule.op = "replace" => Is(d.owner, d.ids)
         /\ rule.kind = "operation" /\ rule.op = "remove" => Is(d.owner, drop)
         /\ rule.kind = "operation" /\ rule.op = "add" => Is(with, assigned)
         /\ rule.kind = "operation" /\ rule.op = "replace" => Is(d.owner, assigned)
         /\ rule.kind = "operationId" =>
              Is(d.owner, d.ids) \/ (known /\ (Is(d.owner, lost) \/ Is(d.owner, moved)))
         /\ rule.kind \in {"info", "component"} => Is(d.owner, d.ids)
    <2>1. CASE rule.kind = "path"
      <3>1. CASE rule.op = "add" BY <3>1, <2>1, <1>10
      <3>2. CASE rule.op = "remove"
        <4>1. new = [d EXCEPT !.owner = without, !.ids = forget] BY <3>2, <2>1, <1>10
        <4> QED BY <4>1, <3>2, <2>1
      <3>3. CASE rule.op = "replace"
        <4>1. new = d BY <3>3, <2>1, <1>10
        <4> QED BY <4>1, <3>3, <2>1
      <3> QED BY <2>1, <3>1, <3>2, <3>3, <1>11
    <2>2. CASE rule.kind = "operation"
      <3>1. CASE rule.op = "remove"
        <4>1. rule.kind # "path" /\ rule.kind = "operation" /\ rule.op = "remove" BY <3>1, <2>2
        <4>2. new = [d EXCEPT !.ids = drop] BY ONLY Zenon, <4>1, <1>10
        <4> QED BY <4>2, <3>1, <2>2
      <3>2. CASE rule.op = "add"
        <4>1. new = [d EXCEPT !.owner = with, !.ids = assigned] BY <3>2, <2>2, <1>10
        <4> QED BY <4>1, <3>2, <2>2
      <3>3. CASE rule.op = "replace"
        <4>1. new = [d EXCEPT !.owner = d.owner, !.ids = assigned] BY <3>3, <2>2, <1>10
        <4> QED BY <4>1, <3>3, <2>2
      <3> QED BY <2>2, <3>1, <3>2, <3>3, <1>11
    <2>3. CASE rule.kind = "operationId"
      <3>1. new = [d EXCEPT !.ids = lost] => Is(d.owner, lost) OBVIOUS
      <3>2. new = [d EXCEPT !.ids = moved] => Is(d.owner, moved) OBVIOUS
      <3>3. new = d => Is(d.owner, d.ids) OBVIOUS
      <3>4. new = d \/ (known /\ (new = [d EXCEPT !.ids = lost] \/ new = [d EXCEPT !.ids = moved]))
        BY <2>3, <1>10
      <3> QED BY <2>3, <3>1, <3>2, <3>3, <3>4
    <2>4. CASE rule.kind \in {"info", "component"}
      <3>1. new = d BY <2>4, <1>10
      <3> QED BY <2>4, <3>1
    <2> QED BY <2>1, <2>2, <2>3, <2>4, <1>11
  <1>13. new.owner = CASE rule.kind \in {"path", "operation"} /\ rule.op = "add" -> with
                       [] rule.kind = "path" /\ rule.op = "remove" -> without
                       [] OTHER -> d.owner
    BY <1>11, <1>12
  <1>14. DOMAIN new = {"doc", "owner", "ids"} /\ new.doc = d.doc BY <1>11, <1>12
  <1>15. rule.kind = "path" /\ rule.op = "remove" => new.ids = forget BY <1>12
  <1>16. ASSUME NEW id \in DOMAIN new.ids
         PROVE  \/ Kept(new.ids, id)
                \/ Placed(new.ids, id) /\ (rule.kind = "operation" \/ known)
    <2>1. CASE rule.kind = "path" BY <2>1, <1>9, <1>11, <1>12
    <2>2. CASE rule.kind = "operation" BY <2>2, <1>9, <1>11, <1>12
    <2>3. CASE rule.kind = "operationId" BY <2>3, <1>9, <1>12
    <2>4. CASE rule.kind \in {"info", "component"} BY <2>4, <1>12
    <2> QED BY <2>1, <2>2, <2>3, <2>4, <1>11
  <1>17. \A id \in DOMAIN new.ids :
           \/ id \in DOMAIN d.ids /\ new.ids[id] = d.ids[id]
           \/ /\ rule.kind = "operation"
              /\ new.ids[id].path = rule.path /\ new.ids[id].method = rule.method
              /\ rule.path \in DOMAIN d.doc.paths
           \/ /\ rule.kind = "operationId" /\ rule.id \in DOMAIN d.ids
              /\ new.ids[id].path = d.ids[rule.id].path
              /\ new.ids[id].method = d.ids[rule.id].method
              /\ d.ids[rule.id].path \in DOMAIN d.doc.paths
    BY <1>3, <1>4, <1>5, <1>16
  <1>18. Owned(d, rule, owner, new) BY <1>13, <1>14, <1>15, <1>17 DEF Owned, with, without, forget
  <1> QED BY <1>18 DEF new, owner

(* A rule that RuleCode lets pass keeps the document well formed and the     *)
(* provenance true.                                                          *)
LEMMA RuleIsDraft ==
  ASSUME NEW draft, NEW rule, NEW app, IsDraft(draft), IsRule(rule),
         RuleCode(draft, rule, app) = "none"
  PROVE  IsDraft(ApplyRule(draft, rule, app))
  <1> DEFINE doc == RuleDoc(draft, rule)
             d == [draft EXCEPT !.doc = doc]
             new == UpdateOwnership(d, rule, app)
             owner == IF app = none THEN "global" ELSE app
             old == draft.doc.paths
             paths == doc.paths
  <1>1. ApplyRule(draft, rule, app) = new BY ApplyRuleIs
  <1>2. DOMAIN draft = {"doc", "owner", "ids"} /\ IsDocument(draft.doc) /\ Provenance(draft)
    BY DEF IsDraft
  <1>3. Changes(draft, rule, doc) BY RuleChanges
  <1> HIDE DEF doc
  <1>4. DOMAIN d = {"doc", "owner", "ids"} /\ d.doc = doc /\ d.owner = draft.owner /\ d.ids = draft.ids
    BY <1>2
  <1> HIDE DEF d
  <1>5. Owned(d, rule, owner, new) BY <1>4, Ownership
  <1> HIDE DEF new, owner
  <1>6. /\ rule.kind \in {"info", "path", "operation", "operationId", "component"}
        /\ rule.op \in {"replace", "add", "remove"}
        /\ rule.kind = "operation" => rule.method \in Methods
    BY DEF IsRule
  <1>7. DOMAIN draft.owner = DOMAIN old
        /\ \A id \in DOMAIN draft.ids :
             draft.ids[id].path \in DOMAIN old /\ draft.ids[id].method \in Methods
    BY <1>2 DEF Provenance
  <1> DEFINE with == With(d.owner, rule.path, owner)
             without == Without(d.owner, rule.path)
  <1>8. DOMAIN with = {rule.path} \cup DOMAIN d.owner /\ DOMAIN without = DOMAIN d.owner \ {rule.path}
    BY DEF With, Without
  <1> HIDE DEF with, without
  <1>9. /\ rule.kind = "path" /\ rule.op # "add" => rule.path \in DOMAIN old
        /\ rule.kind = "operation" /\ rule.op # "add" => rule.path \in DOMAIN old
        /\ rule.kind = "operationId" => TargetPath(draft, rule) \in DOMAIN old
    BY Passed DEF TargetPath
  <1>10. rule.kind \in {"path", "operation"} => TargetPath(draft, rule) = rule.path BY DEF TargetPath
  <1>11. /\ rule.kind \notin PathKinds => paths = old
         /\ rule.kind \in PathKinds =>
              DOMAIN paths = IF rule.op = "remove" /\ rule.kind = "path" THEN DOMAIN old \ {rule.path}
                             ELSE DOMAIN old \cup {TargetPath(draft, rule)}
    BY <1>3 DEF Changes
  <1> HIDE DEF old, paths
  <1>12. DOMAIN new.owner = DOMAIN paths
    <2>1. CASE rule.kind = "path" /\ rule.op = "add"
      <3>1. new.owner = with BY <2>1, <1>5 DEF with, Owned
      <3> QED BY <3>1, <2>1, <1>4, <1>7, <1>8, <1>10, <1>11 DEF PathKinds
    <2>2. CASE rule.kind = "path" /\ rule.op = "remove"
      <3>1. new.owner = without BY <2>2, <1>5 DEF without, Owned
      <3> QED BY <3>1, <2>2, <1>4, <1>7, <1>8, <1>10, <1>11 DEF PathKinds
    <2>3. CASE rule.kind = "path" /\ rule.op = "replace"
      <3>1. new.owner = d.owner BY <2>3, <1>5 DEF Owned
      <3>2. TargetPath(draft, rule) \in DOMAIN old BY <2>3, <1>6, <1>9, <1>10
      <3>3. DOMAIN paths = DOMAIN old \cup {TargetPath(draft, rule)} BY <2>3, <1>11 DEF PathKinds
      <3>4. DOMAIN paths = DOMAIN old BY <3>2, <3>3
      <3> QED BY <3>1, <3>4, <1>4, <1>7
    <2>4. CASE rule.kind = "operation" /\ rule.op = "add"
      <3>1. new.owner = with BY <2>4, <1>5 DEF with, Owned
      <3> QED BY <3>1, <2>4, <1>4, <1>7, <1>8, <1>10, <1>11 DEF PathKinds
    <2>5. CASE rule.kind = "operation" /\ rule.op # "add"
      <3>1. new.owner = d.owner BY <2>5, <1>5 DEF Owned
      <3>2. TargetPath(draft, rule) \in DOMAIN old BY <2>5, <1>6, <1>9, <1>10
      <3>3. DOMAIN paths = DOMAIN old \cup {TargetPath(draft, rule)} BY <2>5, <1>11 DEF PathKinds
      <3>4. DOMAIN paths = DOMAIN old BY <3>2, <3>3
      <3> QED BY <3>1, <3>4, <1>4, <1>7
    <2>6. CASE rule.kind = "operationId"
      <3>1. new.owner = d.owner BY <2>6, <1>5 DEF Owned
      <3>2. TargetPath(draft, rule) \in DOMAIN old BY <2>6, <1>6, <1>9
      <3>3. DOMAIN paths = DOMAIN old \cup {TargetPath(draft, rule)} BY <2>6, <1>11 DEF PathKinds
      <3>4. DOMAIN paths = DOMAIN old BY <3>2, <3>3
      <3> QED BY <3>1, <3>4, <1>4, <1>7
    <2>7. CASE rule.kind \in {"info", "component"}
      <3>1. new.owner = d.owner BY <2>7, <1>5 DEF Owned
      <3> QED BY <3>1, <2>7, <1>4, <1>7, <1>11 DEF PathKinds
    <2> QED BY <2>1, <2>2, <2>3, <2>4, <2>5, <2>6, <2>7, <1>6
  <1>13. ASSUME NEW id \in DOMAIN new.ids
         PROVE  new.ids[id].path \in DOMAIN paths /\ new.ids[id].method \in Methods
    <2>1. CASE rule.kind = "path" /\ rule.op = "remove"
      <3>1. new.ids = Forget(draft.ids, rule.path, Methods) BY <2>1, <1>4, <1>5 DEF Owned
      <3>2. id \in DOMAIN draft.ids /\ new.ids[id] = draft.ids[id]
            /\ ~(draft.ids[id].path = rule.path /\ draft.ids[id].method \in Methods)
        BY <3>1 DEF Forget
      <3> QED BY <3>2, <2>1, <1>7, <1>11 DEF PathKinds
    <2>2. CASE ~(rule.kind = "path" /\ rule.op = "remove")
      <3>1. DOMAIN old \subseteq DOMAIN paths BY <2>2, <1>11
      <3>2. \/ id \in DOMAIN draft.ids /\ new.ids[id] = draft.ids[id]
            \/ /\ rule.kind = "operation"
               /\ new.ids[id].path = rule.path /\ new.ids[id].method = rule.method
               /\ rule.path \in DOMAIN paths
            \/ /\ rule.kind = "operationId" /\ rule.id \in DOMAIN draft.ids
               /\ new.ids[id].path = draft.ids[rule.id].path
               /\ new.ids[id].method = draft.ids[rule.id].method
        BY <1>4, <1>5 DEF paths, Owned
      <3> QED BY <3>1, <3>2, <1>6, <1>7
    <2> QED BY <2>1, <2>2
  <1>14. IsDocument(doc) BY <1>3 DEF Changes
  <1>15. Provenance(new) BY <1>4, <1>5, <1>12, <1>13 DEF Provenance, paths, Owned
  <1>16. IsDraft(new) BY <1>4, <1>5, <1>14, <1>15 DEF IsDraft, Owned
  <1> QED BY <1>1, <1>16

(* What a rule of app leaves alone in the draft.                             *)
Home(draft, new, app) ==
  /\ [new.doc EXCEPT !.paths = <<>>] = [draft.doc EXCEPT !.paths = <<>>]
  /\ \A p \in DOMAIN draft.owner :
       draft.owner[p] # app =>
         new.owner[p] = draft.owner[p] /\ new.doc.paths[p] = draft.doc.paths[p]

LEMMA RuleStaysHome ==
  ASSUME NEW draft, NEW rule, NEW app, IsDraft(draft), IsRule(rule), app # none,
         RuleCode(draft, rule, app) = "none"
  PROVE  Home(draft, ApplyRule(draft, rule, app), app)
  <1> DEFINE doc == RuleDoc(draft, rule)
             d == [draft EXCEPT !.doc = doc]
             new == UpdateOwnership(d, rule, app)
             target == TargetPath(draft, rule)
  <1>1. ApplyRule(draft, rule, app) = new BY ApplyRuleIs
  <1>2. DOMAIN draft = {"doc", "owner", "ids"} /\ DOMAIN draft.owner = DOMAIN draft.doc.paths
    BY DEF IsDraft, Provenance
  <1>3. Changes(draft, rule, doc) BY RuleChanges
  <1> HIDE DEF doc
  <1>4. DOMAIN d = {"doc", "owner", "ids"} /\ d.doc = doc /\ d.owner = draft.owner BY <1>2
  <1> HIDE DEF d
  <1> DEFINE owner == IF app = none THEN "global" ELSE app
  <1>5a. Owned(d, rule, owner, new) BY <1>4, Ownership
  <1>5b. owner = app OBVIOUS
  <1> HIDE DEF new, owner
  <1>5. /\ new.doc = d.doc
        /\ new.owner = CASE rule.kind \in {"path", "operation"} /\ rule.op = "add" ->
                              With(d.owner, rule.path, app)
                         [] rule.kind = "path" /\ rule.op = "remove" -> Without(d.owner, rule.path)
                         [] OTHER -> d.owner
    BY <1>5a, <1>5b DEF Owned
  <1>6. ~OutOfScope(draft, rule, app) BY Passed
  <1>7. rule.kind \in PathKinds BY <1>6 DEF OutOfScope, IsRule, PathKinds
  <1>8. rule.kind = "operationId" => rule.id \in DOMAIN draft.ids BY Passed
  <1>9. target \in DOMAIN draft.owner => draft.owner[target] = app
    BY <1>6, <1>8 DEF OutOfScope, TargetPath
  <1>10. rule.kind \in {"path", "operation"} => target = rule.path BY DEF TargetPath
  <1>11. [doc EXCEPT !.paths = <<>>] = [draft.doc EXCEPT !.paths = <<>>]
         /\ \A p \in DOMAIN draft.doc.paths : p # target => doc.paths[p] = draft.doc.paths[p]
    BY <1>3, <1>7 DEF Changes
  <1> HIDE DEF target
  <1>12. ASSUME NEW p \in DOMAIN draft.owner, draft.owner[p] # app
         PROVE  new.owner[p] = draft.owner[p] /\ new.doc.paths[p] = draft.doc.paths[p]
    <2>1. p # target BY <1>9, <1>12
    <2>2. new.doc.paths[p] = draft.doc.paths[p] BY <2>1, <1>2, <1>4, <1>5, <1>11
    <2>3. With(d.owner, rule.path, app)[p] = IF p = rule.path THEN app ELSE draft.owner[p]
      BY <1>4 DEF With
    <2>4. p # rule.path => Without(d.owner, rule.path)[p] = draft.owner[p] BY <1>4 DEF Without
    <2>5. new.owner[p] = draft.owner[p]
      <3>1. CASE rule.kind \in {"path", "operation"}
        BY <3>1, <2>1, <2>3, <2>4, <1>4, <1>5, <1>10
      <3>2. CASE rule.kind = "operationId" BY <3>2, <1>4, <1>5
      <3> QED BY <3>1, <3>2, <1>7 DEF PathKinds
    <2> QED BY <2>2, <2>5
  <1>13. Home(draft, new, app) BY <1>4, <1>5, <1>11, <1>12 DEF Home
  <1> QED BY <1>1, <1>13

-----------------------------------------------------------------------------
(* References *)

(* A value in its canonical form that refers to what is declared and has no  *)
(* variable, if it refers to anything.                                       *)
Settled(value, index, variable) ==
  /\ value.form # "bare"
  /\ value.form = "template" => Identity(value) \in index \ DOMAIN variable

LEMMA ScalarSettled ==
  ASSUME NEW value, NEW with, ResolveScalar(value, with).code = "none"
  PROVE  Settled(ResolveScalar(value, with).value, with.index, with.variable)
  <1> DEFINE template == IF value.form = "bare" THEN Template("functions", value.name, "id") ELSE value
             code == ValidateResourceReference(template, with.index)
             name == with.variable[Identity(template)]
             r == ResolveScalar(value, with)
  <1>1. r = CASE template.form # "template" -> Resolved("none", value)
              [] template.form = "template" /\ code # "none" -> Resolved(code, value)
              [] template.form = "template" /\ code = "none" ->
                   IF Identity(template) \notin DOMAIN with.variable THEN Resolved("none", template)
                   ELSE IF name \in with.environment THEN Resolved("none", Literal(name))
                   ELSE Resolved("RESOURCE_REF_ENV_NOT_SET", value)
    BY Zenon DEF ResolveScalar
  <1>2. value.form = "bare" => template.form = "template" BY DEF Template, Value
  <1>3. value.form # "bare" => template = value OBVIOUS
  <1>4. template.form = "template" /\ code = "none" => Identity(template) \in with.index
    BY DEF ValidateResourceReference
  <1>5. Literal(name).form = "literal" BY DEF Literal, Value
  <1>6. \A c, v : Resolved(c, v).code = c /\ Resolved(c, v).value = v BY DEF Resolved
  <1>7. r.code = "none" OBVIOUS
  <1> HIDE DEF template, code, name, r
  <1>8. CASE template.form # "template"
    <2>1. r.value = value BY <1>8, <1>1, <1>6
    <2> QED BY <2>1, <1>2, <1>3, <1>8 DEF Settled, r
  <1>9. CASE template.form = "template" /\ code # "none"
    <2>1. r = Resolved(code, value) BY <1>9, <1>1
    <2> QED BY <2>1, <1>6, <1>7, <1>9
  <1>10. CASE template.form = "template" /\ code = "none"
    <2>1. r = IF Identity(template) \notin DOMAIN with.variable THEN Resolved("none", template)
              ELSE IF name \in with.environment THEN Resolved("none", Literal(name))
              ELSE Resolved("RESOURCE_REF_ENV_NOT_SET", value)
      BY <1>10, <1>1
    <2>2. \/ Identity(template) \notin DOMAIN with.variable /\ r.value = template
          \/ r.value = Literal(name)
      BY <2>1, <1>6, <1>7
    <2>3. template.form # "bare" BY <1>10
    <2> QED BY <2>2, <2>3, <1>4, <1>5, <1>10 DEF Settled, r
  <1> QED BY <1>8, <1>9, <1>10

LEMMA NoCode ==
  ASSUME NEW values, NEW with, ResolveCode(values, with) = "none", NEW v \in values
  PROVE  ResolveScalar(v, with).code = "none"
  <1> DEFINE codes == {ResolveScalar(x, with).code : x \in values} \ {"none"}
  <1>1. codes = {} \/ (CHOOSE c \in codes : TRUE) = "none" BY DEF ResolveCode
  <1>2. codes # {} => (CHOOSE c \in codes : TRUE) \in codes OBVIOUS
  <1>3. "none" \notin codes OBVIOUS
  <1>4. codes = {} BY <1>1, <1>2, <1>3
  <1> QED BY <1>4

(* The resolution of a document puts the value of each bearer in its place.  *)
LEMMA Bearers ==
  ASSUME NEW doc, NEW with, IsDocument(doc)
  PROVE  LET new == ResolveReferences(doc, with)
         IN  /\ IsDocument(new) /\ DOMAIN new.paths = DOMAIN doc.paths
             /\ \A b \in BearerFields(new) :
                  \E c \in BearerFields(doc) : b[3] = ResolveScalar(c[3], with).value
  <1> DEFINE new == ResolveReferences(doc, with)
             fields(f) == [k \in DOMAIN f |-> [f[k] EXCEPT !.ref = ResolveScalar(@, with).value]]
             paths == [p \in DOMAIN doc.paths |-> fields(doc.paths[p])]
             comps == [s \in DOMAIN doc.components |->
                         IF s = "securitySchemes" THEN fields(doc.components[s])
                         ELSE doc.components[s]]
  <1>1. new = [doc EXCEPT !.paths = paths, !.components = comps] BY Zenon DEF ResolveReferences
  <1>2. DOMAIN doc = {"version", "info", "security", "paths", "components"} BY DEF IsDocument
  <1>3. DOMAIN paths = DOMAIN doc.paths /\ DOMAIN comps = DOMAIN doc.components OBVIOUS
  <1>4. ASSUME NEW p \in DOMAIN doc.paths
        PROVE  /\ DOMAIN paths[p] = DOMAIN doc.paths[p]
               /\ \A m \in DOMAIN doc.paths[p] :
                    /\ IsOperation(paths[p][m]) /\ paths[p][m].domain = doc.paths[p][m].domain
                    /\ paths[p][m].ref = ResolveScalar(doc.paths[p][m].ref, with).value
    <2>1. DOMAIN paths[p] = DOMAIN doc.paths[p] BY <1>4
    <2>2. ASSUME NEW m \in DOMAIN doc.paths[p]
          PROVE  /\ IsOperation(paths[p][m]) /\ paths[p][m].domain = doc.paths[p][m].domain
                 /\ paths[p][m].ref = ResolveScalar(doc.paths[p][m].ref, with).value
      <3> DEFINE o == doc.paths[p][m]
                 n == paths[p][m]
      <3>1. IsOperation(o) BY <2>2, <1>4 DEF IsDocument, IsItem
      <3>2. n = [o EXCEPT !.ref = ResolveScalar(@, with).value] BY <2>2, <1>4
      <3> HIDE DEF o, n
      <3>3. DOMAIN o = {"id", "security", "domain", "ref", "text"} BY <3>1 DEF IsOperation
      <3>4. DOMAIN n = DOMAIN o /\ n.ref = ResolveScalar(o.ref, with).value /\ n.domain = o.domain
        BY <3>2, <3>3
      <3> QED BY <3>3, <3>4 DEF IsOperation, o, n
    <2> QED BY <2>1, <2>2
  <1>5. ASSUME NEW s \in DOMAIN doc.components
        PROVE  /\ DOMAIN comps[s] = DOMAIN doc.components[s]
               /\ \A n \in DOMAIN doc.components[s] : IsEntry(comps[s][n])
               /\ s = "securitySchemes" => \A n \in DOMAIN doc.components[s] :
                    comps[s][n].ref = ResolveScalar(doc.components[s][n].ref, with).value
    <2>1. \A n \in DOMAIN doc.components[s] : IsEntry(doc.components[s][n]) BY <1>5 DEF IsDocument
    <2>2. CASE s # "securitySchemes"
      <3>1. comps[s] = doc.components[s] BY <2>2, <1>5
      <3> HIDE DEF comps
      <3> QED BY <3>1, <2>1, <2>2
    <2>3. CASE s = "securitySchemes"
      <3>1. comps[s] = fields(doc.components[s]) BY <2>3, <1>5
      <3>2. DOMAIN comps[s] = DOMAIN doc.components[s] BY <3>1
      <3>3. ASSUME NEW n \in DOMAIN doc.components[s]
            PROVE  IsEntry(comps[s][n])
                   /\ comps[s][n].ref = ResolveScalar(doc.components[s][n].ref, with).value
        <4> DEFINE o == doc.components[s][n]
                   e == comps[s][n]
        <4>1. e = [o EXCEPT !.ref = ResolveScalar(@, with).value] BY <3>1, <3>3
        <4>2. DOMAIN o = {"ref", "text"} BY <2>1, <3>3 DEF IsEntry
        <4> HIDE DEF o, e
        <4>3. DOMAIN e = DOMAIN o /\ e.ref = ResolveScalar(o.ref, with).value BY <4>1, <4>2
        <4> QED BY <4>2, <4>3 DEF IsEntry, o, e
      <3> QED BY <3>2, <3>3
    <2> QED BY <2>2, <2>3
  <1> HIDE DEF paths, comps, new
  <1>6. DOMAIN new = DOMAIN doc /\ new.paths = paths /\ new.components = comps BY <1>1, <1>2
  <1>7. IsDocument(new) BY <1>2, <1>3, <1>4, <1>5, <1>6 DEF IsDocument, IsItem
  <1>8. ASSUME NEW b \in BearerFields(new)
        PROVE  \E c \in BearerFields(doc) : b[3] = ResolveScalar(c[3], with).value
    <2>1. \/ /\ "securitySchemes" \in DOMAIN comps
             /\ \E n \in DOMAIN comps["securitySchemes"] :
                  b = <<<<"securitySchemes", n>>, "functions", comps["securitySchemes"][n].ref>>
          \/ \E p \in DOMAIN paths : \E m \in DOMAIN paths[p] :
               b = <<<<p, m>>, paths[p][m].domain, paths[p][m].ref>>
      BY <1>6, <1>8 DEF BearerFields
    <2>2. CASE /\ "securitySchemes" \in DOMAIN comps
               /\ \E n \in DOMAIN comps["securitySchemes"] :
                    b = <<<<"securitySchemes", n>>, "functions", comps["securitySchemes"][n].ref>>
      <3>1. PICK n \in DOMAIN comps["securitySchemes"] :
              b = <<<<"securitySchemes", n>>, "functions", comps["securitySchemes"][n].ref>>
        BY <2>2
      <3> DEFINE v == doc.components["securitySchemes"][n].ref
                 c == <<<<"securitySchemes", n>>, "functions", v>>
      <3>2. n \in DOMAIN doc.components["securitySchemes"]
            /\ "securitySchemes" \in DOMAIN doc.components
            /\ comps["securitySchemes"][n].ref = ResolveScalar(v, with).value
        BY <2>2, <3>1, <1>3, <1>5
      <3>3. c \in BearerFields(doc) BY <3>2 DEF BearerFields
      <3>4. b[3] = ResolveScalar(v, with).value /\ c[3] = v
        <4> HIDE DEF v
        <4> QED BY <3>1, <3>2
      <3> QED BY <3>3, <3>4
    <2>3. CASE \E p \in DOMAIN paths : \E m \in DOMAIN paths[p] :
                 b = <<<<p, m>>, paths[p][m].domain, paths[p][m].ref>>
      <3>1. PICK p \in DOMAIN paths : \E m \in DOMAIN paths[p] :
              b = <<<<p, m>>, paths[p][m].domain, paths[p][m].ref>>
        BY <2>3
      <3>2. PICK m \in DOMAIN paths[p] : b = <<<<p, m>>, paths[p][m].domain, paths[p][m].ref>>
        BY <3>1
      <3> DEFINE v == doc.paths[p][m].ref
                 d == doc.paths[p][m].domain
                 c == <<<<p, m>>, d, v>>
      <3>3. p \in DOMAIN doc.paths /\ m \in DOMAIN doc.paths[p]
            /\ paths[p][m].ref = ResolveScalar(v, with).value
        BY <3>2, <1>3, <1>4
      <3>4. c \in BearerFields(doc) BY <3>3 DEF BearerFields
      <3>5. b[3] = ResolveScalar(v, with).value /\ c[3] = v
        <4> HIDE DEF v, d
        <4> QED BY <3>2, <3>3
      <3> QED BY <3>4, <3>5
    <2> QED BY <2>1, <2>2, <2>3
  <1>9. DOMAIN new.paths = DOMAIN doc.paths BY <1>3, <1>6
  <1> QED BY <1>7, <1>8, <1>9 DEF new

(* The draft that a call resolves without an error.                          *)
LEMMA ResolvedDraft ==
  ASSUME NEW draft, NEW with, NEW doc, IsDraft(draft), doc = ResolveReferences(draft.doc, with),
         ResolveCode({b[3] : b \in BearerFields(draft.doc)}, with) = "none"
  PROVE  /\ IsDraft([draft EXCEPT !.doc = doc]) /\ [draft EXCEPT !.doc = doc].doc = doc
         /\ \A b \in BearerFields(doc) : Settled(b[3], with.index, with.variable)
         /\ CollectResourceReferences(doc) \subseteq with.index
  <1> DEFINE new == [draft EXCEPT !.doc = doc]
  <1>1. IsDocument(draft.doc) /\ DOMAIN draft = {"doc", "owner", "ids"} /\ Provenance(draft)
    BY DEF IsDraft
  <1>2. /\ IsDocument(doc) /\ DOMAIN doc.paths = DOMAIN draft.doc.paths
        /\ \A b \in BearerFields(doc) :
             \E c \in BearerFields(draft.doc) : b[3] = ResolveScalar(c[3], with).value
    BY <1>1, Bearers
  <1>3. DOMAIN new = DOMAIN draft /\ new.doc = doc /\ new.owner = draft.owner /\ new.ids = draft.ids
    BY <1>1
  <1>4. ASSUME NEW b \in BearerFields(doc) PROVE Settled(b[3], with.index, with.variable)
    <2>1. PICK c \in BearerFields(draft.doc) : b[3] = ResolveScalar(c[3], with).value BY <1>2, <1>4
    <2>2. ResolveScalar(c[3], with).code = "none" BY <2>1, NoCode
    <2>3. Settled(ResolveScalar(c[3], with).value, with.index, with.variable) BY <2>2, ScalarSettled
    <2> QED BY <2>1, <2>3
  <1>5. CollectResourceReferences(doc) \subseteq with.index
    <2> SUFFICES ASSUME NEW b \in BearerFields(doc), b[3].form = "template"
                 PROVE  Identity(b[3]) \in with.index
      BY DEF CollectResourceReferences
    <2> QED BY <1>4 DEF Settled
  <1> HIDE DEF new
  <1>6. IsDraft(new) BY <1>1, <1>2, <1>3 DEF IsDraft, Provenance
  <1> QED BY <1>3, <1>4, <1>5, <1>6 DEF new

-----------------------------------------------------------------------------
(* Lists of rules. *)

(* A sequence of well-formed rules, each with its owner.                     *)
RuleList(rules) ==
  \E S : rules \in Seq(S) /\ \A r \in S : DOMAIN r = {"rule", "app"} /\ IsRule(r.rule)

LEMMA RuleListStep ==
  ASSUME NEW rules, RuleList(rules), rules # <<>>
  PROVE  IsRule(Head(rules).rule) /\ RuleList(Tail(rules))
  <1>1. PICK S : rules \in Seq(S) /\ \A r \in S : DOMAIN r = {"rule", "app"} /\ IsRule(r.rule)
    BY DEF RuleList
  <1>2. Head(rules) \in S /\ Tail(rules) \in Seq(S) BY <1>1
  <1> QED BY <1>1, <1>2 DEF RuleList

LEMMA RuleListConcat ==
  ASSUME NEW r, NEW s, RuleList(r), RuleList(s)
  PROVE  RuleList(r \o s)
  <1>1. PICK S : r \in Seq(S) /\ \A x \in S : DOMAIN x = {"rule", "app"} /\ IsRule(x.rule)
    BY DEF RuleList
  <1>2. PICK T : s \in Seq(T) /\ \A x \in T : DOMAIN x = {"rule", "app"} /\ IsRule(x.rule)
    BY DEF RuleList
  <1> DEFINE U == S \cup T
  <1>3. r \in Seq(U) /\ s \in Seq(U)
    <2>1. S \subseteq U /\ T \subseteq U OBVIOUS
    <2> HIDE DEF U
    <2> QED BY <1>1, <1>2, <2>1
  <1>4. \A x \in U : DOMAIN x = {"rule", "app"} /\ IsRule(x.rule) BY <1>1, <1>2
  <1> HIDE DEF U
  <1>5. r \o s \in Seq(U) BY <1>3
  <1> QED BY <1>4, <1>5 DEF RuleList

(* The partial results of FlattenSeq.                                        *)
Flattening(seqs, n, f) == f = [i \in 1..n |-> IF i = 1 THEN seqs[i] ELSE f[i-1] \o seqs[i]]

LEMMA LeastOf ==
  ASSUME NEW S \in SUBSET Nat, S # {}
  PROVE  \E m \in S : \A n \in S : ~(n < m)
  <1>1. PICK m \in S : \A n \in S : ~(<<n, m>> \in OpToRel(<, Nat))
    BY NatLessThanWellFounded, WFMin
  <1>2. \A n \in S : n < m => <<n, m>> \in OpToRel(<, Nat) BY DEF OpToRel
  <1> QED BY <1>1, <1>2

LEMMA FlatteningExists ==
  ASSUME NEW seqs, NEW n \in Nat
  PROVE  \E f : Flattening(seqs, n, f)
  <1> DEFINE bad == {k \in Nat : ~ \E f : Flattening(seqs, k, f)}
  <1>1. SUFFICES bad = {} OBVIOUS
  <1>2. SUFFICES ASSUME bad # {} PROVE FALSE OBVIOUS
  <1>3. PICK m \in bad : \A k \in bad : ~(k < m)
    <2> HIDE DEF bad
    <2>1. bad \in SUBSET Nat BY DEF bad
    <2> QED BY <1>2, <2>1, LeastOf
  <1>4. m \in Nat /\ ~ \E f : Flattening(seqs, m, f) BY <1>3
  <1>5. CASE m = 0
    <2> DEFINE f == [i \in 1..0 |-> seqs[i]]
    <2>1. f = [i \in 1..0 |-> IF i = 1 THEN seqs[i] ELSE f[i-1] \o seqs[i]]
      <3>1. 1..0 = {} OBVIOUS
      <3> QED BY <3>1
    <2> HIDE DEF f
    <2> QED BY <2>1, <1>4, <1>5 DEF Flattening
  <1>6. CASE m # 0
    <2>1. m - 1 \in Nat /\ m - 1 < m BY <1>4, <1>6
    <2>2. PICK f : Flattening(seqs, m - 1, f) BY <2>1, <1>3
    <2> DEFINE g == [i \in 1..m |-> IF i = 1 THEN seqs[i]
                                    ELSE IF i < m THEN f[i] ELSE f[i-1] \o seqs[i]]
    <2>3. \A i \in 1..m : i < m => g[i] = f[i]
      <3> SUFFICES ASSUME NEW i \in 1..m, i < m PROVE g[i] = f[i] OBVIOUS
      <3>1. CASE i = 1
        <4>1. 1 \in 1..(m - 1) BY <3>1, <1>4
        <4>2. f[1] = seqs[1] BY <4>1, <2>2, <1>4 DEF Flattening
        <4> QED BY <3>1, <4>2
      <3>2. CASE i # 1 BY <3>2
      <3> QED BY <3>1, <3>2
    <2>4. \A i \in 1..m : g[i] = IF i = 1 THEN seqs[i] ELSE g[i-1] \o seqs[i]
      <3> SUFFICES ASSUME NEW i \in 1..m, i # 1 PROVE g[i] = g[i-1] \o seqs[i] OBVIOUS
      <3>1. i - 1 \in 1..m /\ i - 1 < m /\ i \in Nat BY <1>4
      <3>2. g[i-1] = f[i-1] BY <2>3, <3>1
      <3>3. CASE i = m
        <4>1. ~(i < m) /\ i # 1 BY <3>1, <3>3
        <4>2. g[i] = f[i-1] \o seqs[i] BY <4>1
        <4> HIDE DEF g
        <4> QED BY <3>2, <4>2
      <3>4. CASE i < m
        <4>1. i \in 1..(m - 1) BY <3>4, <1>4
        <4>2. f[i] = f[i-1] \o seqs[i] BY <4>1, <2>2 DEF Flattening
        <4>3. g[i] = f[i] BY <2>3, <3>4
        <4> HIDE DEF g
        <4> QED BY <3>2, <4>2, <4>3
      <3>5. i = m \/ i < m
        <4>1. m \in Nat BY <1>4
        <4> HIDE DEF bad
        <4> QED BY <4>1
      <3> QED BY <3>3, <3>4, <3>5
    <2>5. g = [i \in 1..m |-> g[i]] OBVIOUS
    <2> HIDE DEF g
    <2>6. g = [i \in 1..m |-> IF i = 1 THEN seqs[i] ELSE g[i-1] \o seqs[i]] BY <2>4, <2>5
    <2> QED BY <2>6, <1>4 DEF Flattening
  <1> QED BY <1>5, <1>6

LEMMA RuleListFlatten ==
  ASSUME NEW n \in Nat, NEW seqs, DOMAIN seqs = 1..n, Len(seqs) = n,
         \A i \in 1..n : RuleList(seqs[i]), n = 0 => seqs = <<>>
  PROVE  RuleList(FlattenSeq(seqs))
  <1>1. CASE n = 0
    <2>1. FlattenSeq(seqs) = <<>> BY <1>1 DEF FlattenSeq
    <2> DEFINE S == {}
    <2>2. <<>> \in Seq(S) /\ \A r \in S : DOMAIN r = {"rule", "app"} /\ IsRule(r.rule) OBVIOUS
    <2> HIDE DEF S
    <2>3. RuleList(<<>>) BY <2>2 DEF RuleList
    <2> QED BY <2>1, <2>3
  <1>2. CASE n # 0
    <2> DEFINE f == CHOOSE f : Flattening(seqs, n, f)
    <2>1. Flattening(seqs, n, f) BY FlatteningExists
    <2>2. FlattenSeq(seqs) = f[n] BY <1>2 DEF FlattenSeq, Flattening
    <2> HIDE DEF f
    <2> DEFINE bad == {k \in 1..n : ~RuleList(f[k])}
    <2>3. bad = {}
      <3> SUFFICES ASSUME bad # {} PROVE FALSE OBVIOUS
      <3>1. PICK m \in bad : \A k \in bad : ~(k < m)
        <4>1. bad \in SUBSET Nat OBVIOUS
        <4> HIDE DEF bad
        <4> QED BY <4>1, LeastOf
      <3>2. m \in 1..n /\ ~RuleList(f[m]) BY <3>1
      <3>3. CASE m = 1
        <4>1. f[1] = seqs[1] BY <2>1, <3>2, <3>3 DEF Flattening
        <4> QED BY <4>1, <3>2, <3>3
      <3>4. CASE m # 1
        <4>1. m - 1 \in 1..n /\ m - 1 < m BY <3>2, <3>4
        <4>2. RuleList(f[m-1]) BY <4>1, <3>1
        <4>3. f[m] = f[m-1] \o seqs[m] BY <2>1, <3>2, <3>4 DEF Flattening
        <4> QED BY <4>2, <4>3, <3>2, RuleListConcat
      <3> QED BY <3>3, <3>4
    <2>4. n \in 1..n BY <1>2
    <2> QED BY <2>2, <2>3, <2>4
  <1> QED BY <1>1, <1>2

(* The rules of a file, each with the owner of the file.                     *)
LEMMA OwnedRules ==
  ASSUME NEW rules, NEW app, IsRuleList(rules)
  PROVE  RuleList([k \in DOMAIN rules |-> [rule |-> rules[k], app |-> app]])
  <1> DEFINE list == [k \in DOMAIN rules |-> [rule |-> rules[k], app |-> app]]
             S == {[rule |-> r, app |-> app] : r \in Range(rules)}
  <1>1. rules \in Seq(Range(rules)) /\ \A r \in Range(rules) : IsRule(r) BY DEF IsRuleList
  <1>2. DOMAIN rules = 1..Len(rules) /\ Len(rules) \in Nat /\ \A k \in DOMAIN rules : rules[k] \in Range(rules)
    BY <1>1
  <1>3. DOMAIN list = 1..Len(rules) /\ \A k \in 1..Len(rules) : list[k] \in S BY <1>2
  <1>4. list \in Seq(S)
    <2>1. list = [k \in 1..Len(rules) |-> list[k]] BY <1>2
    <2> HIDE DEF list, S
    <2>2. list \in [1..Len(rules) -> S] BY <2>1, <1>3
    <2> QED BY <2>2, <1>2
  <1>5. \A x \in S : DOMAIN x = {"rule", "app"} /\ IsRule(x.rule) BY <1>1
  <1> HIDE DEF list, S
  <1>6. RuleList(list) BY <1>4, <1>5 DEF RuleList
  <1> QED BY <1>6 DEF list

LEMMA RulesOfList ==
  ASSUME NEW files, NEW app, files = <<>> \/ files = <<project.global>>,
         IsRuleList(project.global.rules), IsRuleList(project.apps[app].overrides.rules)
  PROVE  RuleList(RulesOf(project, files, app))
  <1> DEFINE shared == [i \in DOMAIN files |-> [k \in DOMAIN files[i].rules |->
                          [rule |-> files[i].rules[k], app |-> none]]]
             rules == project.apps[app].overrides.rules
             own == [k \in DOMAIN rules |-> [rule |-> rules[k], app |-> app]]
  <1>1. RulesOf(project, files, app) = FlattenSeq(shared) \o own BY Zenon DEF RulesOf
  <1>2. RuleList(own) BY OwnedRules
  <1>3. RuleList(FlattenSeq(shared))
    <2>1. CASE files = <<>>
      <3>1. DOMAIN shared = {} BY <2>1
      <3>2. shared = <<>> BY <3>1
      <3> HIDE DEF shared
      <3>3. DOMAIN shared = 1..0 /\ Len(shared) = 0 /\ \A i \in 1..0 : RuleList(shared[i]) BY <3>2
      <3> QED BY <3>2, <3>3, RuleListFlatten
    <2>2. CASE files = <<project.global>>
      <3> DEFINE global == project.global.rules
                 one == [k \in DOMAIN global |-> [rule |-> global[k], app |-> none]]
      <3>1. RuleList(one) BY OwnedRules
      <3>2. DOMAIN files = 1..1 /\ files[1].rules = global BY <2>2
      <3> HIDE DEF global
      <3>3. DOMAIN shared = 1..1 /\ shared[1] = one BY <3>2
      <3>4. shared = [i \in 1..1 |-> one] BY <3>2
      <3> HIDE DEF shared, one
      <3>5. Len(shared) = 1 /\ \A i \in 1..1 : RuleList(shared[i]) BY <3>1, <3>3, <3>4
      <3> DEFINE n == 1
      <3>6. /\ n \in Nat /\ DOMAIN shared = 1..n /\ Len(shared) = n
            /\ \A i \in 1..n : RuleList(shared[i])
            /\ n = 0 => shared = <<>>
        BY <3>3, <3>5
      <3> HIDE DEF n
      <3> QED BY <3>6, RuleListFlatten
    <2> QED BY <2>1, <2>2
  <1> HIDE DEF shared, own
  <1> QED BY <1>1, <1>2, <1>3, RuleListConcat

(* Resolving the value of a rule leaves it well formed.                      *)
LEMMA RuleResolved ==
  ASSUME NEW rule, NEW with, IsRule(rule)
  PROVE  IsRule(ResolveRule(rule, with))
  <1> DEFINE new == ResolveRule(rule, with)
             settle(bearer) == [bearer EXCEPT !.ref = ResolveScalar(@, with).value]
             item == [m \in DOMAIN rule.value |-> settle(rule.value[m])]
             part == settle(rule.value)
  <1>1. CASE rule.op = "remove" \/ rule.kind = "info" BY <1>1 DEF ResolveRule
  <1>2. CASE ~(rule.op = "remove" \/ rule.kind = "info")
    <2> DEFINE value == IF rule.kind = "path" THEN item ELSE part
    <2>1. new = [rule EXCEPT !.value = value]
      <3>1. new = IF rule.op = "remove" \/ rule.kind = "info" THEN rule
                  ELSE IF rule.kind = "path" THEN [rule EXCEPT !.value = item]
                  ELSE [rule EXCEPT !.value = part]
        BY Zenon DEF ResolveRule
      <3> HIDE DEF new, item, part
      <3> QED BY <3>1, <1>2
    <2>2. DOMAIN rule = {"op", "kind", "path", "method", "id", "name", "value"}
          /\ rule.op # "remove"
      BY <1>2 DEF IsRule
    <2>3. rule.kind = "path" => IsItem(value)
      <3> SUFFICES ASSUME rule.kind = "path" PROVE IsItem(item) OBVIOUS
      <3>1. IsItem(rule.value) BY <2>2 DEF IsRule
      <3>2. ASSUME NEW m \in DOMAIN rule.value PROVE IsOperation(item[m])
        <4> DEFINE o == rule.value[m]
                   n == item[m]
        <4>1. IsOperation(o) BY <3>1, <3>2 DEF IsItem
        <4>2. n = [o EXCEPT !.ref = ResolveScalar(@, with).value] BY <3>2
        <4> HIDE DEF o, n
        <4>3. DOMAIN n = DOMAIN o BY <4>2
        <4> QED BY <4>1, <4>3 DEF IsOperation, n
      <3>3. DOMAIN item = DOMAIN rule.value OBVIOUS
      <3> HIDE DEF item
      <3> QED BY <3>2, <3>3 DEF IsItem
    <2>4. rule.kind # "path" => DOMAIN value = DOMAIN rule.value OBVIOUS
    <2> HIDE DEF value, new
    <2>5. DOMAIN new = DOMAIN rule /\ new.value = value /\ new.op = rule.op /\ new.kind = rule.kind
          /\ new.method = rule.method
      BY <2>1, <2>2
    <2>6. /\ rule.kind \in {"operation", "operationId"} => IsOperation(value)
          /\ rule.kind = "component" => IsEntry(value)
      <3>1. /\ rule.kind \in {"operation", "operationId"} => IsOperation(rule.value)
            /\ rule.kind = "component" => IsEntry(rule.value)
        BY <2>2 DEF IsRule
      <3> QED BY <3>1, <2>4 DEF IsOperation, IsEntry
    <2>7. IsRule(new) BY <1>2, <2>2, <2>3, <2>5, <2>6 DEF IsRule
    <2> QED BY <2>7 DEF new
  <1> QED BY <1>1, <1>2

LEMMA RulesResolved ==
  ASSUME NEW rules, NEW with, RuleList(rules)
  PROVE  RuleList([i \in DOMAIN rules |-> [rules[i] EXCEPT !.rule = ResolveRule(@, with)]])
  <1> DEFINE resolve(r) == [r EXCEPT !.rule = ResolveRule(@, with)]
             list == [i \in DOMAIN rules |-> resolve(rules[i])]
  <1>1. PICK S : rules \in Seq(S) /\ \A r \in S : DOMAIN r = {"rule", "app"} /\ IsRule(r.rule)
    BY DEF RuleList
  <1> DEFINE T == {resolve(r) : r \in S}
  <1>2. \A x \in T : DOMAIN x = {"rule", "app"} /\ IsRule(x.rule)
    <2> SUFFICES ASSUME NEW r \in S
                 PROVE  DOMAIN resolve(r) = {"rule", "app"} /\ IsRule(resolve(r).rule)
      OBVIOUS
    <2>1. DOMAIN r = {"rule", "app"} /\ IsRule(r.rule) BY <1>1
    <2>2. DOMAIN resolve(r) = DOMAIN r /\ resolve(r).rule = ResolveRule(r.rule, with) BY <2>1
    <2> HIDE DEF resolve
    <2> QED BY <2>1, <2>2, RuleResolved
  <1>3. DOMAIN rules = 1..Len(rules) /\ Len(rules) \in Nat /\ \A k \in 1..Len(rules) : rules[k] \in S
    BY <1>1
  <1> HIDE DEF resolve
  <1>4. \A k \in 1..Len(rules) : list[k] \in T BY <1>3
  <1>5. list = [k \in 1..Len(rules) |-> list[k]] BY <1>3
  <1> HIDE DEF T, list
  <1>6. list \in [1..Len(rules) -> T] BY <1>4, <1>5
  <1>7. list \in Seq(T) BY <1>3, <1>6
  <1>8. RuleList(list) BY <1>2, <1>7 DEF RuleList
  <1> QED BY <1>8 DEF list, resolve

-----------------------------------------------------------------------------
(* The inductive invariant *)

Underway(c) == c.pc \notin {"idle", "done"}

(* The request of a call, where it stands, and the apps it is about.         *)
Called(p, c) ==
  /\ DOMAIN c = DOMAIN Idle
  /\ c.req.kind \in Kinds
  /\ c.pc \in StagesOf(c.req.kind) \cup {"idle", "done"}
  /\ Underway(c) =>
       /\ Compiles(c.req.kind) => c.app \in DOMAIN p.apps
       /\ c.req.kind = "compose" => c.req.apps \in Seq(DOMAIN p.apps) /\ c.req.apps # <<>>

(* While compose() collects documents, the one of an app is missing.         *)
Collecting(c) ==
  c.req.kind = "compose" /\ c.pc = "source" => Len(c.parts) < Len(c.req.apps)

(* What is still a reference is declared and has no variable.                *)
Declares(c) ==
  /\ c.refs \subseteq c.index
  /\ \A b \in BearerFields(c.draft.doc) : Settled(b[3], c.index, c.variable)

PartList(parts) == \E S : parts \in Seq(S) /\ \A x \in S : IsDocument(x.doc)

(* What the call has put together.                                           *)
Composed(c) ==
  /\ PartList(c.parts) /\ IsDraft(c.draft) /\ RuleList(c.rules)
  /\ Succeeded(c) /\ c.req.kind # "check" => Declares(c)

Proper(p, c) == Called(p, c) /\ Collecting(c) /\ Composed(c)

CallsProper == DOMAIN job = Jobs /\ \A j \in Jobs : Proper(project, job[j])

(* A process runs for a call that waits for a document.                      *)
ChildrenAwaited ==
  DOMAIN child = Jobs /\ \A j \in Jobs : child[j].state # "off" => job[j].pc \in Extracting

Compiling == {j \in Jobs : Compiles(job[j].req.kind) /\ Underway(job[j])}

(* envScopeDepth counts the compilations that run.                           *)
EnvCounted ==
  /\ DOMAIN scope = {"depth", "wasSet"}
  /\ IsFiniteSet(Compiling) /\ scope.depth = Cardinality(Compiling)
  /\ Compiling # {} => flag = TRUE /\ scope.wasSet = before
  /\ Compiling = {} => flag = before

IInv ==
  /\ \E n \in DOMAIN Projects : project = Projects[n]
  /\ CallsProper /\ ChildrenAwaited /\ EnvCounted

LEMMA Files ==
  ASSUME \E n \in DOMAIN Projects : project = Projects[n]
  PROVE  /\ IsRuleList(project.global.rules)
         /\ \A a \in DOMAIN project.apps :
              IsDocument(project.apps[a].doc) /\ IsRuleList(project.apps[a].overrides.rules)
         /\ \A r \in project.calls :
              /\ r.kind \in Kinds
              /\ r.kind = "build" => r.app \in DOMAIN project.apps
              /\ r.kind = "compose" => r.apps \in Seq(DOMAIN project.apps)
  BY ProjectsAssumption, StageKinds

LEMMA IdleIs ==
  /\ DOMAIN Idle = {"pc", "req", "app", "index", "mode", "variable", "parts", "draft", "rules",
                    "failed", "code", "exit", "refs"}
  /\ Idle.pc = "idle" /\ Idle.req.kind = "check" /\ Idle.parts = <<>> /\ Idle.rules = <<>>
  /\ Idle.code = "none"
  BY DEF Idle, IdleRequest

LEMMA EmptyLists == RuleList(<<>>) /\ PartList(<<>>)
  <1> DEFINE S == {}
  <1>1. <<>> \in Seq(S) OBVIOUS
  <1>2. \A x \in S : DOMAIN x = {"rule", "app"} /\ IsRule(x.rule) /\ IsDocument(x.doc) OBVIOUS
  <1> HIDE DEF S
  <1> QED BY <1>1, <1>2 DEF RuleList, PartList

LEMMA PartAppended ==
  ASSUME NEW parts, NEW app, NEW doc, PartList(parts), IsDocument(doc)
  PROVE  LET new == Append(parts, [app |-> app, doc |-> doc])
         IN  PartList(new) /\ Len(new) = Len(parts) + 1 /\ Len(parts) \in Nat
  <1> DEFINE e == [app |-> app, doc |-> doc]
             new == Append(parts, e)
  <1>1. PICK S : parts \in Seq(S) /\ \A x \in S : IsDocument(x.doc) BY DEF PartList
  <1> DEFINE T == S \cup {e}
  <1>2. \A x \in T : IsDocument(x.doc) BY <1>1
  <1>3. e \in T /\ S \subseteq T OBVIOUS
  <1> HIDE DEF T, e
  <1>4. parts \in Seq(T) BY <1>1, <1>3
  <1>5. new \in Seq(T) /\ Len(new) = Len(parts) + 1 /\ Len(parts) \in Nat BY <1>3, <1>4
  <1>6. PartList(new) BY <1>2, <1>5 DEF PartList
  <1> QED BY <1>5, <1>6 DEF e

LEMMA PartDocuments ==
  ASSUME NEW parts, PartList(parts)
  PROVE  \A i \in DOMAIN parts : IsDocument(parts[i].doc)
  BY DEF PartList

LEMMA InitInv == ASSUME Init PROVE IInv
  <1>1. ASSUME NEW j \in Jobs PROVE job[j] = Idle /\ child[j] = NoChild BY <1>1 DEF Init
  <1>2. Proper(project, Idle)
    <2>1. ~Underway(Idle) /\ ~Succeeded(Idle) BY IdleIs DEF Underway, Succeeded
    <2>2. Called(project, Idle) BY <2>1, IdleIs DEF Called, Kinds
    <2>3. Composed(Idle) BY <2>1, IdleIs, EmptyLists, EmptyDraft DEF Composed
    <2>4. Collecting(Idle) BY IdleIs DEF Collecting
    <2> QED BY <2>2, <2>3, <2>4 DEF Proper
  <1>3. CallsProper BY <1>1, <1>2 DEF CallsProper, Init
  <1>4. ChildrenAwaited BY <1>1 DEF ChildrenAwaited, Init, NoChild
  <1>5. Compiling = {} BY <1>1, IdleIs DEF Compiling, Underway
  <1>6. EnvCounted BY <1>5, FS_EmptySet DEF EnvCounted, Init
  <1> QED BY <1>3, <1>4, <1>6 DEF IInv, Init

-----------------------------------------------------------------------------
(* Steps of one call *)

(* The environment variable when call j goes on, ends or starts.             *)
EnvStep(j, c) ==
  \/ UNCHANGED <<flag, scope>> /\ (j \in Compiling <=> Compiles(c.req.kind) /\ Underway(c))
  \/ LeaveEnvScope /\ j \in Compiling /\ ~Underway(c)
  \/ EnterEnvScope /\ j \notin Compiling /\ Compiles(c.req.kind) /\ Underway(c)

LEMMA EnvKept ==
  ASSUME CallsProper, EnvCounted,
         NEW j \in Jobs, NEW c, job' = [job EXCEPT ![j] = c], before' = before, EnvStep(j, c)
  PROVE  EnvCounted'
  <1> DEFINE on == Compiles(c.req.kind) /\ Underway(c)
             old == Compiling
             new == Compiling'
             n == Cardinality(old)
  <1>1. job'[j] = c /\ \A k \in Jobs : k # j => job'[k] = job[k] BY DEF CallsProper
  <1>2. new = IF on THEN old \cup {j} ELSE old \ {j} BY <1>1 DEF Compiling, Underway
  <1> HIDE DEF on
  <1>3. IsFiniteSet(old) /\ n \in Nat /\ scope.depth = n BY FS_CardinalityType DEF EnvCounted
  <1>4. DOMAIN scope = {"depth", "wasSet"} BY DEF EnvCounted
  <1>5. old # {} => flag = TRUE /\ scope.wasSet = before BY DEF EnvCounted
  <1>6. old = {} => flag = before BY DEF EnvCounted
  <1>7. n = 0 <=> old = {} BY <1>3, FS_EmptySet
  <1>8. CASE UNCHANGED <<flag, scope>> /\ (j \in old <=> on)
    <2>1. new = old BY <1>8, <1>2
    <2> HIDE DEF new, old
    <2> QED BY <2>1, <1>8 DEF EnvCounted, new, old
  <1>9. CASE LeaveEnvScope /\ j \in old /\ ~on
    <2>1. new = old \ {j} BY <1>9, <1>2
    <2>2. IsFiniteSet(new) /\ Cardinality(new) = n - 1 BY <2>1, <1>3, <1>9, FS_RemoveElement
    <2>3. scope' = [scope EXCEPT !.depth = scope.depth - 1]
          /\ flag' = IF n > 1 THEN flag ELSE scope.wasSet
      BY <1>9, <1>3 DEF LeaveEnvScope
    <2>4. DOMAIN scope' = {"depth", "wasSet"} /\ scope'.depth = n - 1 /\ scope'.wasSet = scope.wasSet
      BY <2>3, <1>3, <1>4
    <2>5. n \in Nat /\ n # 0 /\ flag = TRUE /\ scope.wasSet = before BY <1>3, <1>5, <1>7, <1>9
    <2>6. new = {} <=> n - 1 = 0 BY <2>2, FS_EmptySet
    <2> HIDE DEF new, old, n
    <2>7. new # {} => flag' = TRUE BY <2>3, <2>5, <2>6
    <2>8. new = {} => flag' = before BY <2>3, <2>5, <2>6
    <2> QED BY <2>2, <2>4, <2>5, <2>7, <2>8 DEF EnvCounted, new
  <1>10. CASE EnterEnvScope /\ j \notin old /\ on
    <2>1. new = old \cup {j} BY <1>10, <1>2
    <2>2. IsFiniteSet(new) /\ Cardinality(new) = n + 1 BY <2>1, <1>3, <1>10, FS_AddElement
    <2>3. scope' = [depth |-> n + 1, wasSet |-> IF n = 0 THEN flag ELSE scope.wasSet] /\ flag' = TRUE
      BY <1>10, <1>3 DEF EnterEnvScope
    <2>4. DOMAIN scope' = {"depth", "wasSet"} /\ scope'.depth = n + 1 BY <2>3
    <2>5. scope'.wasSet = before BY <2>3, <1>5, <1>6, <1>7
    <2>6. new # {} BY <2>1
    <2> HIDE DEF new, old, n
    <2> QED BY <2>2, <2>3, <2>4, <2>5, <2>6 DEF EnvCounted, new
  <1> QED BY <1>8, <1>9, <1>10 DEF EnvStep, on, Compiling

(* No process is left for call j.                                            *)
Childless(j) ==
  \/ child' = [child EXCEPT ![j] = NoChild]
  \/ UNCHANGED child /\ (child[j].state = "off" \/ job[j].pc \notin Extracting)

LEMMA StepKept ==
  ASSUME IInv, NEW j \in Jobs, NEW c, Proper(project, c), Childless(j), EnvStep(j, c),
         job' = [job EXCEPT ![j] = c], UNCHANGED <<project, before>>
  PROVE  IInv'
  <1>1. /\ DOMAIN job' = Jobs /\ job'[j] = c
        /\ \A k \in Jobs : k # j => job'[k] = job[k]
    BY DEF IInv, CallsProper
  <1>2. CallsProper' BY <1>1 DEF IInv, CallsProper
  <1>3. ChildrenAwaited'
    <2>1. /\ DOMAIN child' = Jobs /\ child'[j].state = "off"
          /\ \A k \in Jobs : k # j => child'[k] = child[k]
      BY DEF IInv, ChildrenAwaited, Childless, NoChild
    <2> QED BY <1>1, <2>1 DEF IInv, ChildrenAwaited
  <1>4. EnvCounted' BY EnvKept DEF IInv
  <1>5. \E n \in DOMAIN Projects : project' = Projects[n] BY DEF IInv
  <1> QED BY <1>2, <1>3, <1>4, <1>5 DEF IInv

(* The place of a call changes what is asked of it only.                     *)
LEMMA MovedOn ==
  ASSUME NEW p, NEW c, NEW next, NEW new, Called(p, c), Composed(c), c.pc \in StagesOf(c.req.kind),
         new = [c EXCEPT !.pc = next], next \in StagesOf(c.req.kind) \cup {"done"},
         c.req.kind = "compose" => next # "source",
         next = "done" /\ c.code = "none" /\ c.req.kind # "check" => Declares(c)
  PROVE  Proper(p, new) /\ new.pc = next /\ new.req = c.req
  <1>1. DOMAIN c = DOMAIN Idle BY DEF Called
  <1>2. /\ DOMAIN new = DOMAIN Idle /\ new.pc = next
        /\ \A x \in DOMAIN Idle : x # "pc" => new[x] = c[x]
    BY <1>1, IdleIs
  <1>3. /\ new.req = c.req /\ new.app = c.app /\ new.parts = c.parts /\ new.draft = c.draft
        /\ new.rules = c.rules /\ new.refs = c.refs /\ new.index = c.index
        /\ new.variable = c.variable /\ new.code = c.code
    BY <1>2, IdleIs
  <1>4. c.req.kind \in Kinds BY DEF Called
  <1>5. Underway(c) BY <1>4, StagesAreStages DEF Underway
  <1>6. Called(p, new) BY <1>2, <1>3, <1>5 DEF Called
  <1>7. Declares(c) => Declares(new) BY <1>3 DEF Declares
  <1>8. Composed(new) BY <1>2, <1>3, <1>7 DEF Composed, Succeeded
  <1>9. Collecting(new) BY <1>2, <1>3 DEF Collecting
  <1> QED BY <1>2, <1>3, <1>6, <1>8, <1>9 DEF Proper

LEMMA SourceComesFirst ==
  ASSUME NEW stage \in StagesOf("compose")
  PROVE  StageAfter("compose", stage) # "source"
  <1> DEFINE s == Stages["compose"]
             i == CHOOSE k \in DOMAIN s : s[k] = stage
  <1>1. DOMAIN s = 1..8 /\ Len(s) = 8 BY DEF Stages
  <1>2. i \in 1..8 BY <1>1 DEF StagesOf
  <1>3. StageAfter("compose", stage) = IF i = Len(s) THEN "done" ELSE s[i + 1] BY Zenon DEF StageAfter
  <1>4. \A k \in 2..8 : s[k] # "source" BY DEF Stages
  <1> HIDE DEF i, s
  <1>5. i = 8 \/ i + 1 \in 2..8 BY <1>2
  <1> QED BY <1>1, <1>3, <1>4, <1>5

LEMMA Continued ==
  ASSUME IInv, NEW j \in Jobs, NEW c, Called(project, c), Composed(c),
         c.pc \in StagesOf(c.req.kind), c.req = job[j].req, Underway(job[j]), Childless(j),
         Continue(j, c), c.pc = "resolve" /\ c.req.kind # "check" => Declares(c)
  PROVE  IInv'
  <1> DEFINE kind == c.req.kind
             next == StageAfter(kind, c.pc)
             new == [c EXCEPT !.pc = next]
  <1>1. kind \in Kinds BY DEF Called
  <1>2. next \in StagesOf(kind) \cup {"done"} /\ (kind # "check" /\ c.pc # "resolve" => next # "done")
    BY <1>1, Following
  <1>3. kind = "compose" => next # "source" BY SourceComesFirst
  <1>4. /\ job' = [job EXCEPT ![j] = new] /\ UNCHANGED <<project, before>>
        /\ IF next = "done" /\ Compiles(kind) THEN LeaveEnvScope ELSE UNCHANGED <<flag, scope>>
    BY DEF Continue
  <1>5. j \in Compiling <=> Compiles(kind) BY DEF Compiling
  <1>6. \A stage \in StagesOf(kind) : stage \notin {"idle", "done"} BY <1>1, StagesAreStages
  <1> HIDE DEF next, new
  <1>7. Proper(project, new) /\ new.pc = next /\ new.req = c.req BY <1>2, <1>3, MovedOn DEF new
  <1>8. Underway(new) <=> next # "done" BY <1>2, <1>6, <1>7 DEF Underway
  <1>9. EnvStep(j, new) BY <1>4, <1>5, <1>7, <1>8 DEF EnvStep
  <1> QED BY <1>4, <1>7, <1>9, StepKept

LEMMA EndedIs ==
  ASSUME NEW p, NEW c, NEW code, Called(p, c), Composed(c), code # "none"
  PROVE  /\ Proper(p, Ended(c, code)) /\ ~Underway(Ended(c, code)) /\ Ended(c, code).req = c.req
         /\ Ended(c, code).draft = c.draft
  <1> DEFINE new == Ended(c, code)
             exit == ExitCode(c.req.kind, c.pc, code)
  <1>1. DOMAIN c = DOMAIN Idle BY DEF Called
  <1>2. new = [c EXCEPT !.code = code, !.exit = exit, !.pc = "done"] BY Zenon DEF Ended
  <1> HIDE DEF new, exit
  <1>3. DOMAIN new = DOMAIN Idle /\ new.pc = "done" /\ new.code = code BY <1>1, <1>2, IdleIs
  <1>4. new.req = c.req /\ new.parts = c.parts /\ new.draft = c.draft /\ new.rules = c.rules
    BY <1>1, <1>2, IdleIs
  <1>5. ~Underway(new) /\ ~Succeeded(new) BY <1>3 DEF Underway, Succeeded
  <1>6. Called(p, new) BY <1>3, <1>4, <1>5 DEF Called
  <1>7. Composed(new) BY <1>4, <1>5 DEF Composed
  <1>8. Collecting(new) BY <1>3 DEF Collecting
  <1> QED BY <1>4, <1>5, <1>6, <1>7, <1>8 DEF Proper, new

LEMMA Rejected ==
  ASSUME IInv, NEW j \in Jobs, NEW code, code # "none", Underway(job[j]), Childless(j),
         Reject(j, job[j], code)
  PROVE  IInv'
  <1> DEFINE c == job[j]
             new == Ended(c, code)
  <1>1. Called(project, c) /\ Composed(c) BY DEF IInv, CallsProper, Proper
  <1>2. /\ job' = [job EXCEPT ![j] = new] /\ UNCHANGED <<project, before>>
        /\ IF Compiles(c.req.kind) THEN LeaveEnvScope ELSE UNCHANGED <<flag, scope>>
    BY DEF Reject
  <1>3. j \in Compiling <=> Compiles(c.req.kind) BY DEF Compiling
  <1>4. Proper(project, new) /\ ~Underway(new) BY <1>1, EndedIs
  <1> HIDE DEF new
  <1>5. EnvStep(j, new) BY <1>2, <1>3, <1>4 DEF EnvStep
  <1> QED BY <1>2, <1>4, <1>5, StepKept

(* A call that changes in what the stage computes.                           *)
LEMMA Altered ==
  ASSUME NEW p, NEW c, NEW new, Proper(p, c), Underway(c), DOMAIN new = DOMAIN c,
         new.pc = c.pc, new.req = c.req, new.app = c.app,
         PartList(new.parts), IsDraft(new.draft), RuleList(new.rules)
  PROVE  Called(p, new) /\ Composed(new) /\ new.pc \in StagesOf(new.req.kind) /\ Underway(new)
  <1>1. Underway(new) /\ ~Succeeded(new) BY DEF Underway, Succeeded
  <1>2. Called(p, new) BY <1>1 DEF Called, Proper
  <1>3. Composed(new) BY <1>1 DEF Composed
  <1>4. new.pc \in StagesOf(new.req.kind) BY <1>1, <1>2 DEF Called, Underway
  <1> QED BY <1>1, <1>2, <1>3, <1>4

LEMMA CallIs ==
  ASSUME IInv, NEW j \in Jobs
  PROVE  /\ Proper(project, job[j]) /\ Called(project, job[j]) /\ Composed(job[j])
         /\ DOMAIN job[j] = DOMAIN Idle /\ job[j].req.kind \in Kinds
         /\ PartList(job[j].parts) /\ IsDraft(job[j].draft) /\ RuleList(job[j].rules)
         /\ Underway(job[j]) => job[j].pc \in StagesOf(job[j].req.kind)
  BY DEF IInv, CallsProper, Proper, Called, Composed, Underway

(* A stage of a call that waits for nobody.                                  *)
LEMMA AtIs ==
  ASSUME IInv, NEW j \in Jobs, NEW stage, stage \notin Extracting \cup {"idle", "done"}, At(j, stage)
  PROVE  Childless(j) /\ Underway(job[j]) /\ stage \in StagesOf(job[j].req.kind)
  BY CallIs DEF At, Childless, Underway

LEMMA ContinuedSame ==
  ASSUME IInv, NEW j \in Jobs, Underway(job[j]), Childless(j), NEW c, Continue(j, c),
         DOMAIN c = DOMAIN job[j], c.pc = job[j].pc, c.req = job[j].req, c.app = job[j].app,
         PartList(c.parts), IsDraft(c.draft), RuleList(c.rules),
         c.pc = "resolve" /\ c.req.kind # "check" => Declares(c)
  PROVE  IInv'
  <1>1. Proper(project, job[j]) BY CallIs
  <1>2. Called(project, c) /\ Composed(c) /\ c.pc \in StagesOf(c.req.kind) BY <1>1, Altered
  <1> QED BY <1>2, Continued

LEMMA ReadIndexKeeps ==
  ASSUME IInv, NEW j \in Jobs, ReadIndex(j)
  PROVE  IInv'
  <1> DEFINE c == job[j]
             read == ParseResourceIndex(project.resources)
             env == ParseEnvMapping(project.env, read.index)
             merged == MergeResourceIndex(read.index, c.req.identities)
             code == IF c.req.kind = "compose" THEN read.code
                     ELSE FirstCode(<<read.code, env.code, merged.code>>)
             index == IF c.req.kind = "compose" THEN read.index ELSE merged.index
             mode == IF c.req.envOnly THEN "env-only"
                     ELSE IF c.req.kind = "compose" THEN "compose" ELSE env.mode
             variable == IF c.req.kind = "compose" THEN <<>> ELSE env.variable
             new == [c EXCEPT !.index = index, !.mode = mode, !.variable = variable]
  <1>1. At(j, "index") /\ IF code # "none" THEN Reject(j, c, code) ELSE Continue(j, new)
    BY Zenon DEF ReadIndex
  <1>2. Childless(j) /\ Underway(c) /\ c.pc = "index" BY <1>1, AtIs DEF Extracting, At
  <1>3. DOMAIN c = DOMAIN Idle /\ PartList(c.parts) /\ IsDraft(c.draft) /\ RuleList(c.rules)
    BY CallIs
  <1> HIDE DEF code, index, mode, variable
  <1>4. DOMAIN new = DOMAIN c /\ new.pc = c.pc /\ new.req = c.req /\ new.app = c.app
        /\ new.parts = c.parts /\ new.draft = c.draft /\ new.rules = c.rules
    BY <1>3, IdleIs
  <1> HIDE DEF new
  <1>5. CASE code # "none" BY <1>1, <1>2, <1>5, Rejected
  <1>6. CASE code = "none" BY <1>1, <1>2, <1>3, <1>4, <1>6, ContinuedSame
  <1> QED BY <1>5, <1>6

LEMMA CountIs ==
  ASSUME NEW c, NEW bad, DOMAIN c = DOMAIN Idle
  PROVE  /\ DOMAIN Count(c, bad) = DOMAIN c /\ Count(c, bad).pc = c.pc /\ Count(c, bad).req = c.req
         /\ Count(c, bad).app = c.app /\ Count(c, bad).parts = c.parts
         /\ Count(c, bad).draft = c.draft /\ Count(c, bad).rules = c.rules
  <1> DEFINE failed == IF bad THEN c.failed \cup {c.pc} ELSE c.failed
             exit == IF "sources" \in failed THEN 2 ELSE IF failed # {} THEN 1 ELSE 0
             new == Count(c, bad)
  <1>1. new = [c EXCEPT !.failed = failed, !.exit = exit] BY Zenon DEF Count
  <1> HIDE DEF new, failed, exit
  <1>2. /\ DOMAIN new = DOMAIN c /\ new.pc = c.pc /\ new.req = c.req
        /\ new.app = c.app /\ new.parts = c.parts
        /\ new.draft = c.draft /\ new.rules = c.rules
    BY <1>1, IdleIs
  <1> QED BY <1>2 DEF new

LEMMA FindSourcesKeeps ==
  ASSUME IInv, NEW j \in Jobs, FindSources(j)
  PROVE  IInv'
  <1>1. PICK bad : At(j, "sources") /\ Continue(j, Count(job[j], bad)) BY Zenon DEF FindSources
  <1>2. Childless(j) /\ Underway(job[j]) /\ job[j].pc = "sources" BY <1>1, AtIs DEF Extracting, At
  <1>3. DOMAIN job[j] = DOMAIN Idle /\ PartList(job[j].parts) /\ IsDraft(job[j].draft)
        /\ RuleList(job[j].rules)
    BY CallIs
  <1> DEFINE new == Count(job[j], bad)
  <1>4. DOMAIN new = DOMAIN job[j] /\ new.pc = job[j].pc /\ new.req = job[j].req
        /\ new.app = job[j].app /\ new.parts = job[j].parts
        /\ new.draft = job[j].draft /\ new.rules = job[j].rules
    BY <1>3, CountIs
  <1>5. Continue(j, new) BY <1>1
  <1> HIDE DEF new
  <1> QED BY <1>2, <1>3, <1>4, <1>5, ContinuedSame

LEMMA CheckAuthKeeps ==
  ASSUME IInv, NEW j \in Jobs, CheckAuth(j)
  PROVE  IInv'
  <1> DEFINE c == job[j]
             code == AuthCode(c)
             all == Count(c, code # "none")
  <1>1. /\ At(j, "auth")
        /\ CASE c.req.kind # "check" /\ code # "none" -> Reject(j, c, code)
             [] c.req.kind = "check" /\ c.mode = "env-only" -> Continue(j, [all EXCEPT !.pc = "targets"])
             [] c.req.kind = "check" /\ c.mode # "env-only" -> Continue(j, all)
             [] OTHER -> Continue(j, c)
    BY Zenon DEF CheckAuth
  <1>2. Childless(j) /\ Underway(c) /\ c.pc = "auth" BY <1>1, AtIs DEF Extracting, At
  <1>3. DOMAIN c = DOMAIN Idle /\ PartList(c.parts) /\ IsDraft(c.draft) /\ RuleList(c.rules)
        /\ Proper(project, c)
    BY CallIs
  <1>4. DOMAIN all = DOMAIN c /\ all.pc = c.pc /\ all.req = c.req /\ all.app = c.app
        /\ all.parts = c.parts /\ all.draft = c.draft /\ all.rules = c.rules
    BY <1>3, CountIs
  <1> HIDE DEF code, all
  <1>5. CASE c.req.kind # "check" /\ code # "none"
    <2>1. Reject(j, c, code) BY <1>1, <1>5
    <2> QED BY <2>1, <1>2, <1>5, Rejected
  <1>6. CASE c.req.kind # "check" /\ code = "none"
    <2>1. Continue(j, c) BY <1>1, <1>6
    <2> QED BY <2>1, <1>2, <1>3, ContinuedSame
  <1>7. CASE c.req.kind = "check" /\ c.mode # "env-only"
    <2>1. Continue(j, all) BY <1>1, <1>7
    <2> QED BY <2>1, <1>2, <1>3, <1>4, ContinuedSame
  <1>8. CASE c.req.kind = "check" /\ c.mode = "env-only"
    <2> DEFINE new == [all EXCEPT !.pc = "targets"]
    <2>1. Continue(j, new) BY <1>1, <1>8
    <2>2. DOMAIN new = DOMAIN c /\ new.pc = "targets" /\ new.req = c.req /\ new.app = c.app
          /\ new.parts = c.parts /\ new.draft = c.draft /\ new.rules = c.rules
      BY <1>3, <1>4, IdleIs
    <2> HIDE DEF new
    <2>3. "targets" \in StagesOf("check")
      <3>1. 6 \in DOMAIN Stages["check"] /\ Stages["check"][6] = "targets" BY DEF Stages
      <3> QED BY <3>1 DEF StagesOf
    <2>4. ~Succeeded(new) BY <2>2 DEF Succeeded
    <2>5. Called(project, new) /\ Composed(new)
      BY <2>2, <2>3, <2>4, <1>3, <1>8 DEF Called, Composed, Proper, Compiles
    <2> QED BY <2>1, <2>2, <2>3, <2>5, <1>2, <1>8, Continued
  <1> QED BY <1>5, <1>6, <1>7, <1>8

-----------------------------------------------------------------------------
(* Documents *)

LEMMA WantedApp ==
  ASSUME IInv, NEW j \in Jobs, job[j].pc \in Extracting, job[j].req.kind # "check"
  PROVE  Wanted(job[j]) \in DOMAIN project.apps /\ job[j].pc = "source"
  <1> DEFINE c == job[j]
  <1>1. Underway(c) /\ Proper(project, c) BY CallIs DEF Underway, Extracting
  <1>2. c.pc \in StagesOf(c.req.kind) /\ c.req.kind \in Kinds BY <1>1, CallIs
  <1>3. c.pc = "source"
    <2>1. \A kind \in Kinds : kind # "check" =>
            {"conflicts", "refs", "targets"} \cap StagesOf(kind) = {}
      BY DEF Kinds, StagesOf, Stages
    <2> QED BY <1>2, <2>1 DEF Extracting
  <1>4. CASE c.req.kind = "compose"
    <2>1. c.req.apps \in Seq(DOMAIN project.apps) /\ Len(c.parts) < Len(c.req.apps)
      BY <1>1, <1>3, <1>4 DEF Proper, Called, Collecting
    <2>2. Len(c.parts) \in Nat BY <1>1 DEF Proper, Composed, PartList
    <2>3. Len(c.parts) + 1 \in 1..Len(c.req.apps) BY <2>1, <2>2
    <2>4. c.req.apps[Len(c.parts) + 1] \in DOMAIN project.apps BY <2>1, <2>3
    <2> QED BY <2>4, <1>3, <1>4 DEF Wanted
  <1>5. CASE c.req.kind # "compose"
    <2>1. c.app \in DOMAIN project.apps BY <1>1, <1>2, <1>5 DEF Proper, Called, Compiles, Kinds
    <2> QED BY <2>1, <1>3, <1>5 DEF Wanted
  <1> QED BY <1>4, <1>5

(* What an extraction may give a call other than `check`.                    *)
Obtained(got) ==
  IF got.kind = "failure" THEN got.code # "none" ELSE IsDocument(got.doc)

LEMMA Obtainable ==
  /\ \A doc : IsDocument(doc) => Obtained(Document(doc)) /\ Document(doc).kind = "document"
  /\ \A code : code # "none" => Obtained(Failure(code)) /\ Failure(code).kind = "failure"
  /\ Run.kind = "run" /\ Obtained(Run)
  <1>1. \A doc : Document(doc).kind = "document" /\ Document(doc).doc = doc BY DEF Document
  <1>2. \A code : Failure(code).kind = "failure" /\ Failure(code).code = code BY DEF Failure
  <1>3. Run.kind = "run" /\ Run.doc = EmptyDoc BY DEF Run
  <1> QED BY <1>1, <1>2, <1>3, EmptyDraft DEF Obtained

LEMMA SourceObtains ==
  ASSUME IInv, NEW j \in Jobs, job[j].pc \in Extracting, job[j].req.kind # "check"
  PROVE  Obtained(Source(job[j]))
  <1> DEFINE c == job[j]
             app == project.apps[Wanted(c)]
             entry == IF c.req.entry # "none" THEN c.req.entry ELSE app.config
  <1>1. IsDocument(app.doc) BY WantedApp, Files DEF IInv
  <1>2. Obtained(Extract(app)) BY <1>1, Obtainable DEF Extract
  <1>3. Obtained(ExtractEntry(entry, app))
    <2>1. /\ Obtained(Document(app.doc)) /\ Obtained(Failure("OPENAPI_ENTRY_INVALID")) /\ Obtained(Run)
      BY <1>1, Obtainable
    <2>2. ExtractEntry(entry, app) \in {Document(app.doc), Failure("OPENAPI_ENTRY_INVALID"), Run}
      BY Zenon DEF ExtractEntry
    <2> QED BY <2>1, <2>2
  <1>4. ConfigCode(app.config) # "none" => Obtained(Failure(ConfigCode(app.config))) BY Obtainable
  <1>5. Obtained(Document(Placeholder(c.app)))
    <2> DEFINE doc == Placeholder(c.app)
    <2>1. IsDocument(EmptyDoc) /\ doc = [EmptyDoc EXCEPT !.info = c.app]
      BY EmptyDraft DEF Placeholder
    <2> HIDE DEF doc
    <2>2. IsDocument(doc) BY <2>1, SetInfo
    <2>3. Obtained(Document(doc)) BY <2>2, Obtainable
    <2> QED BY <2>3 DEF doc
  <1>6. Source(c) =
          IF ~Compiles(c.req.kind) THEN Extract(app)
          ELSE IF c.mode = "env-only" THEN Document(Placeholder(c.app))
          ELSE IF c.req.entry = "none" /\ ConfigCode(app.config) # "none"
            THEN Failure(ConfigCode(app.config))
          ELSE IF entry \in {"file", "module"} THEN ExtractEntry(entry, app)
          ELSE Extract(app)
    BY Zenon DEF Source
  <1> HIDE DEF app, entry, c
  <1>7. Obtained(Source(c)) BY <1>2, <1>3, <1>4, <1>5, <1>6
  <1> QED BY <1>7 DEF c

LEMMA TakeKeeps ==
  ASSUME IInv, NEW j \in Jobs, job[j].pc \in Extracting, Childless(j), NEW got, Take(j, got),
         job[j].req.kind # "check" => Obtained(got)
  PROVE  IInv'
  <1> DEFINE c == job[j]
             parts == Append(c.parts, [app |-> Wanted(c), doc |-> got.doc])
  <1>1. IF c.req.kind = "check" THEN
             Continue(j, Count(c, got.kind = "failure" \/ Dislikes(c, got.doc)))
        ELSE IF got.kind = "failure" THEN Reject(j, c, got.code)
        ELSE IF Len(parts) < Len(c.req.apps) THEN
             /\ job' = [job EXCEPT ![j].parts = parts]
             /\ UNCHANGED <<project, flag, before, scope>>
        ELSE Continue(j, [c EXCEPT !.parts = parts])
    BY Zenon DEF Take
  <1>2. Underway(c) BY DEF Underway, Extracting
  <1>3. DOMAIN c = DOMAIN Idle /\ PartList(c.parts) /\ IsDraft(c.draft) /\ RuleList(c.rules)
        /\ Proper(project, c)
    BY CallIs
  <1>4. CASE c.req.kind = "check"
    <2> DEFINE bad == got.kind = "failure" \/ Dislikes(c, got.doc)
               new == Count(c, bad)
    <2>1. Continue(j, new) BY <1>1, <1>4
    <2>2. DOMAIN new = DOMAIN c /\ new.pc = c.pc /\ new.req = c.req /\ new.app = c.app
          /\ new.parts = c.parts /\ new.draft = c.draft /\ new.rules = c.rules
      <3> HIDE DEF bad
      <3> QED BY <1>3, CountIs
    <2> HIDE DEF new
    <2> QED BY <2>1, <2>2, <1>2, <1>3, <1>4, ContinuedSame
  <1>5. CASE c.req.kind # "check" /\ got.kind = "failure"
    <2>1. Reject(j, c, got.code) /\ got.code # "none" BY <1>1, <1>5 DEF Obtained
    <2> QED BY <2>1, <1>2, Rejected
  <1>6. CASE c.req.kind # "check" /\ got.kind # "failure"
    <2>1. IsDocument(got.doc) BY <1>6 DEF Obtained
    <2>2. PartList(parts) BY <2>1, <1>3, PartAppended
    <2>3. c.pc = "source" BY <1>6, WantedApp
    <2> DEFINE new == [c EXCEPT !.parts = parts]
    <2> HIDE DEF parts
    <2>4. DOMAIN new = DOMAIN c /\ new.pc = c.pc /\ new.req = c.req /\ new.app = c.app
          /\ new.parts = parts /\ new.draft = c.draft /\ new.rules = c.rules
      BY <1>3, IdleIs
    <2>5. CASE Len(parts) < Len(c.req.apps)
      <3>1. job' = [job EXCEPT ![j] = new] /\ UNCHANGED <<project, flag, before, scope>>
        BY <1>1, <1>6, <2>5
      <3> HIDE DEF new
      <3>2. Called(project, new) /\ Composed(new) /\ Underway(new)
        BY <1>2, <1>3, <2>2, <2>4, Altered
      <3>3. Collecting(new) BY <2>4, <2>5 DEF Collecting
      <3>4. EnvStep(j, new) BY <3>1, <3>2, <2>4, <1>2 DEF EnvStep, Compiling
      <3> QED BY <3>1, <3>2, <3>3, <3>4, StepKept DEF Proper
    <2>6. CASE ~(Len(parts) < Len(c.req.apps))
      <3>1. Continue(j, new) BY <1>1, <1>6, <2>6
      <3> HIDE DEF new
      <3> QED BY <3>1, <1>2, <1>3, <2>2, <2>3, <2>4, ContinuedSame
    <2> QED BY <2>5, <2>6
  <1> QED BY <1>4, <1>5, <1>6

(* Only the process of a call changes, which waits for it.                   *)
LEMMA ChildKept ==
  ASSUME IInv, NEW j \in Jobs, job[j].pc \in Extracting, NEW new, child' = [child EXCEPT ![j] = new],
         UNCHANGED <<project, job, flag, before, scope>>
  PROVE  IInv'
  <1>1. DOMAIN child' = Jobs /\ \A k \in Jobs : k # j => child'[k] = child[k]
    BY DEF IInv, ChildrenAwaited
  <1>2. ChildrenAwaited' BY <1>1 DEF IInv, ChildrenAwaited
  <1>3. CallsProper' BY DEF IInv, CallsProper
  <1>4. EnvCounted' BY DEF IInv, EnvCounted, Compiling
  <1>5. \E n \in DOMAIN Projects : project' = Projects[n] BY DEF IInv
  <1> QED BY <1>2, <1>3, <1>4, <1>5 DEF IInv

LEMMA ObtainKeeps ==
  ASSUME IInv, NEW j \in Jobs, Obtain(j)
  PROVE  IInv'
  <1> DEFINE got == Source(job[j])
             new == [state |-> "running", program |-> project.apps[Wanted(job[j])].program]
  <1>1. /\ job[j].pc \in Extracting /\ child[j].state = "off"
        /\ \/ /\ got.kind = "run" /\ child' = [child EXCEPT ![j] = new]
              /\ UNCHANGED <<project, job, flag, before, scope>>
           \/ got.kind # "run" /\ Take(j, got) /\ UNCHANGED child
    BY Zenon DEF Obtain
  <1>2. job[j].req.kind # "check" => Obtained(got) BY <1>1, SourceObtains
  <1> HIDE DEF got, new
  <1>3. CASE got.kind = "run" BY <1>1, <1>3, ChildKept
  <1>4. CASE got.kind # "run" BY <1>1, <1>2, <1>4, TakeKeeps DEF Childless
  <1> QED BY <1>3, <1>4

LEMMA ProcessKeeps ==
  ASSUME IInv, NEW j \in Jobs, SpawnFails(j) \/ ChildExits(j) \/ ChildCloses(j) \/ Timeout(j)
  PROVE  IInv'
  <1>1. ASSUME child[j].state \in {"running", "exited"} PROVE job[j].pc \in Extracting
    BY <1>1 DEF IInv, ChildrenAwaited
  <1>2. CASE SpawnFails(j)
    <2>1. /\ Take(j, Failure("RUNNER_SPAWN_FAILED")) /\ Childless(j) /\ job[j].pc \in Extracting
          /\ Obtained(Failure("RUNNER_SPAWN_FAILED"))
      BY <1>1, <1>2, Obtainable DEF SpawnFails, Childless
    <2> QED BY <2>1, TakeKeeps
  <1>3. CASE ChildExits(j)
    <2> DEFINE new == [child[j] EXCEPT !.state = "exited"]
    <2>1. /\ child' = [child EXCEPT ![j] = new] /\ UNCHANGED <<project, job, flag, before, scope>>
          /\ job[j].pc \in Extracting
      BY <1>1, <1>3 DEF ChildExits
    <2> HIDE DEF new
    <2> QED BY <2>1, ChildKept
  <1>4. CASE ChildCloses(j)
    <2> DEFINE code == Verdict(child[j].program)
               doc == project.apps[Wanted(job[j])].doc
               got == IF code = "none" THEN Document(doc) ELSE Failure(code)
    <2>1. Take(j, got) /\ Childless(j) /\ job[j].pc \in Extracting
      BY <1>1, <1>4 DEF ChildCloses, Childless
    <2>2. job[j].req.kind # "check" => IsDocument(doc) BY <2>1, WantedApp, Files DEF IInv
    <2> HIDE DEF code, doc
    <2>3. job[j].req.kind # "check" => Obtained(got) BY <2>2, Obtainable
    <2> HIDE DEF got
    <2> QED BY <2>1, <2>3, TakeKeeps
  <1>5. CASE Timeout(j)
    <2>1. /\ Take(j, Failure("ENTRY_TIMEOUT")) /\ Childless(j) /\ job[j].pc \in Extracting
          /\ Obtained(Failure("ENTRY_TIMEOUT"))
      BY <1>1, <1>5, Obtainable DEF Timeout, Childless
    <2> QED BY <2>1, TakeKeeps
  <1> QED BY <1>2, <1>3, <1>4, <1>5

-----------------------------------------------------------------------------
(* The document *)

LEMMA MergeKeeps ==
  ASSUME IInv, NEW j \in Jobs, Merge(j)
  PROVE  IInv'
  <1> DEFINE c == job[j]
             merged == MergeDocuments(c.parts, InfoOf(c))
             code == AuthApplyCode(merged, AuthOf(c), c.index)
             draft == ApplyAuth(merged, AuthOf(c))
             new == [c EXCEPT !.draft = draft]
  <1>1. /\ At(j, "merge")
        /\ IF MergeCode(c.parts) # "none" THEN Reject(j, c, MergeCode(c.parts))
           ELSE IF code # "none" THEN Reject(j, c, code) ELSE Continue(j, new)
    BY Zenon DEF Merge
  <1>2. Childless(j) /\ Underway(c) /\ c.pc = "merge" BY <1>1, AtIs DEF Extracting, At
  <1>3. DOMAIN c = DOMAIN Idle /\ PartList(c.parts) /\ RuleList(c.rules) BY CallIs
  <1>4. IsDraft(draft) BY <1>3, PartDocuments, MergeIsDraft, AuthIsDraft
  <1> HIDE DEF draft, code, merged
  <1>5. DOMAIN new = DOMAIN c /\ new.pc = c.pc /\ new.req = c.req /\ new.app = c.app
        /\ new.parts = c.parts /\ new.draft = draft /\ new.rules = c.rules
    BY <1>3, IdleIs
  <1> HIDE DEF new
  <1>6. CASE MergeCode(c.parts) # "none" BY <1>1, <1>2, <1>6, Rejected
  <1>7. CASE MergeCode(c.parts) = "none" /\ code # "none" BY <1>1, <1>2, <1>7, Rejected
  <1>8. CASE MergeCode(c.parts) = "none" /\ code = "none"
    <2>1. Continue(j, new) BY <1>1, <1>8
    <2> QED BY <2>1, <1>2, <1>3, <1>4, <1>5, ContinuedSame
  <1> QED BY <1>6, <1>7, <1>8

LEMMA LoadOverridesKeeps ==
  ASSUME IInv, NEW j \in Jobs, LoadOverrides(j)
  PROVE  IInv'
  <1> DEFINE c == job[j]
             apps == IF c.req.kind = "compose" THEN c.req.apps ELSE <<c.app>>
             files == IF c.req.kind = "compose" THEN <<project.global>>
                      ELSE OverrideFiles(project, c.app)
             others == [i \in 1..Len(apps) - 1 |-> RulesOf(project, <<>>, apps[i + 1])]
             loaded == RulesOf(project, files, apps[1]) \o FlattenSeq(others)
             broken == \/ project.global.form = "broken"
                       \/ \E a \in Range(apps) : project.apps[a].overrides.form = "broken"
             values == UNION {RuleRefs(r.rule) : r \in Range(loaded)}
             code == IF broken THEN "OVERRIDE_FILE_INVALID_YAML"
                     ELSE IF c.req.kind = "compose" THEN "none" ELSE ResolveCode(values, Resolution(c))
             resolved == [i \in DOMAIN loaded |->
                            [loaded[i] EXCEPT !.rule = ResolveRule(@, Resolution(c))]]
             rules == IF c.req.kind = "compose" THEN loaded ELSE resolved
             new == [c EXCEPT !.rules = rules]
  <1>1. At(j, "overrides") /\ IF code # "none" THEN Reject(j, c, code) ELSE Continue(j, new)
    BY Zenon DEF LoadOverrides
  <1>2. Childless(j) /\ Underway(c) /\ c.pc = "overrides" /\ "overrides" \in StagesOf(c.req.kind)
    BY <1>1, AtIs DEF Extracting, At
  <1>3. DOMAIN c = DOMAIN Idle /\ PartList(c.parts) /\ IsDraft(c.draft) /\ Proper(project, c)
        /\ c.req.kind \in Kinds
    BY CallIs
  <1>4. c.req.kind # "check" BY <1>2 DEF StagesOf, Stages
  <1>5. Len(apps) \in Nat /\ Len(apps) > 0 /\ \A i \in 1..Len(apps) : apps[i] \in DOMAIN project.apps
    <2>1. CASE c.req.kind = "compose"
      <3>1. c.req.apps \in Seq(DOMAIN project.apps) /\ c.req.apps # <<>>
        BY <2>1, <1>2, <1>3 DEF Proper, Called
      <3> QED BY <2>1, <3>1
    <2>2. CASE c.req.kind # "compose"
      <3>1. c.app \in DOMAIN project.apps
        BY <2>2, <1>2, <1>3, <1>4 DEF Proper, Called, Compiles, Kinds
      <3> QED BY <2>2, <3>1
    <2> QED BY <2>1, <2>2
  <1>6. files = <<>> \/ files = <<project.global>> BY DEF OverrideFiles
  <1>7. IsRuleList(project.global.rules)
        /\ \A a \in DOMAIN project.apps : IsRuleList(project.apps[a].overrides.rules)
    BY Files DEF IInv
  <1> HIDE DEF apps, files
  <1>8. RuleList(loaded)
    <2>1. \A i \in 1..Len(apps) : \A some : some = <<>> \/ some = <<project.global>> =>
            RuleList(RulesOf(project, some, apps[i]))
      BY <1>5, <1>7, RulesOfList
    <2>2. RuleList(RulesOf(project, files, apps[1])) BY <2>1, <1>5, <1>6
    <2> DEFINE n == Len(apps) - 1
    <2>3. n \in Nat BY <1>5
    <2>4. DOMAIN others = 1..n /\ \A i \in 1..n : RuleList(others[i])
      <3>1. \A i \in 1..n : i + 1 \in 1..Len(apps) BY <1>5
      <3>2. \A i \in 1..n : others[i] = RulesOf(project, <<>>, apps[i + 1]) OBVIOUS
      <3>3. \A i \in 1..n : RuleList(RulesOf(project, <<>>, apps[i + 1])) BY <3>1, <2>1
      <3>4. DOMAIN others = 1..n OBVIOUS
      <3> HIDE DEF others, n
      <3> QED BY <3>2, <3>3, <3>4
    <2>5. others = [i \in 1..n |-> others[i]] OBVIOUS
    <2> HIDE DEF others, n
    <2>6. Len(others) = n /\ (n = 0 => others = <<>>)
      <3>1. others \in [1..n -> {others[i] : i \in 1..n}] BY <2>5
      <3>2. others \in Seq({others[i] : i \in 1..n}) BY <3>1, <2>3
      <3> QED BY <3>1, <3>2, <2>3, <2>4
    <2>7. RuleList(FlattenSeq(others)) BY <2>3, <2>4, <2>6, RuleListFlatten
    <2> QED BY <2>2, <2>7, RuleListConcat
  <1>9. code # "none" \/ code = "none" OBVIOUS
  <1> HIDE DEF loaded, code
  <1>10. RuleList(rules) BY <1>8, RulesResolved
  <1> HIDE DEF rules, resolved
  <1>11. DOMAIN new = DOMAIN c /\ new.pc = c.pc /\ new.req = c.req /\ new.app = c.app
         /\ new.parts = c.parts /\ new.draft = c.draft /\ new.rules = rules
    BY <1>3, IdleIs
  <1> HIDE DEF new
  <1>12. CASE code # "none" BY <1>1, <1>2, <1>12, Rejected
  <1>13. CASE code = "none"
    <2>1. Continue(j, new) BY <1>1, <1>13
    <2> QED BY <2>1, <1>2, <1>3, <1>10, <1>11, ContinuedSame
  <1> QED BY <1>12, <1>13

(* What applying a rule does to a call.                                      *)
LEMMA NextRule ==
  ASSUME IInv, NEW j \in Jobs, ApplyNextRule(j)
  PROVE  LET c == job[j]
             head == Head(c.rules)
         IN  /\ Childless(j) /\ Underway(c) /\ c.rules # <<>> /\ IsRule(head.rule)
             /\ RuleList(Tail(c.rules)) /\ IsDraft(c.draft) /\ DOMAIN c = DOMAIN Idle
             /\ \/ RuleCode(c.draft, head.rule, head.app) # "none"
                   /\ Reject(j, c, RuleCode(c.draft, head.rule, head.app))
                \/ /\ RuleCode(c.draft, head.rule, head.app) = "none"
                   /\ job' = [job EXCEPT ![j] = [c EXCEPT !.rules = Tail(c.rules),
                                !.draft = ApplyRule(c.draft, head.rule, head.app)]]
                   /\ UNCHANGED <<project, flag, before, scope>>
  <1> DEFINE c == job[j]
             head == Head(c.rules)
             draft == ApplyRule(c.draft, head.rule, head.app)
             tail == Tail(c.rules)
             code == RuleCode(c.draft, head.rule, head.app)
             new == [c EXCEPT !.rules = tail, !.draft = draft]
  <1>1. /\ At(j, "rules") /\ c.rules # <<>>
        /\ IF code # "none" THEN Reject(j, c, code)
           ELSE /\ job' = [job EXCEPT ![j].rules = tail, ![j].draft = draft]
                /\ UNCHANGED <<project, flag, before, scope>>
    BY Zenon DEF ApplyNextRule
  <1>2. Childless(j) /\ Underway(c) BY <1>1, AtIs DEF Extracting
  <1>3. DOMAIN c = DOMAIN Idle /\ IsDraft(c.draft) /\ RuleList(c.rules) BY CallIs
  <1>4. IsRule(head.rule) /\ RuleList(tail) BY <1>1, <1>3, RuleListStep
  <1> HIDE DEF draft, tail, code
  <1>5. [job EXCEPT ![j].rules = tail, ![j].draft = draft] = [job EXCEPT ![j] = new]
    BY DEF IInv, CallsProper
  <1>6. /\ Childless(j) /\ Underway(c) /\ c.rules # <<>> /\ IsRule(head.rule)
        /\ RuleList(tail) /\ IsDraft(c.draft) /\ DOMAIN c = DOMAIN Idle
        /\ \/ code # "none" /\ Reject(j, c, code)
           \/ /\ code = "none" /\ job' = [job EXCEPT ![j] = new]
              /\ UNCHANGED <<project, flag, before, scope>>
    BY <1>1, <1>2, <1>3, <1>4, <1>5
  <1> QED BY <1>6, Zenon DEF draft, tail, code

LEMMA ApplyNextRuleKeeps ==
  ASSUME IInv, NEW j \in Jobs, ApplyNextRule(j)
  PROVE  IInv'
  <1> DEFINE c == job[j]
             head == Head(c.rules)
             draft == ApplyRule(c.draft, head.rule, head.app)
             tail == Tail(c.rules)
             code == RuleCode(c.draft, head.rule, head.app)
             new == [c EXCEPT !.rules = tail, !.draft = draft]
  <1>1. /\ Childless(j) /\ Underway(c) /\ c.rules # <<>> /\ IsRule(head.rule)
        /\ RuleList(tail) /\ IsDraft(c.draft) /\ DOMAIN c = DOMAIN Idle
        /\ \/ code # "none" /\ Reject(j, c, code)
           \/ /\ code = "none" /\ job' = [job EXCEPT ![j] = new]
              /\ UNCHANGED <<project, flag, before, scope>>
    BY NextRule, Zenon
  <1>2. CASE code # "none" BY <1>1, <1>2, Rejected
  <1>3. CASE code = "none"
    <2>1. IsDraft(draft) BY <1>1, <1>3, RuleIsDraft
    <2>2. PartList(c.parts) /\ Proper(project, c) BY CallIs
    <2> HIDE DEF draft, tail, code
    <2>3. DOMAIN new = DOMAIN c /\ new.pc = c.pc /\ new.req = c.req /\ new.app = c.app
          /\ new.parts = c.parts /\ new.draft = draft /\ new.rules = tail
      BY <1>1, IdleIs
    <2>4. job' = [job EXCEPT ![j] = new] /\ UNCHANGED <<project, flag, before, scope>> BY <1>1, <1>3
    <2> HIDE DEF new
    <2>5. Called(project, new) /\ Composed(new) /\ Underway(new)
      BY <1>1, <2>1, <2>2, <2>3, Altered
    <2>6. Collecting(new) BY <2>2, <2>3 DEF Collecting, Proper
    <2>7. EnvStep(j, new) BY <2>3, <2>4, <2>5, <1>1 DEF EnvStep, Compiling
    <2> QED BY <1>1, <2>4, <2>5, <2>6, <2>7, StepKept DEF Proper
  <1> QED BY <1>2, <1>3

LEMMA RulesAppliedKeeps ==
  ASSUME IInv, NEW j \in Jobs, RulesApplied(j)
  PROVE  IInv'
  <1>1. At(j, "rules") /\ Continue(j, job[j]) /\ job[j].pc = "rules" BY DEF RulesApplied, At
  <1>2. Childless(j) /\ Underway(job[j]) BY <1>1, AtIs DEF Extracting
  <1> QED BY <1>1, <1>2, CallIs, ContinuedSame

LEMMA NeedInfoKeeps ==
  ASSUME IInv, NEW j \in Jobs, NeedInfo(j)
  PROVE  IInv'
  <1>1. /\ At(j, "info") /\ job[j].pc = "info"
        /\ Reject(j, job[j], "COMPOSE_INFO_MISSING") \/ Continue(j, job[j])
    BY DEF NeedInfo, At
  <1>2. Childless(j) /\ Underway(job[j]) BY <1>1, AtIs DEF Extracting
  <1>3. CASE Reject(j, job[j], "COMPOSE_INFO_MISSING") BY <1>2, <1>3, Rejected
  <1>4. CASE Continue(j, job[j]) BY <1>1, <1>2, <1>4, CallIs, ContinuedSame
  <1> QED BY <1>1, <1>3, <1>4

LEMMA ResolveKeeps ==
  ASSUME IInv, NEW j \in Jobs, Resolve(j)
  PROVE  IInv'
  <1> DEFINE c == job[j]
             env == ParseEnvMapping(project.env, c.index)
             variable == IF c.req.kind = "compose" THEN env.variable ELSE c.variable
             d == IF c.req.kind = "compose" THEN [c EXCEPT !.variable = env.variable] ELSE c
             with == Resolution(d)
             found == ResolveCode({b[3] : b \in BearerFields(c.draft.doc)}, with)
             code == IF c.req.kind = "compose" /\ env.code # "none" THEN env.code ELSE found
             doc == ResolveReferences(c.draft.doc, with)
             draft == [c.draft EXCEPT !.doc = doc]
             refs == IF c.req.kind = "build" THEN CollectResourceReferences(doc) ELSE {}
             new == [d EXCEPT !.draft = draft, !.refs = refs]
  <1>1. /\ At(j, "resolve")
        /\ IF code # "none" THEN Reject(j, c, code)
           ELSE Continue(j, [d EXCEPT !.draft.doc = doc, !.refs = refs])
    BY Zenon DEF Resolve
  <1>2. Childless(j) /\ Underway(c) /\ c.pc = "resolve" BY <1>1, AtIs DEF Extracting, At
  <1>3. DOMAIN c = DOMAIN Idle /\ PartList(c.parts) /\ IsDraft(c.draft) /\ RuleList(c.rules)
    BY CallIs
  <1>4. /\ DOMAIN d = DOMAIN c /\ d.pc = c.pc /\ d.req = c.req /\ d.app = c.app /\ d.parts = c.parts
        /\ d.draft = c.draft /\ d.rules = c.rules /\ d.index = c.index /\ d.variable = variable
    BY <1>3, IdleIs
  <1>5. with.index = c.index /\ with.variable = variable
    <2> HIDE DEF d, variable
    <2> QED BY <1>4 DEF Resolution
  <1>6. CASE code # "none" BY <1>1, <1>2, <1>6, Rejected
  <1>7. CASE code = "none"
    <2>1. found = "none" BY <1>7
    <2>2. /\ IsDraft(draft) /\ draft.doc = doc
          /\ \A b \in BearerFields(doc) : Settled(b[3], c.index, variable)
          /\ CollectResourceReferences(doc) \subseteq c.index
      <3> HIDE DEF d, variable, with
      <3> QED BY <2>1, <1>3, <1>5, ResolvedDraft
    <2>3. refs \subseteq c.index BY <2>2
    <2> HIDE DEF d, doc, refs, variable, code
    <2>4. new = [d EXCEPT !.draft.doc = doc, !.refs = refs] BY <1>3, <1>4, IdleIs
    <2> HIDE DEF draft
    <2>5. /\ DOMAIN new = DOMAIN c /\ new.pc = c.pc /\ new.req = c.req /\ new.app = c.app
          /\ new.parts = c.parts /\ new.draft = draft /\ new.rules = c.rules /\ new.refs = refs
          /\ new.index = c.index /\ new.variable = variable
      BY <1>3, <1>4, IdleIs
    <2>6. Continue(j, new) BY <1>1, <1>7, <2>4
    <2> HIDE DEF new
    <2>7. Declares(new) BY <2>2, <2>3, <2>5 DEF Declares
    <2> QED BY <2>2, <2>5, <2>6, <2>7, <1>2, <1>3, ContinuedSame
  <1> QED BY <1>6, <1>7

-----------------------------------------------------------------------------
(* The start of a call *)

LEMMA StartJobKeeps ==
  ASSUME IInv, NEW j \in Jobs, StartJob(j)
  PROVE  IInv'
  <1>1. PICK r \in project.calls :
          LET app  == IF r.app = none /\ r.kind # "compose" /\ DOMAIN project.apps # {}
                      THEN CHOOSE a \in DOMAIN project.apps : TRUE ELSE r.app
              c    == [Idle EXCEPT !.req = r, !.app = app, !.pc = Stages[r.kind][1]]
              code == StartCode(r)
          IN  /\ job[j].pc = "idle"
              /\ job' = [job EXCEPT ![j] = IF code = "none" THEN c ELSE Ended(c, code)]
              /\ IF code = "none" /\ Compiles(r.kind) THEN EnterEnvScope ELSE UNCHANGED <<flag, scope>>
              /\ UNCHANGED <<project, child, before>>
    BY Zenon DEF StartJob
  <1> DEFINE app == IF r.app = none /\ r.kind # "compose" /\ DOMAIN project.apps # {}
                    THEN CHOOSE a \in DOMAIN project.apps : TRUE ELSE r.app
             first == Stages[r.kind][1]
             c == [Idle EXCEPT !.req = r, !.app = app, !.pc = first]
             code == StartCode(r)
             new == IF code = "none" THEN c ELSE Ended(c, code)
  <1>2. /\ job[j].pc = "idle" /\ job' = [job EXCEPT ![j] = new]
        /\ IF code = "none" /\ Compiles(r.kind) THEN EnterEnvScope ELSE UNCHANGED <<flag, scope>>
        /\ UNCHANGED <<project, child, before>>
    BY <1>1
  <1>3. /\ r.kind \in Kinds
        /\ r.kind = "build" => r.app \in DOMAIN project.apps
        /\ r.kind = "compose" => r.apps \in Seq(DOMAIN project.apps)
    BY Files DEF IInv
  <1>4. code = "none" /\ r.kind = "compose" => r.apps # <<>> BY DEF StartCode
  <1>5. code = "none" /\ Compiles(r.kind) => app \in DOMAIN project.apps
    <2>1. CASE r.kind = "build" BY <2>1, <1>3
    <2>2. ASSUME code = "none", r.kind = "compile" PROVE app \in DOMAIN project.apps
      <3>1. Select(DOMAIN project.apps, r.app) = "none" BY <2>2 DEF StartCode
      <3>2. DOMAIN project.apps # {} /\ (r.app # none => r.app \in DOMAIN project.apps)
        BY <3>1 DEF Select
      <3> QED BY <3>2, <2>2
    <2> QED BY <2>1, <2>2 DEF Compiles
  <1>6. first \in StagesOf(r.kind) /\ first \notin {"idle", "done"}
    BY <1>3, FirstStage, StagesAreStages
  <1> HIDE DEF app, first, code
  <1>7. DOMAIN c = DOMAIN Idle /\ c.pc = first /\ c.req = r /\ c.app = app /\ c.parts = <<>>
        /\ c.draft = Idle.draft /\ c.rules = <<>>
    BY IdleIs
  <1> HIDE DEF c
  <1>8. Underway(c) /\ ~Succeeded(c) BY <1>6, <1>7 DEF Underway, Succeeded
  <1>9. Composed(c) BY <1>7, <1>8, EmptyLists, EmptyDraft DEF Composed
  <1>10. child[j].state = "off" \/ job[j].pc \notin Extracting BY <1>2 DEF Extracting
  <1>11. Childless(j) BY <1>2, <1>10 DEF Childless
  <1>12. j \notin Compiling BY <1>2 DEF Compiling, Underway
  <1>13. CASE code = "none"
    <2>1. Called(project, c) BY <1>3, <1>4, <1>5, <1>6, <1>7, <1>13 DEF Called
    <2>2. Collecting(c)
      <3>1. r.kind = "compose" => Len(r.apps) > 0 BY <1>3, <1>4, <1>13
      <3> QED BY <3>1, <1>7 DEF Collecting
    <2>3. EnvStep(j, c) BY <1>2, <1>7, <1>8, <1>12, <1>13 DEF EnvStep
    <2> QED BY <2>1, <2>2, <2>3, <1>2, <1>9, <1>11, <1>13, StepKept DEF Proper
  <1>14. CASE code # "none"
    <2> DEFINE e == Ended(c, code)
    <2>1. DOMAIN e = DOMAIN Idle /\ e.pc = "done" /\ e.code = code /\ e.req = r
          /\ e.parts = <<>> /\ e.draft = Idle.draft /\ e.rules = <<>>
      <3> DEFINE exit == ExitCode(c.req.kind, c.pc, code)
      <3>1. e = [c EXCEPT !.code = code, !.exit = exit, !.pc = "done"] BY Zenon DEF Ended
      <3> HIDE DEF e, exit
      <3> QED BY <3>1, <1>7, IdleIs
    <2>2. e = new BY <1>14
    <2> HIDE DEF e, new
    <2>3. ~Underway(e) /\ ~Succeeded(e) BY <2>1, <1>14 DEF Underway, Succeeded
    <2>4. Called(project, e) BY <2>1, <2>3, <1>3 DEF Called
    <2>5. Composed(e) BY <2>1, <2>3, EmptyLists, EmptyDraft DEF Composed
    <2>6. Collecting(e) BY <2>1 DEF Collecting
    <2>7. EnvStep(j, e) BY <2>3, <1>2, <1>12, <1>14 DEF EnvStep
    <2> QED BY <2>2, <2>4, <2>5, <2>6, <2>7, <1>2, <1>11, StepKept DEF Proper
  <1> QED BY <1>13, <1>14

-----------------------------------------------------------------------------
(* Theorems *)

LEMMA NextInv == ASSUME IInv, [Next]_vars PROVE IInv'
  <1>1. CASE UNCHANGED vars
    BY <1>1 DEF vars, IInv, CallsProper, ChildrenAwaited, EnvCounted, Compiling
  <1>2. ASSUME NEW j \in Jobs, StartJob(j) PROVE IInv' BY <1>2, StartJobKeeps
  <1>3. ASSUME NEW j \in Jobs, Step(j) PROVE IInv'
    BY <1>3, ReadIndexKeeps, ObtainKeeps, FindSourcesKeeps, CheckAuthKeeps, MergeKeeps,
       LoadOverridesKeeps, ApplyNextRuleKeeps, RulesAppliedKeeps, NeedInfoKeeps, ResolveKeeps
       DEF Step
  <1>4. ASSUME NEW j \in Jobs, SpawnFails(j) \/ ChildExits(j) \/ ChildCloses(j) \/ Timeout(j)
        PROVE  IInv'
    BY <1>4, ProcessKeeps
  <1> QED BY <1>1, <1>2, <1>3, <1>4 DEF Next

(* In every state of the calls of a project the documents are well formed,   *)
(* processes belong to calls that wait for them, and envScopeDepth counts    *)
(* the compilations that run.                                                *)
THEOREM Invariance == Spec => []IInv
  <1>1. Init => IInv BY InitInv
  <1>2. IInv /\ [Next]_vars => IInv' BY NextInv
  <1> QED BY <1>1, <1>2, PTL DEF Spec

(* The environment variable is set while a compilation runs, and has its old *)
(* value when none does, in whatever order any number of overlapping ones    *)
(* end (enterEnvScope, leaveEnvScope).                                       *)
THEOREM EnvRestored == Spec => []EnvScoped
  <1>1. IInv => EnvScoped BY DEF IInv, EnvCounted, Compiling, EnvScoped, Underway
  <1> QED BY <1>1, Invariance, PTL

(* The provenance names an owner for exactly the paths of the document, and  *)
(* no operationId points to a path that is gone, after any list of rules     *)
(* (updateOwnership, PathOwnership).                                         *)
THEOREM ProvenanceKept == Spec => []ProvenanceMatches
  <1>1. IInv => ProvenanceMatches
    BY DEF IInv, CallsProper, Proper, Composed, IsDraft, Provenance, ProvenanceMatches
  <1> QED BY <1>1, Invariance, PTL

(* What the document of a successful call still refers to is declared and in *)
(* its canonical form, and so is what its artifact lists for the             *)
(* materializer (resolveReferences, collectResourceReferences).              *)
THEOREM ReferencesKept == Spec => []ReferencesDeclared
  <1>1. IInv => ReferencesDeclared
    BY DEF IInv, CallsProper, Proper, Composed, Declares, Settled, ReferencesDeclared
  <1> QED BY <1>1, Invariance, PTL

(* A step of a call leaves the other calls alone.                            *)
LEMMA OneCallSteps ==
  ASSUME IInv, NEW j \in Jobs, NEW k \in Jobs, k # j,
         \/ StartJob(j) \/ Step(j) \/ SpawnFails(j) \/ ChildExits(j) \/ ChildCloses(j) \/ Timeout(j)
  PROVE  job'[k] = job[k]
  <1> DEFINE Kept == job'[k] = job[k]
  <1>1. ASSUME NEW c, job' = [job EXCEPT ![j] = c] PROVE Kept BY <1>1 DEF IInv, CallsProper
  <1>2. ASSUME NEW c, Continue(j, c) PROVE Kept BY <1>1, <1>2 DEF Continue
  <1>3. ASSUME NEW c, NEW code, Reject(j, c, code) PROVE Kept BY <1>1, <1>3 DEF Reject
  <1>4. ASSUME job' = job PROVE Kept BY <1>4
  <1>5. ASSUME NEW got, Take(j, got) PROVE Kept
    <2>1. ASSUME NEW parts, job' = [job EXCEPT ![j].parts = parts] PROVE Kept
      BY <2>1 DEF IInv, CallsProper
    <2> HIDE DEF Kept
    <2> QED BY <1>2, <1>3, <1>5, <2>1, Zenon DEF Take
  <1>6. ASSUME ApplyNextRule(j) PROVE Kept
    <2>1. ASSUME NEW rules, NEW draft, job' = [job EXCEPT ![j].rules = rules, ![j].draft = draft]
          PROVE  Kept
      BY <2>1 DEF IInv, CallsProper
    <2> HIDE DEF Kept
    <2> QED BY <1>3, <1>6, <2>1, Zenon DEF ApplyNextRule
  <1> HIDE DEF Kept
  <1>7. ASSUME StartJob(j) PROVE Kept BY <1>1, <1>7, Zenon DEF StartJob
  <1>8. ASSUME ReadIndex(j) PROVE Kept BY <1>2, <1>3, <1>8, Zenon DEF ReadIndex
  <1>9. ASSUME Obtain(j) PROVE Kept BY <1>4, <1>5, <1>9 DEF Obtain
  <1>10. ASSUME FindSources(j) PROVE Kept BY <1>2, <1>10, Zenon DEF FindSources
  <1>11. ASSUME CheckAuth(j) PROVE Kept
    <2> DEFINE c == job[j]
               code == AuthCode(c)
               all == Count(c, code # "none")
    <2>1. \/ Reject(j, c, code) \/ Continue(j, [all EXCEPT !.pc = "targets"])
          \/ Continue(j, all) \/ Continue(j, c)
      BY <1>11, Zenon DEF CheckAuth
    <2> HIDE DEF code, all, c
    <2> QED BY <1>2, <1>3, <2>1
  <1>12. ASSUME Merge(j) PROVE Kept BY <1>2, <1>3, <1>12, Zenon DEF Merge
  <1>13. ASSUME LoadOverrides(j) PROVE Kept BY <1>2, <1>3, <1>13, Zenon DEF LoadOverrides
  <1>14. ASSUME RulesApplied(j) PROVE Kept BY <1>2, <1>14 DEF RulesApplied
  <1>15. ASSUME NeedInfo(j) PROVE Kept BY <1>2, <1>3, <1>15, Zenon DEF NeedInfo
  <1>16. ASSUME Resolve(j) PROVE Kept BY <1>2, <1>3, <1>16, Zenon DEF Resolve
  <1>17. ASSUME Step(j) PROVE Kept
    BY <1>6, <1>8, <1>9, <1>10, <1>11, <1>12, <1>13, <1>14, <1>15, <1>16, <1>17 DEF Step
  <1>18. ASSUME SpawnFails(j) \/ ChildExits(j) \/ ChildCloses(j) \/ Timeout(j) PROVE Kept
    <2>1. ASSUME SpawnFails(j) PROVE Kept BY <1>5, <2>1 DEF SpawnFails
    <2>2. ASSUME ChildExits(j) PROVE Kept BY <1>4, <2>2 DEF ChildExits
    <2>3. ASSUME ChildCloses(j) PROVE Kept BY <1>5, <2>3, Zenon DEF ChildCloses
    <2>4. ASSUME Timeout(j) PROVE Kept BY <1>5, <2>4 DEF Timeout
    <2> QED BY <1>18, <2>1, <2>2, <2>3, <2>4
  <1>19. Kept BY <1>7, <1>17, <1>18
  <1> QED BY <1>19 DEF Kept

LEMMA LocalStep ==
  ASSUME IInv, [Next]_vars, NEW k \in Jobs
  PROVE  LocalRule(k)
  <1> DEFINE c == job[k]
             head == Head(c.rules)
             draft == ApplyRule(c.draft, head.rule, head.app)
             code == RuleCode(c.draft, head.rule, head.app)
  <1>1. (~Local(c) \/ job'[k].draft = c.draft) => LocalRule(k) BY DEF LocalRule
  <1>2. SUFFICES ASSUME Local(c), job'[k] # c PROVE LocalRule(k)
    <2>1. job'[k] = c => job'[k].draft = c.draft OBVIOUS
    <2> HIDE DEF c
    <2> QED BY <2>1, <1>1
  <1>3. c.pc = "rules" /\ c.rules # <<>> /\ head.app # none BY <1>2 DEF Local
  <1>4. PICK j \in Jobs : \/ StartJob(j) \/ Step(j) \/ SpawnFails(j) \/ ChildExits(j)
                          \/ ChildCloses(j) \/ Timeout(j)
    BY <1>2 DEF Next, vars
  <1>5. j = k BY <1>2, <1>4, OneCallSteps
  <1>6. child[k].state = "off" \/ child[k].state \notin {"running", "exited"}
    BY <1>3 DEF IInv, ChildrenAwaited, Extracting
  <1>7. ~(SpawnFails(k) \/ ChildExits(k) \/ ChildCloses(k) \/ Timeout(k))
    BY <1>6 DEF SpawnFails, ChildExits, ChildCloses, Timeout
  <1>8. ~StartJob(k) BY <1>3, Zenon DEF StartJob
  <1>9. ~At(k, "index") /\ ~At(k, "sources") /\ ~At(k, "auth") /\ ~At(k, "merge")
        /\ ~At(k, "overrides") /\ ~At(k, "info") /\ ~At(k, "resolve") /\ c.pc \notin Extracting
    BY <1>3 DEF At, Extracting
  <1>10. ApplyNextRule(k)
    <2>1. ~ReadIndex(k) /\ ~FindSources(k) /\ ~CheckAuth(k) /\ ~Merge(k) /\ ~LoadOverrides(k)
          /\ ~NeedInfo(k) /\ ~Resolve(k) /\ ~Obtain(k) /\ ~RulesApplied(k)
      BY <1>3, <1>9, Zenon DEF ReadIndex, FindSources, CheckAuth, Merge, LoadOverrides, NeedInfo,
                               Resolve, Obtain, RulesApplied
    <2> QED BY <2>1, <1>4, <1>5, <1>7, <1>8, Zenon DEF Step
  <1>11. /\ IsRule(head.rule) /\ IsDraft(c.draft) /\ DOMAIN c = DOMAIN Idle
         /\ \/ code # "none" /\ Reject(k, c, code)
            \/ /\ code = "none"
               /\ job' = [job EXCEPT ![k] = [c EXCEPT !.rules = Tail(c.rules), !.draft = draft]]
    BY <1>10, NextRule, Zenon
  <1>12. CASE code # "none"
    <2>1. Reject(k, c, code) BY <1>11, <1>12
    <2>2. Called(project, c) /\ Composed(c) BY CallIs
    <2>3. Ended(c, code).draft = c.draft
      <3> HIDE DEF c, code
      <3> QED BY <1>12, <2>2, EndedIs
    <2>4. job'[k] = Ended(c, code) BY <2>1 DEF Reject, IInv, CallsProper
    <2> QED BY <2>3, <2>4, <1>1
  <1>13. CASE code = "none"
    <2>1. Home(c.draft, draft, head.app) BY <1>3, <1>11, <1>13, RuleStaysHome
    <2>2. job' = [job EXCEPT ![k] = [c EXCEPT !.rules = Tail(c.rules), !.draft = draft]]
      BY <1>11, <1>13
    <2> HIDE DEF draft
    <2>3. job'[k].draft = draft BY <2>2, <1>11, IdleIs DEF IInv, CallsProper
    <2> QED BY <2>1, <2>3 DEF Home, LocalRule
  <1> QED BY <1>12, <1>13

(* A rule of an app's overrides.yaml changes nothing of the document but the *)
(* paths of its app, however it names its target (isOutOfScope, applyRule).  *)
THEOREM LocalRulesKept == Spec => LocalRulesStayHome
  <1>1. IInv /\ [Next]_vars => [\A j \in Jobs : LocalRule(j)]_vars BY LocalStep
  <1> QED BY <1>1, Invariance, PTL DEF Spec, LocalRulesStayHome


-----------------------------------------------------------------------------
(* What a successful `check` has established *)

Read(p)      == ParseResourceIndex(p.resources)
Env(p)       == ParseEnvMapping(p.env, Read(p).index)
Index(p)     == MergeResourceIndex(Read(p).index, <<>>).index
IndexCode(p) == FirstCode(<<Read(p).code, Env(p).code, MergeResourceIndex(Read(p).index, <<>>).code>>)

ModeOf(p, envOnly) == IF envOnly THEN "env-only" ELSE Env(p).mode

(* What each category of `check` asks of app a of project p.                 *)
SourceFound(p, a) ==
  p.apps[a].config = "empty" => p.apps[a].artifact # "absent" \/ p.apps[a].program # "absent"

AuthValid(p, a) ==
  ValidateAuthConfig(p.apps[a].auth, EmptyDoc, Names(Index(p), "functions")) = "none"

OverridesRead(p, a) == p.global.form # "broken" /\ p.apps[a].overrides.form # "broken"

RulesFor(p, a) == RulesOf(p, OverrideFiles(p, a), a)

TargetsFound(p, a) == \A r \in Range(RulesFor(p, a)) : Exists(Original(p, a), r.rule)

Fact(p, a, mode, stage) ==
  CASE stage = "auth"      -> AuthValid(p, a)
    [] stage = "sources"   -> mode # "env-only" => SourceFound(p, a)
    [] stage = "conflicts" -> mode # "env-only" =>
                                p.apps[a].artifact # "broken" /\ ~CheckConflicts(p.apps[a].doc)
    [] stage = "refs"      -> mode # "env-only" => ~CheckReferences(p.apps[a].doc, Index(p))
    [] stage = "targets"   -> mode # "env-only" => OverridesRead(p, a) /\ TargetsFound(p, a)

Categories == {"sources", "auth", "conflicts", "refs", "targets"}

(* A value of a rule that `check` need not look at.                          *)
Plain(rule) == \A v \in RuleRefs(rule) : v.form \notin {"bare", "template"}

(* LooksAtTheSame, and everything that `check` asks.                         *)
Promised(p, a, envOnly) ==
  /\ p.apps[a].config = "empty"
  /\ \A v \in FieldRefs(p.apps[a].doc) : v.form # "bare"
  /\ \A r \in Range(p.global.rules \o p.apps[a].overrides.rules) : Plain(r)
  /\ IndexCode(p) = "none"
  /\ \A s \in Categories : Fact(p, a, ModeOf(p, envOnly), s)

LEMMA Facts ==
  ASSUME NEW p, NEW a, NEW envOnly, Promised(p, a, envOnly)
  PROVE  /\ AuthValid(p, a)
         /\ ModeOf(p, envOnly) # "env-only" =>
              /\ SourceFound(p, a) /\ p.apps[a].artifact # "broken"
              /\ ~CheckConflicts(p.apps[a].doc) /\ ~CheckReferences(p.apps[a].doc, Index(p))
              /\ OverridesRead(p, a) /\ TargetsFound(p, a)
  <1>1. \A s \in Categories : Fact(p, a, ModeOf(p, envOnly), s) BY DEF Promised
  <1>2. Fact(p, a, ModeOf(p, envOnly), "auth") /\ Fact(p, a, ModeOf(p, envOnly), "sources")
        /\ Fact(p, a, ModeOf(p, envOnly), "conflicts") /\ Fact(p, a, ModeOf(p, envOnly), "refs")
        /\ Fact(p, a, ModeOf(p, envOnly), "targets")
    BY <1>1 DEF Categories
  <1> QED BY <1>2 DEF Fact

-----------------------------------------------------------------------------
(* Codes *)

LEMMA FirstCodeIs ==
  ASSUME NEW codes, DOMAIN codes \in SUBSET Nat
  PROVE  /\ FirstCode(codes) = "none" => \A i \in DOMAIN codes : codes[i] = "none"
         /\ FirstCode(codes) # "none" => \E i \in DOMAIN codes : FirstCode(codes) = codes[i]
  <1> DEFINE bad == {i \in DOMAIN codes : codes[i] # "none"}
  <1>1. FirstCode(codes) = IF bad = {} THEN "none" ELSE codes[Min(bad)] BY Zenon DEF FirstCode
  <1>2. ASSUME bad # {} PROVE Min(bad) \in bad
    <2>1. bad \in SUBSET Nat OBVIOUS
    <2> HIDE DEF bad
    <2>2. PICK m \in bad : \A n \in bad : ~(n < m) BY <1>2, <2>1, LeastOf
    <2>3. \A n \in bad : m =< n BY <2>1, <2>2
    <2> QED BY <2>3 DEF Min
  <1> QED BY <1>1, <1>2

LEMMA ResolveCodeIs ==
  ASSUME NEW values, NEW with
  PROVE  ResolveCode(values, with) # "none" =>
           \E v \in values : ResolveCode(values, with) = ResolveScalar(v, with).code
  <1> DEFINE codes == {ResolveScalar(v, with).code : v \in values} \ {"none"}
  <1>1. ResolveCode(values, with) = IF codes = {} THEN "none" ELSE CHOOSE c \in codes : TRUE
    BY Zenon DEF ResolveCode
  <1>2. codes # {} => (CHOOSE c \in codes : TRUE) \in codes OBVIOUS
  <1> QED BY <1>1, <1>2

(* A reference that `check` accepts.                                         *)
Sound(value, index) ==
  /\ value.form # "bare"
  /\ value.form = "template" => ValidateResourceReference(value, index) = "none"

LEMMA SoundCode ==
  ASSUME NEW value, NEW with, Sound(value, with.index)
  PROVE  ResolveScalar(value, with).code \in {"none", "RESOURCE_REF_ENV_NOT_SET"}
  <1> DEFINE code == ValidateResourceReference(value, with.index)
             name == with.variable[Identity(value)]
  <1>1. value.form # "bare" BY DEF Sound
  <1>2. ResolveScalar(value, with) =
          CASE value.form # "template" -> Resolved("none", value)
            [] value.form = "template" /\ code # "none" -> Resolved(code, value)
            [] value.form = "template" /\ code = "none" ->
                 IF Identity(value) \notin DOMAIN with.variable THEN Resolved("none", value)
                 ELSE IF name \in with.environment THEN Resolved("none", Literal(name))
                 ELSE Resolved("RESOURCE_REF_ENV_NOT_SET", value)
    BY <1>1 DEF ResolveScalar
  <1>3. \A c, v : Resolved(c, v).code = c BY DEF Resolved
  <1>4. value.form = "template" => code = "none" BY DEF Sound
  <1> HIDE DEF code, name
  <1> QED BY <1>2, <1>3, <1>4

LEMMA PlainScalar ==
  ASSUME NEW value, NEW with, value.form \notin {"bare", "template"}
  PROVE  ResolveScalar(value, with).code = "none" /\ ResolveScalar(value, with).value = value
  <1>1. ResolveScalar(value, with) = Resolved("none", value) BY DEF ResolveScalar
  <1> QED BY <1>1 DEF Resolved

(* Functions of the index are referred to by their id.                       *)
LEMMA IndexedFunctions ==
  ASSUME NEW p, NEW name \in Names(Index(p), "functions")
  PROVE  <<"functions", name, "id">> \in Index(p)
  <1> DEFINE file == p.resources
             read == Read(p).index
             entries == {<<e.domain, e.name, DomainProperties[e.domain]>> : e \in Range(file.entries)}
             merged == MergeResourceIndex(read, <<>>)
  <1>1. read = {} \/ read = entries
    BY DEF Read, ParseResourceIndex
  <1>2. Index(p) = {} \/ Index(p) = read
    <2>1. Range(<<>>) = {} BY DEF Range
    <2> QED BY <2>1 DEF Index, MergeResourceIndex
  <1>3. PICK i \in Index(p) : i[1] = "functions" /\ i[2] = name BY DEF Names
  <1>4. i \in entries BY <1>1, <1>2, <1>3
  <1>5. PICK e \in Range(file.entries) : i = <<e.domain, e.name, DomainProperties[e.domain]>> BY <1>4
  <1>6. DomainProperties["functions"] = "id" BY DEF DomainProperties, ResourceDomains
  <1>7. e.domain = "functions" /\ e.name = name BY <1>3, <1>5
  <1>8. i = <<"functions", name, "id">> BY <1>5, <1>6, <1>7
  <1> QED BY <1>3, <1>8

-----------------------------------------------------------------------------
(* Which of the codes of a compilation `check` is about *)

LEMMA OtherCodes ==
  ASSUME NEW p, NEW app, NEW mode
  PROVE  {"none", "NO_GATEWAY_APPS", "MULTIPLE_GATEWAY_APPS", "GATEWAY_APP_NOT_FOUND",
          "OPENAPI_ENTRY_INVALID", "RUNNER_SPAWN_FAILED", "ENTRY_TIMEOUT",
          "ENTRY_RETURNED_INVALID", "ENTRY_LOAD_FAILED", "ENTRY_EXECUTION_FAILED",
          "AUTH_SECURITY_UNDECLARED", "AUTH_SECURITY_PUBLIC_VIOLATION",
          "COMPOSE_OPENAPI_VERSION_MISMATCH", "COMPOSE_PATH_COLLISION",
          "COMPOSE_COMPONENT_COLLISION", "COMPOSE_SECURITY_REF_NONE_SCHEME",
          "OVERRIDE_OUT_OF_SCOPE", "OVERRIDE_TARGET_ALREADY_EXISTS",
          "RESOURCE_REF_ENV_NOT_SET"} \cap CheckedCodes(p, app, mode) = {}
  BY DEF CheckedCodes, RefCodes, AuthCodes

(* `check` has nothing to say of the overrides in the env-only mode, and of   *)
(* missing targets only for rules that leave each other's targets alone.     *)
LEMMA OverrideCodes ==
  ASSUME NEW p, NEW app, NEW mode
  PROVE  /\ mode = "env-only" => "OVERRIDE_FILE_INVALID_YAML" \notin CheckedCodes(p, app, mode)
         /\ "OVERRIDE_TARGET_MISSING" \in CheckedCodes(p, app, mode) =>
              mode # "env-only" /\ TargetsStay(p, app)
  BY DEF CheckedCodes, RefCodes, AuthCodes

LEMMA ConcatIs ==
  ASSUME NEW r, NEW s, \E S : r \in Seq(S), \E T : s \in Seq(T)
  PROVE  /\ DOMAIN (r \o s) = 1..(Len(r) + Len(s)) /\ Len(r) \in Nat /\ Len(s) \in Nat
         /\ \A i \in 1..Len(r) : (r \o s)[i] = r[i]
         /\ \A i \in 1..Len(s) : (r \o s)[Len(r) + i] = s[i]
  <1>1. PICK S : r \in Seq(S) OBVIOUS
  <1>2. PICK T : s \in Seq(T) OBVIOUS
  <1> DEFINE U == S \cup T
  <1>3. r \in Seq(U) /\ s \in Seq(U)
    <2>1. S \subseteq U /\ T \subseteq U OBVIOUS
    <2> HIDE DEF U
    <2> QED BY <1>1, <1>2, <2>1
  <1> HIDE DEF U
  <1> QED BY <1>3

(* The references to functions that `check` has found valid name functions   *)
(* of the index.                                                             *)
LEMMA SchemesFound ==
  ASSUME NEW auth, NEW functions, auth.schemes \in Seq(Range(auth.schemes)),
         ValidateFunctionReferences(auth, functions) = "none"
  PROVE  \A i \in DOMAIN auth.schemes :
           auth.schemes[i].type = "function" => auth.schemes[i].function.name \in functions
  <1> DEFINE parsed(t) == IF t.type # "function" \/ t.function.form = "bare" THEN "none"
                          ELSE "AUTH_FUNCTION_INVALID_REF"
             found(t) == IF t.type # "function" THEN "none"
                         ELSE IF functions = none THEN "AUTH_FUNCTION_SET_REQUIRED"
                         ELSE IF t.function.name \in functions THEN "none"
                         ELSE "AUTH_FUNCTION_UNRESOLVED"
             s == auth.schemes
             n == Len(s)
             first == [i \in DOMAIN s |-> parsed(s[i])]
             second == [i \in DOMAIN s |-> found(s[i])]
             both == first \o second
  <1>1. FirstCode(both) = "none" BY Zenon DEF ValidateFunctionReferences
  <1>2. n \in Nat /\ DOMAIN s = 1..n OBVIOUS
  <1> HIDE DEF parsed, found, s, n
  <1>3. \E F, S : first \in Seq(F) /\ Len(first) = n /\ second \in Seq(S) /\ Len(second) = n
    <2> DEFINE F == {parsed(s[i]) : i \in 1..n}
               S == {found(s[i]) : i \in 1..n}
    <2>1. first \in [1..n -> F] /\ second \in [1..n -> S] BY <1>2
    <2> HIDE DEF F, S, first, second
    <2>2. first \in Seq(F) /\ Len(first) = n /\ second \in Seq(S) /\ Len(second) = n BY <2>1, <1>2
    <2> QED BY <2>2
  <1>4. \A i \in 1..n : second[i] = found(s[i]) BY <1>2
  <1> HIDE DEF first, second
  <1>5. DOMAIN both = 1..(n + n) /\ \A i \in 1..n : both[n + i] = second[i]
    <2>1. (\E F : first \in Seq(F)) /\ \E S : second \in Seq(S) BY <1>3
    <2>2. /\ DOMAIN both = 1..(Len(first) + Len(second))
          /\ \A i \in 1..Len(second) : both[Len(first) + i] = second[i]
      BY <2>1, ConcatIs
    <2> HIDE DEF both
    <2> QED BY <2>2, <1>3
  <1> HIDE DEF both
  <1>6. \A i \in DOMAIN both : both[i] = "none" BY <1>1, <1>2, <1>5, FirstCodeIs
  <1>7. ASSUME NEW i \in 1..n PROVE found(s[i]) = "none"
    <2>1. n + i \in DOMAIN both BY <1>2, <1>5
    <2> QED BY <2>1, <1>4, <1>5, <1>6
  <1> QED BY <1>2, <1>7 DEF found, s

LEMMA SecurityCodes ==
  ASSUME NEW doc, NEW auth
  PROVE  ValidateSecurityReferences(doc, auth) \in
           {"none", "AUTH_SECURITY_UNDECLARED", "AUTH_SECURITY_PUBLIC_VIOLATION"}
  BY DEF ValidateSecurityReferences

LEMMA FieldRefsHas ==
  ASSUME NEW doc
  PROVE  /\ \A p \in DOMAIN doc.paths : \A m \in DOMAIN doc.paths[p] :
              doc.paths[p][m].ref \in FieldRefs(doc)
         /\ \A s \in DOMAIN doc.components : \A n \in DOMAIN doc.components[s] :
              doc.components[s][n].ref \in FieldRefs(doc)
  <1>1. ASSUME NEW p \in DOMAIN doc.paths, NEW m \in DOMAIN doc.paths[p]
        PROVE  doc.paths[p][m].ref \in FieldRefs(doc)
    <2>1. doc.paths[p][m].ref \in {doc.paths[p][k].ref : k \in DOMAIN doc.paths[p]} OBVIOUS
    <2> QED BY <2>1, Zenon DEF FieldRefs
  <1>2. ASSUME NEW s \in DOMAIN doc.components, NEW n \in DOMAIN doc.components[s]
        PROVE  doc.components[s][n].ref \in FieldRefs(doc)
    <2>1. doc.components[s][n].ref \in {doc.components[s][k].ref : k \in DOMAIN doc.components[s]}
      OBVIOUS
    <2> QED BY <2>1, Zenon DEF FieldRefs
  <1> QED BY <1>1, <1>2

(* The document of a compilation before auth.yaml.                           *)
LEMMA MergedRefs ==
  ASSUME NEW parts, NEW info, \A i \in DOMAIN parts : IsDocument(parts[i].doc),
         NEW b \in BearerFields(MergeDocuments(parts, info).doc)
  PROVE  \E i \in DOMAIN parts : b[3] \in FieldRefs(parts[i].doc)
  <1> DEFINE paths    == PathsOf(parts)
             entries  == ComponentsOf(parts)
             all(keys) == UNION {keys[i] : i \in DOMAIN parts}
             names(s) == {e[2] : e \in {c \in all(entries) : c[1] = s}}
             sections == UNION {DOMAIN parts[i].doc.components : i \in DOMAIN parts}
             home(p)  == From(parts, paths, p)
             entry(s, n) == From(parts, entries, <<s, n>>).doc.components[s][n]
             items    == [p \in all(paths) |-> home(p).doc.paths[p]]
             comps    == [s \in sections |-> [n \in names(s) |-> entry(s, n)]]
             doc      == MergeDocuments(parts, info).doc
             part     == "securitySchemes"
  <1>1. doc.paths = items /\ doc.components = comps
    <2>1. \E version, owner, ids : MergeDocuments(parts, info) =
            [doc |-> [version |-> version, info |-> info, security |-> {}, paths |-> items,
                      components |-> comps], owner |-> owner, ids |-> ids]
      BY Zenon DEF MergeDocuments
    <2> HIDE DEF items, comps
    <2> QED BY <2>1
  <1>2. /\ DOMAIN paths = DOMAIN parts /\ DOMAIN entries = DOMAIN parts
        /\ \A i \in DOMAIN parts : paths[i] = DOMAIN parts[i].doc.paths
        /\ \A i \in DOMAIN parts : entries[i] =
             UNION {{<<s, n>> : n \in DOMAIN parts[i].doc.components[s]} :
                      s \in DOMAIN parts[i].doc.components}
    BY DEF PathsOf, ComponentsOf
  <1>3. \A p \in all(paths) : \E i \in DOMAIN parts :
          p \in DOMAIN parts[i].doc.paths /\ items[p] = parts[i].doc.paths[p]
    <2> TAKE p \in all(paths)
    <2>1. PICK i \in DOMAIN parts : home(p) = parts[i] /\ p \in paths[i] BY <1>2, FromHas
    <2>2. items[p] = parts[i].doc.paths[p] /\ p \in DOMAIN parts[i].doc.paths BY <2>1, <1>2
    <2> HIDE DEF items
    <2> QED BY <2>2
  <1>4. \A s \in sections : \A n \in names(s) : \E i \in DOMAIN parts :
          /\ s \in DOMAIN parts[i].doc.components /\ n \in DOMAIN parts[i].doc.components[s]
          /\ comps[s][n] = parts[i].doc.components[s][n]
    <2> TAKE s \in sections
    <2> TAKE n \in names(s)
    <2>1. PICK c \in all(entries) : c[1] = s /\ c[2] = n OBVIOUS
    <2>2. PICK k \in DOMAIN parts : c \in entries[k] BY <2>1
    <2> HIDE DEF entries
    <2>3. \E t, m : c = <<t, m>> BY <2>2, <1>2
    <2>4. c = <<s, n>> BY <2>1, <2>3
    <2>5. <<s, n>> \in all(entries) BY <2>1, <2>4
    <2>6. PICK i \in DOMAIN parts : From(parts, entries, <<s, n>>) = parts[i] /\ <<s, n>> \in entries[i]
      BY <2>5, <1>2, FromHas
    <2>7. PICK t \in DOMAIN parts[i].doc.components :
            <<s, n>> \in {<<t, m>> : m \in DOMAIN parts[i].doc.components[t]}
      BY <2>6, <1>2
    <2>8. s \in DOMAIN parts[i].doc.components /\ n \in DOMAIN parts[i].doc.components[s] BY <2>7
    <2>9. comps[s][n] = parts[i].doc.components[s][n] BY <2>6
    <2> HIDE DEF comps
    <2> QED BY <2>8, <2>9
  <1>5. DOMAIN items = all(paths) /\ DOMAIN comps = sections
        /\ \A s \in sections : DOMAIN comps[s] = names(s)
    OBVIOUS
  <1> HIDE DEF items, comps, all, sections, names
  <1>6. \/ part \in DOMAIN comps /\ \E n \in DOMAIN comps[part] : b[3] = comps[part][n].ref
        \/ \E p \in DOMAIN items : \E m \in DOMAIN items[p] : b[3] = items[p][m].ref
    BY <1>1 DEF BearerFields
  <1>7. CASE part \in DOMAIN comps /\ \E n \in DOMAIN comps[part] : b[3] = comps[part][n].ref
    <2>1. PICK n \in DOMAIN comps[part] : b[3] = comps[part][n].ref BY <1>7
    <2>2. PICK i \in DOMAIN parts :
            /\ part \in DOMAIN parts[i].doc.components /\ n \in DOMAIN parts[i].doc.components[part]
            /\ comps[part][n] = parts[i].doc.components[part][n]
      BY <2>1, <1>4, <1>5, <1>7
    <2> QED BY <2>1, <2>2, FieldRefsHas
  <1>8. CASE \E p \in DOMAIN items : \E m \in DOMAIN items[p] : b[3] = items[p][m].ref
    <2>1. PICK p \in DOMAIN items : \E m \in DOMAIN items[p] : b[3] = items[p][m].ref BY <1>8
    <2>2. PICK i \in DOMAIN parts : p \in DOMAIN parts[i].doc.paths /\ items[p] = parts[i].doc.paths[p]
      BY <1>3, <1>5
    <2> QED BY <2>1, <2>2, FieldRefsHas
  <1> QED BY <1>6, <1>7, <1>8

(* Every field of a document that bears a reference is one of these.         *)
LEMMA BearerIs ==
  ASSUME NEW doc, NEW b \in BearerFields(doc)
  PROVE  \/ /\ "securitySchemes" \in DOMAIN doc.components
            /\ \E n \in DOMAIN doc.components["securitySchemes"] :
                 b[3] = doc.components["securitySchemes"][n].ref
         \/ \E p \in DOMAIN doc.paths : \E m \in DOMAIN doc.paths[p] : b[3] = doc.paths[p][m].ref
  BY DEF BearerFields

LEMMA BearerHas ==
  ASSUME NEW doc
  PROVE  /\ "securitySchemes" \in DOMAIN doc.components =>
              \A n \in DOMAIN doc.components["securitySchemes"] :
                \E b \in BearerFields(doc) : b[3] = doc.components["securitySchemes"][n].ref
         /\ \A p \in DOMAIN doc.paths : \A m \in DOMAIN doc.paths[p] :
              \E b \in BearerFields(doc) : b[3] = doc.paths[p][m].ref
  <1> DEFINE part == "securitySchemes"
  <1>1. ASSUME part \in DOMAIN doc.components, NEW n \in DOMAIN doc.components[part]
        PROVE  \E b \in BearerFields(doc) : b[3] = doc.components[part][n].ref
    <2> DEFINE b == <<<<part, n>>, "functions", doc.components[part][n].ref>>
    <2>1. b \in BearerFields(doc) BY <1>1 DEF BearerFields
    <2>2. b[3] = doc.components[part][n].ref OBVIOUS
    <2> HIDE DEF b
    <2> QED BY <2>1, <2>2
  <1>2. ASSUME NEW p \in DOMAIN doc.paths, NEW m \in DOMAIN doc.paths[p]
        PROVE  \E b \in BearerFields(doc) : b[3] = doc.paths[p][m].ref
    <2> DEFINE b == <<<<p, m>>, doc.paths[p][m].domain, doc.paths[p][m].ref>>
    <2>1. b \in BearerFields(doc) BY DEF BearerFields
    <2>2. b[3] = doc.paths[p][m].ref OBVIOUS
    <2> HIDE DEF b
    <2> QED BY <2>1, <2>2
  <1> QED BY <1>1, <1>2

LEMMA AuthBearers ==
  ASSUME NEW draft, NEW auth, IsDraft(draft), NEW b \in BearerFields(ApplyAuth(draft, auth).doc)
  PROVE  \/ \E c \in BearerFields(draft.doc) : b[3] = c[3]
         \/ \E s \in Range(auth.schemes) : b[3] = SchemeEntry(s).ref
  <1> DEFINE emitted == {s.name : s \in {t \in Range(auth.schemes) : t.type # "none"}}
             part == "securitySchemes"
             old == IF part \in DOMAIN draft.doc.components THEN draft.doc.components[part] ELSE <<>>
             entries == [n \in emitted \cup DOMAIN old |->
                           IF n \in emitted THEN SchemeEntry(SchemeOf(auth, n)) ELSE old[n]]
             comps == With(draft.doc.components, part, entries)
             security == IF SchemeOf(auth, auth.default).type = "none" THEN draft.doc.security
                         ELSE {auth.default}
             new == ApplyAuth(draft, auth).doc
  <1>1. ApplyAuth(draft, auth) = [draft EXCEPT !.doc.security = security, !.doc.components = comps]
    BY Zenon DEF ApplyAuth
  <1>2. DOMAIN draft = {"doc", "owner", "ids"}
        /\ DOMAIN draft.doc = {"version", "info", "security", "paths", "components"}
    BY DEF IsDraft, IsDocument
  <1>3. comps[part] = entries BY DEF With
  <1>4. DOMAIN entries = emitted \cup DOMAIN old
        /\ \A n \in DOMAIN entries :
             entries[n] = IF n \in emitted THEN SchemeEntry(SchemeOf(auth, n)) ELSE old[n]
    OBVIOUS
  <1>5. \A n \in emitted : SchemeOf(auth, n) \in Range(auth.schemes) BY DEF SchemeOf
  <1>6. \A n \in DOMAIN old : \E c \in BearerFields(draft.doc) : old[n].ref = c[3]
    <2>1. CASE part \in DOMAIN draft.doc.components BY <2>1, BearerHas
    <2>2. CASE part \notin DOMAIN draft.doc.components BY <2>2
    <2> QED BY <2>1, <2>2
  <1> HIDE DEF emitted, old, entries, security, comps
  <1>7. new.paths = draft.doc.paths /\ new.components = comps BY <1>1, <1>2
  <1> HIDE DEF new
  <1>8. b \in BearerFields(new) BY DEF new
  <1>9. \/ \E n \in DOMAIN entries : b[3] = entries[n].ref
        \/ \E p \in DOMAIN draft.doc.paths : \E m \in DOMAIN draft.doc.paths[p] :
             b[3] = draft.doc.paths[p][m].ref
    BY <1>3, <1>7, <1>8, BearerIs
  <1>10. CASE \E n \in DOMAIN entries : b[3] = entries[n].ref BY <1>4, <1>5, <1>6, <1>10
  <1>11. CASE \E p \in DOMAIN draft.doc.paths : \E m \in DOMAIN draft.doc.paths[p] :
                b[3] = draft.doc.paths[p][m].ref
    BY <1>11, BearerHas
  <1> QED BY <1>9, <1>10, <1>11

LEMMA SchemeSound ==
  ASSUME NEW s, NEW index, s.type = "function" => <<"functions", s.function.name, "id">> \in index
  PROVE  Sound(SchemeEntry(s).ref, index)
  <1> DEFINE v == SchemeEntry(s).ref
             name == s.function.name
             t == Template("functions", name, "id")
  <1>1. v = IF s.type = "function" THEN t ELSE NoRef BY DEF SchemeEntry
  <1>2. NoRef.form = "literal" BY DEF NoRef, Literal, Value
  <1>3. t.form = "template" /\ t.domain = "functions" /\ t.name = name /\ t.property = "id"
    BY DEF Template, Value
  <1> HIDE DEF v, t, name
  <1>4. CASE s.type = "function"
    <2> DEFINE i == <<"functions", name, "id">>
    <2>1. i \in index BY <1>4 DEF name
    <2>2. i[1] = "functions" /\ i[2] = name OBVIOUS
    <2>3. Identity(t) = i BY <1>3 DEF Identity
    <2> HIDE DEF i
    <2>4. Declared(index, "functions", name) BY <2>1, <2>2 DEF Declared
    <2>5. ValidateResourceReference(t, index) = "none"
      BY <1>3, <2>1, <2>3, <2>4 DEF ValidateResourceReference, ResourceDomains
    <2> QED BY <1>1, <1>3, <1>4, <2>5 DEF Sound, v
  <1>5. CASE s.type # "function" BY <1>1, <1>2, <1>5 DEF Sound, v
  <1> QED BY <1>4, <1>5

LEMMA AuthApplyCodes ==
  ASSUME NEW draft, NEW auth, NEW index, auth.schemes \in Seq(Range(auth.schemes)),
         \A i \in DOMAIN auth.schemes : auth.schemes[i].type = "function" =>
           <<"functions", auth.schemes[i].function.name, "id">> \in index
  PROVE  AuthApplyCode(draft, auth, index) \in
           {"none", "COMPOSE_SECURITY_REF_NONE_SCHEME", "COMPOSE_COMPONENT_COLLISION"}
  <1> DEFINE named == SecurityEntries([draft.doc EXCEPT !.security = {}])
             taken == IF "securitySchemes" \in DOMAIN draft.doc.components
                      THEN DOMAIN draft.doc.components["securitySchemes"] ELSE {}
             code(s) == IF s.type = "none" THEN "none"
                        ELSE IF s.name \in taken THEN "COMPOSE_COMPONENT_COLLISION"
                        ELSE IF s.type = "function" /\ <<"functions", s.function.name, "id">> \notin index
                          THEN "RESOURCE_REF_NOT_DECLARED"
                        ELSE "none"
             codes == [i \in DOMAIN auth.schemes |-> code(auth.schemes[i])]
  <1>1. AuthApplyCode(draft, auth, index) =
          IF \E s \in Range(auth.schemes) : s.type = "none" /\ s.name \in named
          THEN "COMPOSE_SECURITY_REF_NONE_SCHEME" ELSE FirstCode(codes)
    BY Zenon DEF AuthApplyCode
  <1>2. DOMAIN codes \in SUBSET Nat OBVIOUS
  <1>3. \A i \in DOMAIN codes : codes[i] \in {"none", "COMPOSE_COMPONENT_COLLISION"} OBVIOUS
  <1> HIDE DEF codes, named
  <1>4. FirstCode(codes) \in {"none", "COMPOSE_COMPONENT_COLLISION"} BY <1>2, <1>3, FirstCodeIs
  <1> QED BY <1>1, <1>4

-----------------------------------------------------------------------------
(* What rules bring into the document *)

Puts == {"info", "path", "operation", "component"}

(* The references that a value brings when it is put at a place.             *)
Brought(place, value) ==
  IF place.at = "info" THEN {}
  ELSE IF place.at = "path" THEN {value[m].ref : m \in DOMAIN value}
  ELSE {value.ref}

LEMMA SetBearers ==
  ASSUME NEW doc, NEW new, NEW refs,
         \A p \in DOMAIN new.paths : \A m \in DOMAIN new.paths[p] :
           \/ p \in DOMAIN doc.paths /\ m \in DOMAIN doc.paths[p]
                /\ new.paths[p][m] = doc.paths[p][m]
           \/ new.paths[p][m].ref \in refs,
         \A s \in DOMAIN new.components : \A n \in DOMAIN new.components[s] :
           \/ s \in DOMAIN doc.components /\ n \in DOMAIN doc.components[s]
                /\ new.components[s][n] = doc.components[s][n]
           \/ new.components[s][n].ref \in refs,
         NEW b \in BearerFields(new)
  PROVE  b[3] \in refs \/ \E c \in BearerFields(doc) : b[3] = c[3]
  <1>1. CASE /\ "securitySchemes" \in DOMAIN new.components
             /\ \E n \in DOMAIN new.components["securitySchemes"] :
                  b[3] = new.components["securitySchemes"][n].ref
    BY <1>1, BearerHas
  <1>2. CASE \E p \in DOMAIN new.paths : \E m \in DOMAIN new.paths[p] : b[3] = new.paths[p][m].ref
    BY <1>2, BearerHas
  <1> QED BY <1>1, <1>2, BearerIs

LEMMA PutBearers ==
  ASSUME NEW doc, NEW place, NEW value, IsDocument(doc), place.at \in Puts,
         NEW b \in BearerFields(Put(doc, place, value))
  PROVE  b[3] \in Brought(place, value) \/ \E c \in BearerFields(doc) : b[3] = c[3]
  <1> DEFINE new == Put(doc, place, value)
             item == IF place.in \in DOMAIN doc.paths THEN doc.paths[place.in] ELSE <<>>
             put == With(item, place.key, value)
             refs == Brought(place, value)
  <1>1. DOMAIN doc = {"version", "info", "security", "paths", "components"} BY DEF IsDocument
  <1>2. b \in BearerFields(new) OBVIOUS
  <1>3. CASE place.at = "info"
    <2>1. new = [doc EXCEPT !.info = value] BY <1>3 DEF Put
    <2> HIDE DEF new
    <2>2. new.paths = doc.paths /\ new.components = doc.components BY <2>1, <1>1
    <2> QED BY <2>2, <1>2, SetBearers
  <1>4. CASE place.at = "path"
    <2> DEFINE paths == With(doc.paths, place.key, value)
    <2>1. new = [doc EXCEPT !.paths = paths] BY <1>4 DEF Put
    <2>2. DOMAIN paths = {place.key} \cup DOMAIN doc.paths /\ paths[place.key] = value
          /\ \A x \in DOMAIN doc.paths : x # place.key => paths[x] = doc.paths[x]
      BY DEF With
    <2> HIDE DEF new, paths
    <2>3. new.paths = paths /\ new.components = doc.components BY <2>1, <1>1
    <2>4. \A m \in DOMAIN value : value[m].ref \in refs BY <1>4 DEF Brought
    <2> HIDE DEF refs
    <2>5. \A p \in DOMAIN new.paths : \A m \in DOMAIN new.paths[p] :
            \/ p \in DOMAIN doc.paths /\ m \in DOMAIN doc.paths[p]
                 /\ new.paths[p][m] = doc.paths[p][m]
            \/ new.paths[p][m].ref \in refs
      BY <2>2, <2>3, <2>4
    <2>6. b[3] \in refs \/ \E c \in BearerFields(doc) : b[3] = c[3]
      BY <2>3, <2>5, <1>2, SetBearers
    <2> QED BY <2>6 DEF refs
  <1>5. CASE place.at = "operation"
    <2> DEFINE paths == With(doc.paths, place.in, put)
    <2>1. new = [doc EXCEPT !.paths = paths] BY <1>5 DEF Put
    <2>2. DOMAIN paths = {place.in} \cup DOMAIN doc.paths /\ paths[place.in] = put
          /\ \A x \in DOMAIN doc.paths : x # place.in => paths[x] = doc.paths[x]
      BY DEF With
    <2>3. DOMAIN put = {place.key} \cup DOMAIN item /\ put[place.key] = value
          /\ \A x \in DOMAIN item : x # place.key => put[x] = item[x]
      BY DEF With
    <2>4. \A x \in DOMAIN item : place.in \in DOMAIN doc.paths /\ item = doc.paths[place.in] OBVIOUS
    <2> HIDE DEF new, paths, put, item
    <2>5. new.paths = paths /\ new.components = doc.components BY <2>1, <1>1
    <2>6. value.ref \in refs BY <1>5 DEF Brought
    <2> HIDE DEF refs
    <2>7. \A p \in DOMAIN new.paths : \A m \in DOMAIN new.paths[p] :
            \/ p \in DOMAIN doc.paths /\ m \in DOMAIN doc.paths[p]
                 /\ new.paths[p][m] = doc.paths[p][m]
            \/ new.paths[p][m].ref \in refs
      BY <2>2, <2>3, <2>4, <2>5, <2>6
    <2>8. b[3] \in refs \/ \E c \in BearerFields(doc) : b[3] = c[3]
      BY <2>5, <2>7, <1>2, SetBearers
    <2> QED BY <2>8 DEF refs
  <1>6. CASE place.at = "component"
    <2> DEFINE section == With(doc.components[place.in], place.key, value)
               comps == [doc.components EXCEPT ![place.in] = section]
    <2>1. new = [doc EXCEPT !.components[place.in] = section] BY <1>6 DEF Put
    <2>2. DOMAIN section = {place.key} \cup DOMAIN doc.components[place.in]
          /\ section[place.key] = value
          /\ \A x \in DOMAIN doc.components[place.in] : x # place.key =>
               section[x] = doc.components[place.in][x]
      BY DEF With
    <2> HIDE DEF new, section
    <2>3. new.paths = doc.paths /\ new.components = comps BY <2>1, <1>1
    <2>4. value.ref \in refs BY <1>6 DEF Brought
    <2>5. DOMAIN comps = DOMAIN doc.components /\ \A t \in DOMAIN doc.components :
            comps[t] = IF t = place.in THEN section ELSE doc.components[t]
      OBVIOUS
    <2> HIDE DEF refs, comps
    <2>6. \A s \in DOMAIN new.components : \A n \in DOMAIN new.components[s] :
            \/ s \in DOMAIN doc.components /\ n \in DOMAIN doc.components[s]
                 /\ new.components[s][n] = doc.components[s][n]
            \/ new.components[s][n].ref \in refs
      BY <2>2, <2>3, <2>4, <2>5
    <2>7. b[3] \in refs \/ \E c \in BearerFields(doc) : b[3] = c[3]
      BY <2>3, <2>6, <1>2, SetBearers
    <2> QED BY <2>7 DEF refs
  <1> QED BY <1>3, <1>4, <1>5, <1>6 DEF Puts

LEMMA DeleteBearers ==
  ASSUME NEW doc, NEW place, IsDocument(doc), place.at \in Puts,
         NEW b \in BearerFields(Delete(doc, place))
  PROVE  \E c \in BearerFields(doc) : b[3] = c[3]
  <1> DEFINE new == Delete(doc, place)
  <1>1. DOMAIN doc = {"version", "info", "security", "paths", "components"} BY DEF IsDocument
  <1>2. b \in BearerFields(new) OBVIOUS
  <1>3. \A f, x : DOMAIN Without(f, x) = DOMAIN f \ {x}
                  /\ \A y \in DOMAIN f : y # x => Without(f, x)[y] = f[y]
    BY DEF Without
  <1>4. /\ \A p \in DOMAIN new.paths : \A m \in DOMAIN new.paths[p] :
             p \in DOMAIN doc.paths /\ m \in DOMAIN doc.paths[p] /\ new.paths[p][m] = doc.paths[p][m]
        /\ \A s \in DOMAIN new.components : \A n \in DOMAIN new.components[s] :
             s \in DOMAIN doc.components /\ n \in DOMAIN doc.components[s]
             /\ new.components[s][n] = doc.components[s][n]
    <2>1. CASE place.at = "info"
      <3>1. new = [doc EXCEPT !.info = none] BY <2>1 DEF Delete
      <3> HIDE DEF new
      <3> QED BY <3>1, <1>1
    <2>2. CASE place.at = "path"
      <3> DEFINE paths == Without(doc.paths, place.key)
      <3>1. new = [doc EXCEPT !.paths = paths] BY <2>2 DEF Delete
      <3> HIDE DEF new, paths
      <3>2. new.paths = paths /\ new.components = doc.components BY <3>1, <1>1
      <3>3. DOMAIN paths = DOMAIN doc.paths \ {place.key}
            /\ \A x \in DOMAIN doc.paths : x # place.key => paths[x] = doc.paths[x]
        BY <1>3 DEF paths
      <3>4. \A p \in DOMAIN paths : p \in DOMAIN doc.paths /\ paths[p] = doc.paths[p] BY <3>3
      <3> QED BY <3>2, <3>4
    <2>3. CASE place.at = "operation"
      <3> DEFINE item == Without(doc.paths[place.in], place.key)
                 paths == [doc.paths EXCEPT ![place.in] = item]
      <3>1. new = [doc EXCEPT !.paths[place.in] = item] BY <2>3 DEF Delete
      <3>2. DOMAIN paths = DOMAIN doc.paths /\ \A t \in DOMAIN doc.paths :
              paths[t] = IF t = place.in THEN item ELSE doc.paths[t]
        OBVIOUS
      <3>3. DOMAIN item = DOMAIN doc.paths[place.in] \ {place.key}
            /\ \A x \in DOMAIN doc.paths[place.in] : x # place.key => item[x] = doc.paths[place.in][x]
        BY <1>3
      <3> HIDE DEF new, item
      <3>4. new.paths = paths /\ new.components = doc.components BY <3>1, <1>1
      <3> HIDE DEF paths
      <3> QED BY <3>2, <3>3, <3>4
    <2>4. CASE place.at = "component"
      <3> DEFINE part == Without(doc.components[place.in], place.key)
                 comps == [doc.components EXCEPT ![place.in] = part]
      <3>1. new = [doc EXCEPT !.components[place.in] = part] BY <2>4 DEF Delete
      <3>2. DOMAIN comps = DOMAIN doc.components /\ \A t \in DOMAIN doc.components :
              comps[t] = IF t = place.in THEN part ELSE doc.components[t]
        OBVIOUS
      <3>3. DOMAIN part = DOMAIN doc.components[place.in] \ {place.key}
            /\ \A x \in DOMAIN doc.components[place.in] : x # place.key =>
                 part[x] = doc.components[place.in][x]
        BY <1>3
      <3> HIDE DEF new, part
      <3>4. new.paths = doc.paths /\ new.components = comps BY <3>1, <1>1
      <3> HIDE DEF comps
      <3> QED BY <3>2, <3>3, <3>4
    <2> QED BY <2>1, <2>2, <2>3, <2>4 DEF Puts
  <1> HIDE DEF new
  <1> DEFINE refs == {}
  <1>5. b[3] \in refs \/ \E c \in BearerFields(doc) : b[3] = c[3]
    <2> HIDE DEF refs
    <2>1. \A p \in DOMAIN new.paths : \A m \in DOMAIN new.paths[p] :
            \/ p \in DOMAIN doc.paths /\ m \in DOMAIN doc.paths[p]
                 /\ new.paths[p][m] = doc.paths[p][m]
            \/ new.paths[p][m].ref \in refs
      BY <1>4
    <2>2. \A s \in DOMAIN new.components : \A n \in DOMAIN new.components[s] :
            \/ s \in DOMAIN doc.components /\ n \in DOMAIN doc.components[s]
                 /\ new.components[s][n] = doc.components[s][n]
            \/ new.components[s][n].ref \in refs
      BY <1>4
    <2>3. b \in BearerFields(new) BY <1>2
    <2> QED BY <2>1, <2>2, <2>3, SetBearers
  <1> QED BY <1>5

(* A rule brings the references of its value and no other.                   *)
LEMMA RuleBearers ==
  ASSUME NEW draft, NEW rule, NEW app, IsDraft(draft), IsRule(rule),
         RuleCode(draft, rule, app) = "none",
         NEW b \in BearerFields(ApplyRule(draft, rule, app).doc)
  PROVE  b[3] \in RuleRefs(rule) \/ \E c \in BearerFields(draft.doc) : b[3] = c[3]
  <1> DEFINE doc == draft.doc
             resolved == ResolveTarget(draft, rule)
             place == IF resolved = NoPlace THEN Place("operation", rule.path, rule.method)
                      ELSE resolved
             new == RuleDoc(draft, rule)
             d == [draft EXCEPT !.doc = new]
             owner == IF app = none THEN "global" ELSE app
  <1>1. new = IF rule.op = "remove" THEN Delete(doc, place) ELSE Put(doc, place, rule.value)
    BY Zenon DEF RuleDoc
  <1>2. b \in BearerFields(new)
    <2>1. ApplyRule(draft, rule, app) = UpdateOwnership(d, rule, app) BY ApplyRuleIs
    <2> HIDE DEF new
    <2>2. DOMAIN d = {"doc", "owner", "ids"} /\ d.doc = new BY DEF IsDraft
    <2> HIDE DEF d
    <2>3. Owned(d, rule, owner, UpdateOwnership(d, rule, app)) BY <2>2, Ownership
    <2> QED BY <2>1, <2>2, <2>3 DEF Owned
  <1>3. IsDocument(doc) BY DEF IsDraft
  <1>4. rule.kind \in {"info", "path", "operation", "operationId", "component"} BY DEF IsRule
  <1>5. /\ rule.kind = "info" => place.at = "info"
        /\ rule.kind = "path" => place.at = "path"
        /\ rule.kind \in {"operation", "operationId"} => place.at = "operation"
        /\ rule.kind = "component" => place.at = "component"
    <2>1. /\ Place("operation", rule.path, rule.method).at = "operation"
          /\ \A k, l : Place("operation", k, l).at = "operation"
          /\ \A k, l : Place("component", k, l).at = "component"
          /\ Place("info", none, none).at = "info"
          /\ Place("path", none, rule.path).at = "path"
          /\ NoPlace.at = "nowhere"
      BY DEF Place, NoPlace
    <2>2. rule.kind = "info" => resolved = Place("info", none, none) BY DEF ResolveTarget
    <2>3. rule.kind = "path" => resolved = Place("path", none, rule.path) BY DEF ResolveTarget
    <2>4. rule.kind \in {"operation", "operationId"} =>
            resolved = NoPlace \/ \E k, l : resolved = Place("operation", k, l)
      BY Zenon DEF ResolveTarget
    <2>5. rule.kind = "component" => resolved # NoPlace BY Passed
    <2>6. rule.kind = "component" =>
            resolved = NoPlace \/ \E s : resolved = Place("component", s, rule.name)
      BY Zenon DEF ResolveTarget
    <2> HIDE DEF resolved
    <2> QED BY <2>1, <2>2, <2>3, <2>4, <2>5, <2>6
  <1>6. place.at \in Puts BY <1>4, <1>5 DEF Puts
  <1> HIDE DEF place, new, doc
  <1>7. CASE rule.op = "remove"
    <2>1. b \in BearerFields(Delete(doc, place)) BY <1>1, <1>2, <1>7
    <2> QED BY <2>1, <1>3, <1>6, DeleteBearers DEF doc
  <1>8. CASE rule.op # "remove"
    <2>1. b \in BearerFields(Put(doc, place, rule.value)) BY <1>1, <1>2, <1>8
    <2>2. Brought(place, rule.value) = RuleRefs(rule)
      BY <1>4, <1>5, <1>8 DEF Brought, RuleRefs
    <2> QED BY <2>1, <2>2, <1>3, <1>6, PutBearers DEF doc
  <1> QED BY <1>7, <1>8

-----------------------------------------------------------------------------
(* Plain rules *)

PlainRules(rules) == \A i \in DOMAIN rules : Plain(rules[i].rule)

LEMMA FlattenNone == FlattenSeq(<<>>) = <<>>
  BY DEF FlattenSeq

LEMMA FlattenOne ==
  ASSUME NEW seqs, DOMAIN seqs = 1..1, Len(seqs) = 1
  PROVE  FlattenSeq(seqs) = seqs[1]
  <1> DEFINE n == 1
             f == CHOOSE f : Flattening(seqs, n, f)
  <1>1. Flattening(seqs, n, f)
    <2>1. n \in Nat OBVIOUS
    <2> HIDE DEF n
    <2> QED BY <2>1, FlatteningExists
  <1>2. FlattenSeq(seqs) = f[1] BY DEF FlattenSeq, Flattening
  <1> HIDE DEF f
  <1>3. f[1] = seqs[1] BY <1>1 DEF Flattening
  <1> QED BY <1>2, <1>3

LEMMA ConcatRange ==
  ASSUME NEW r, NEW s, \E S : r \in Seq(S), \E T : s \in Seq(T)
  PROVE  /\ \A i \in DOMAIN r : r[i] \in Range(r \o s)
         /\ \A i \in DOMAIN s : s[i] \in Range(r \o s)
  <1> DEFINE both == r \o s
  <1>1. \A i \in DOMAIN r : i \in DOMAIN both /\ both[i] = r[i] BY ConcatIs
  <1>2. \A i \in DOMAIN s : Len(r) + i \in DOMAIN both /\ both[Len(r) + i] = s[i] BY ConcatIs
  <1> HIDE DEF both
  <1>3. \A k \in DOMAIN both : both[k] \in Range(both) BY DEF Range
  <1>4. (\A i \in DOMAIN r : r[i] \in Range(both)) /\ \A i \in DOMAIN s : s[i] \in Range(both)
    BY <1>1, <1>2, <1>3
  <1> QED BY <1>4 DEF both

LEMMA PlainConcat ==
  ASSUME NEW r, NEW s, RuleList(r), RuleList(s), PlainRules(r), PlainRules(s)
  PROVE  PlainRules(r \o s)
  <1>1. PICK S : r \in Seq(S) BY DEF RuleList
  <1>2. PICK T : s \in Seq(T) BY DEF RuleList
  <1> DEFINE m == Len(r)
             n == Len(s)
             both == r \o s
  <1>3. m \in Nat /\ n \in Nat /\ DOMAIN r = 1..m /\ DOMAIN s = 1..n BY <1>1, <1>2
  <1>4. DOMAIN both = 1..(m + n)
        /\ (\A i \in 1..m : both[i] = r[i]) /\ \A i \in 1..n : both[m + i] = s[i]
    BY <1>1, <1>2, ConcatIs
  <1> HIDE DEF both, m, n
  <1>5. ASSUME NEW i \in 1..(m + n) PROVE Plain(both[i].rule)
    <2>1. CASE i =< m
      <3>1. i \in 1..m BY <2>1, <1>3
      <3> QED BY <3>1, <1>3, <1>4 DEF PlainRules
    <2>2. CASE ~(i =< m)
      <3>1. i - m \in 1..n /\ m + (i - m) = i BY <2>2, <1>3
      <3> QED BY <3>1, <1>3, <1>4 DEF PlainRules
    <2> QED BY <2>1, <2>2
  <1>6. PlainRules(both) BY <1>4, <1>5 DEF PlainRules
  <1> QED BY <1>6 DEF both

LEMMA PlainStep ==
  ASSUME NEW rules, RuleList(rules), PlainRules(rules), rules # <<>>
  PROVE  Plain(Head(rules).rule) /\ PlainRules(Tail(rules))
  <1>1. PICK S : rules \in Seq(S) BY DEF RuleList
  <1> DEFINE tail == Tail(rules)
  <1>2. Head(rules) = rules[1] /\ 1 \in DOMAIN rules BY <1>1
  <1>3. \A i \in DOMAIN tail : i + 1 \in DOMAIN rules /\ tail[i] = rules[i + 1] BY <1>1
  <1> HIDE DEF tail
  <1>4. PlainRules(tail) BY <1>3 DEF PlainRules
  <1> QED BY <1>2, <1>4 DEF PlainRules, tail

LEMMA LoadedPlain ==
  ASSUME NEW files, NEW app, files = <<>> \/ files = <<project.global>>,
         IsRuleList(project.global.rules), IsRuleList(project.apps[app].overrides.rules),
         \A r \in Range(project.global.rules \o project.apps[app].overrides.rules) : Plain(r)
  PROVE  PlainRules(RulesOf(project, files, app))
  <1> DEFINE shared == [i \in DOMAIN files |-> [k \in DOMAIN files[i].rules |->
                          [rule |-> files[i].rules[k], app |-> none]]]
             global == project.global.rules
             rules == project.apps[app].overrides.rules
             one == [k \in DOMAIN global |-> [rule |-> global[k], app |-> none]]
             own == [k \in DOMAIN rules |-> [rule |-> rules[k], app |-> app]]
             both == global \o rules
  <1>1. RulesOf(project, files, app) = FlattenSeq(shared) \o own BY Zenon DEF RulesOf
  <1>2. RuleList(own) /\ RuleList(one) /\ RuleList(<<>>) BY OwnedRules, EmptyLists
  <1>3. \A i \in DOMAIN global : Plain(global[i])
    <2>1. \A i \in DOMAIN global : global[i] \in Range(both)
      <3>1. (\E S : global \in Seq(S)) /\ \E T : rules \in Seq(T) BY DEF IsRuleList
      <3> QED BY <3>1, ConcatRange
    <2> QED BY <2>1
  <1>4. \A i \in DOMAIN rules : Plain(rules[i])
    <2>1. \A i \in DOMAIN rules : rules[i] \in Range(both)
      <3>1. (\E S : global \in Seq(S)) /\ \E T : rules \in Seq(T) BY DEF IsRuleList
      <3> QED BY <3>1, ConcatRange
    <2> QED BY <2>1
  <1>5. PlainRules(own) /\ PlainRules(one) /\ PlainRules(<<>>) BY <1>3, <1>4 DEF PlainRules
  <1>6. FlattenSeq(shared) = <<>> \/ FlattenSeq(shared) = one
    <2>1. CASE files = <<>>
      <3>1. DOMAIN shared = {} BY <2>1
      <3>2. shared = <<>> BY <3>1
      <3> HIDE DEF shared
      <3> QED BY <3>2, FlattenNone
    <2>2. CASE files = <<project.global>>
      <3>1. DOMAIN files = 1..1 /\ files[1].rules = global BY <2>2
      <3> HIDE DEF global
      <3>2. DOMAIN shared = 1..1 /\ shared[1] = one BY <3>1
      <3>3. shared = [i \in 1..1 |-> one] BY <3>1
      <3> HIDE DEF shared, one
      <3>4. Len(shared) = 1 BY <3>2, <3>3
      <3> QED BY <3>2, <3>4, FlattenOne
    <2> QED BY <2>1, <2>2
  <1> HIDE DEF shared, own, one
  <1> QED BY <1>1, <1>2, <1>5, <1>6, PlainConcat

(* Resolving a plain rule changes no reference of it.                        *)
LEMMA PlainResolved ==
  ASSUME NEW rule, NEW with, IsRule(rule), Plain(rule)
  PROVE  Plain(ResolveRule(rule, with))
  <1> DEFINE new == ResolveRule(rule, with)
             settle(bearer) == [bearer EXCEPT !.ref = ResolveScalar(@, with).value]
             item == [m \in DOMAIN rule.value |-> settle(rule.value[m])]
             part == settle(rule.value)
  <1>1. CASE rule.op = "remove" \/ rule.kind = "info"
    BY <1>1 DEF ResolveRule
  <1>2. CASE rule.op # "remove" /\ rule.kind # "info"
    <2>1. DOMAIN rule = {"op", "kind", "path", "method", "id", "name", "value"}
          /\ rule.kind \in {"info", "path", "operation", "operationId", "component"}
      BY DEF IsRule
    <2>2. \A bearer : "ref" \in DOMAIN bearer /\ bearer.ref.form \notin {"bare", "template"} =>
            settle(bearer).ref = bearer.ref
      <3> SUFFICES ASSUME NEW bearer, "ref" \in DOMAIN bearer,
                          bearer.ref.form \notin {"bare", "template"}
                   PROVE  settle(bearer).ref = bearer.ref
        OBVIOUS
      <3>1. ResolveScalar(bearer.ref, with).value = bearer.ref BY PlainScalar
      <3> QED BY <3>1
    <2>3. CASE rule.kind = "path"
      <3>1. \A m \in DOMAIN rule.value : "ref" \in DOMAIN rule.value[m]
        BY <1>2, <2>3 DEF IsRule, IsItem, IsOperation
      <3>2. RuleRefs(rule) = {rule.value[m].ref : m \in DOMAIN rule.value}
        BY <1>2, <2>3 DEF RuleRefs
      <3>3. \A m \in DOMAIN rule.value : rule.value[m].ref.form \notin {"bare", "template"}
        BY <3>2 DEF Plain
      <3>4. \A m \in DOMAIN item : item[m].ref = rule.value[m].ref
        <4> HIDE DEF settle
        <4>1. \A m \in DOMAIN rule.value : item[m] = settle(rule.value[m]) OBVIOUS
        <4> QED BY <4>1, <3>1, <3>3, <2>2
      <3>5. DOMAIN item = DOMAIN rule.value OBVIOUS
      <3>6. new = [rule EXCEPT !.value = item] BY <1>2, <2>3 DEF ResolveRule
      <3> HIDE DEF new, item
      <3>7. new.value = item /\ new.op = rule.op /\ new.kind = rule.kind BY <3>6, <2>1
      <3>8. RuleRefs(new) = {new.value[m].ref : m \in DOMAIN new.value}
        BY <3>7, <1>2, <2>3 DEF RuleRefs
      <3>9. \A v \in RuleRefs(new) : v.form \notin {"bare", "template"}
        BY <3>3, <3>4, <3>5, <3>7, <3>8
      <3> QED BY <3>9 DEF Plain, new
    <2>4. CASE rule.kind # "path"
      <3>1. "ref" \in DOMAIN rule.value BY <1>2, <2>1, <2>4 DEF IsRule, IsOperation, IsEntry
      <3>2. RuleRefs(rule) = {rule.value.ref} BY <1>2, <2>4 DEF RuleRefs
      <3>3. rule.value.ref.form \notin {"bare", "template"} BY <3>2 DEF Plain
      <3>4. part.ref = rule.value.ref BY <3>1, <3>3, <2>2
      <3>5. new = [rule EXCEPT !.value = part] BY <1>2, <2>4 DEF ResolveRule
      <3> HIDE DEF new, part
      <3>6. new.value = part /\ new.op = rule.op /\ new.kind = rule.kind BY <3>5, <2>1
      <3>7. RuleRefs(new) = {new.value.ref} BY <3>6, <1>2, <2>4 DEF RuleRefs
      <3>8. \A v \in RuleRefs(new) : v.form \notin {"bare", "template"} BY <3>3, <3>4, <3>6, <3>7
      <3> QED BY <3>8 DEF Plain, new
    <2> QED BY <2>3, <2>4
  <1> QED BY <1>1, <1>2

-----------------------------------------------------------------------------
(* Targets that stay *)

(* The operation that a rule names.                                          *)
SpotPath(draft, rule) == IF rule.kind = "operation" THEN rule.path ELSE draft.ids[rule.id].path
SpotMethod(draft, rule) == IF rule.kind = "operation" THEN rule.method ELSE draft.ids[rule.id].method

OperationKinds == {"operation", "operationId"}

HasOperation(doc, path, method) == path \in DOMAIN doc.paths /\ method \in DOMAIN doc.paths[path]

HasComponent(doc, name) ==
  \E s \in Range(Sections) : s \in DOMAIN doc.components /\ name \in DOMAIN doc.components[s]

(* The target of the rule is in the draft; an operation is where it was in   *)
(* the original document.                                                    *)
Stands(original, draft, rule) ==
  /\ rule.kind = "info" => draft.doc.info # none
  /\ rule.kind = "path" => rule.path \in DOMAIN draft.doc.paths
  /\ rule.kind = "operationId" =>
       /\ rule.id \in DOMAIN original.ids /\ rule.id \in DOMAIN draft.ids
       /\ draft.ids[rule.id].path = original.ids[rule.id].path
       /\ draft.ids[rule.id].method = original.ids[rule.id].method
  /\ rule.kind \in OperationKinds =>
       /\ SpotPath(original, rule) \in DOMAIN original.doc.paths
       /\ HasOperation(draft.doc, SpotPath(draft, rule), SpotMethod(draft, rule))
  /\ rule.kind = "component" => HasComponent(draft.doc, rule.name)

LEMMA ComponentPlace ==
  ASSUME NEW draft, NEW rule, rule.kind = "component", HasComponent(draft.doc, rule.name)
  PROVE  \E s : ResolveTarget(draft, rule) = Place("component", s, rule.name)
  <1> DEFINE holds(s) == s \in DOMAIN draft.doc.components /\ rule.name \in DOMAIN draft.doc.components[s]
             first == SelectSeq(Sections, holds)[1]
  <1>1. ResolveTarget(draft, rule) = IF \E s \in Range(Sections) : holds(s)
                                     THEN Place("component", first, rule.name) ELSE NoPlace
    BY Zenon DEF ResolveTarget
  <1>2. \E s \in Range(Sections) : holds(s) BY DEF HasComponent
  <1> HIDE DEF first, holds
  <1> QED BY <1>1, <1>2

LEMMA PlaceOf ==
  ASSUME NEW draft, NEW rule
  PROVE  /\ rule.kind = "info" => ResolveTarget(draft, rule) = Place("info", none, none)
         /\ rule.kind = "path" => ResolveTarget(draft, rule) = Place("path", none, rule.path)
         /\ rule.kind = "operation" /\ rule.path \in DOMAIN draft.doc.paths =>
              ResolveTarget(draft, rule) = Place("operation", rule.path, rule.method)
         /\ rule.kind = "operationId" /\ rule.id \in DOMAIN draft.ids
              /\ draft.ids[rule.id].path \in DOMAIN draft.doc.paths =>
              ResolveTarget(draft, rule)
                = Place("operation", draft.ids[rule.id].path, draft.ids[rule.id].method)
  BY Zenon DEF ResolveTarget

LEMMA OperationPlace ==
  ASSUME NEW draft, NEW rule, rule.kind \in OperationKinds,
         rule.kind = "operationId" => rule.id \in DOMAIN draft.ids,
         SpotPath(draft, rule) \in DOMAIN draft.doc.paths
  PROVE  ResolveTarget(draft, rule) = Place("operation", SpotPath(draft, rule), SpotMethod(draft, rule))
  BY PlaceOf DEF SpotPath, SpotMethod, OperationKinds

(* What stands is present, and no rule adds it.                              *)
LEMMA StandsPresent ==
  ASSUME NEW original, NEW draft, NEW rule, NEW app, IsRule(rule), Stands(original, draft, rule)
  PROVE  /\ Present(draft.doc, ResolveTarget(draft, rule))
         /\ RuleCode(draft, rule, app) # "OVERRIDE_TARGET_MISSING"
         /\ RuleCode(draft, rule, app) = "none" => rule.op \in {"replace", "remove"}
  <1> DEFINE place == ResolveTarget(draft, rule)
             present == Present(draft.doc, place)
  <1>1. rule.kind \in {"info", "path", "operation", "operationId", "component"}
        /\ rule.op \in {"replace", "add", "remove"}
    BY DEF IsRule
  <1>2. present
    <2>1. CASE rule.kind = "info"
      <3>1. place = Place("info", none, none) BY <2>1, PlaceOf
      <3>2. draft.doc.info # none BY <2>1 DEF Stands
      <3> HIDE DEF place
      <3> QED BY <3>1, <3>2 DEF Present, Place
    <2>2. CASE rule.kind = "path"
      <3>1. place = Place("path", none, rule.path) BY <2>2, PlaceOf
      <3>2. rule.path \in DOMAIN draft.doc.paths BY <2>2 DEF Stands
      <3> HIDE DEF place
      <3> QED BY <3>1, <3>2 DEF Present, Place
    <2>3. CASE rule.kind \in OperationKinds
      <3>1. place = Place("operation", SpotPath(draft, rule), SpotMethod(draft, rule))
        BY <2>3, OperationPlace DEF Stands, HasOperation
      <3>2. HasOperation(draft.doc, SpotPath(draft, rule), SpotMethod(draft, rule))
        BY <2>3 DEF Stands
      <3> HIDE DEF place
      <3> QED BY <3>1, <3>2 DEF Present, Place, HasOperation
    <2>4. CASE rule.kind = "component"
      <3>1. \E s : place = Place("component", s, rule.name)
        BY <2>4, ComponentPlace DEF Stands
      <3> HIDE DEF place
      <3> QED BY <3>1 DEF Present, Place
    <2> QED BY <1>1, <2>1, <2>2, <2>3, <2>4 DEF OperationKinds
  <1>3. RuleCode(draft, rule, app) =
          IF app # none /\ OutOfScope(draft, rule, app) THEN "OVERRIDE_OUT_OF_SCOPE"
          ELSE IF rule.op \in {"replace", "remove"} /\ ~present
                 /\ ~(rule.kind = "info" /\ rule.op = "replace") THEN "OVERRIDE_TARGET_MISSING"
          ELSE IF rule.op = "add" /\ present THEN "OVERRIDE_TARGET_ALREADY_EXISTS"
          ELSE IF rule.op = "add" /\ place = NoPlace /\ rule.kind # "operation"
            THEN "OVERRIDE_TARGET_MISSING"
          ELSE "none"
    BY Zenon DEF RuleCode
  <1> HIDE DEF place, present
  <1>4. RuleCode(draft, rule, app) # "OVERRIDE_TARGET_MISSING"
        /\ (RuleCode(draft, rule, app) = "none" => rule.op # "add")
    BY <1>2, <1>3
  <1> QED BY <1>1, <1>2, <1>4 DEF present, place

(* What a rule leaves of the document that it changes.                       *)
Leaves(draft, rule, new) ==
  /\ \A p \in DOMAIN draft.doc.paths :
       ~(rule.kind = "path" /\ rule.op = "remove" /\ p = rule.path) => p \in DOMAIN new.paths
  /\ \A p, m :
       /\ HasOperation(draft.doc, p, m)
       /\ ~(rule.kind = "path" /\ p = rule.path)
       /\ ~(/\ rule.kind \in OperationKinds /\ rule.op = "remove"
            /\ p = SpotPath(draft, rule) /\ m = SpotMethod(draft, rule))
       => HasOperation(new, p, m)
  /\ \A n :
       HasComponent(draft.doc, n) /\ ~(rule.kind = "component" /\ rule.op = "remove" /\ n = rule.name)
         => HasComponent(new, n)
  /\ draft.doc.info # none /\ ~(rule.kind = "info" /\ rule.op = "remove") => new.info # none

(* What stays if only a part of the document changes.                        *)
LEMMA DocParts ==
  ASSUME NEW doc, IsDocument(doc)
  PROVE  /\ \A x : LET new == [doc EXCEPT !.info = x]
                   IN  new.info = x /\ new.paths = doc.paths /\ new.components = doc.components
         /\ \A x : LET new == [doc EXCEPT !.paths = x]
                   IN  new.info = doc.info /\ new.paths = x /\ new.components = doc.components
         /\ \A x : LET new == [doc EXCEPT !.components = x]
                   IN  new.info = doc.info /\ new.paths = doc.paths /\ new.components = x
  <1>1. DOMAIN doc = {"version", "info", "security", "paths", "components"} BY DEF IsDocument
  <1>2. ASSUME NEW x
        PROVE  LET new == [doc EXCEPT !.info = x]
               IN  new.info = x /\ new.paths = doc.paths /\ new.components = doc.components
    BY <1>1
  <1>3. ASSUME NEW x
        PROVE  LET new == [doc EXCEPT !.paths = x]
               IN  new.info = doc.info /\ new.paths = x /\ new.components = doc.components
    BY <1>1
  <1>4. ASSUME NEW x
        PROVE  LET new == [doc EXCEPT !.components = x]
               IN  new.info = doc.info /\ new.paths = doc.paths /\ new.components = x
    BY <1>1
  <1> QED BY <1>2, <1>3, <1>4

LEMMA InfoLeaves ==
  ASSUME NEW draft, NEW rule, IsDraft(draft), IsRule(rule), rule.kind = "info"
  PROVE  Leaves(draft, rule, RuleDoc(draft, rule))
  <1> DEFINE doc == draft.doc
             info == IF rule.op = "remove" THEN none ELSE rule.value
             new == RuleDoc(draft, rule)
  <1>1. ResolveTarget(draft, rule) = Place("info", none, none)
        /\ Place("info", none, none) # NoPlace
    BY DEF ResolveTarget, Place, NoPlace
  <1>2. new = [doc EXCEPT !.info = info] BY <1>1 DEF RuleDoc, Put, Delete, Place
  <1>3. new.info = info /\ new.paths = doc.paths /\ new.components = doc.components
    <2> HIDE DEF new, info
    <2> QED BY <1>2, DocParts DEF IsDraft
  <1>4. rule.op # "remove" => info # none BY DEF IsRule
  <1> HIDE DEF new, info
  <1>5. Leaves(draft, rule, new) BY <1>3, <1>4 DEF Leaves, HasOperation, HasComponent, OperationKinds
  <1> QED BY <1>5 DEF new

LEMMA PathLeaves ==
  ASSUME NEW draft, NEW rule, IsDraft(draft), rule.kind = "path"
  PROVE  Leaves(draft, rule, RuleDoc(draft, rule))
  <1> DEFINE doc == draft.doc
             with == With(doc.paths, rule.path, rule.value)
             without == Without(doc.paths, rule.path)
             paths == IF rule.op = "remove" THEN without ELSE with
             new == RuleDoc(draft, rule)
  <1>1. ResolveTarget(draft, rule) = Place("path", none, rule.path)
        /\ Place("path", none, rule.path) # NoPlace
    BY DEF ResolveTarget, Place, NoPlace
  <1>2. new = [doc EXCEPT !.paths = paths] BY <1>1 DEF RuleDoc, Put, Delete, Place
  <1>3. new.info = doc.info /\ new.paths = paths /\ new.components = doc.components
    <2> HIDE DEF new, paths
    <2> QED BY <1>2, DocParts DEF IsDraft
  <1>4. DOMAIN with = {rule.path} \cup DOMAIN doc.paths
        /\ \A x \in DOMAIN doc.paths : x # rule.path => with[x] = doc.paths[x]
    BY DEF With
  <1>5. DOMAIN without = DOMAIN doc.paths \ {rule.path}
        /\ \A x \in DOMAIN doc.paths : x # rule.path => without[x] = doc.paths[x]
    BY DEF Without
  <1> HIDE DEF with, without, new
  <1>6. /\ \A p \in DOMAIN doc.paths : p # rule.path => p \in DOMAIN paths /\ paths[p] = doc.paths[p]
        /\ rule.op # "remove" => rule.path \in DOMAIN paths
    BY <1>4, <1>5
  <1> HIDE DEF paths
  <1>7. Leaves(draft, rule, new) BY <1>3, <1>6 DEF Leaves, HasOperation, HasComponent, OperationKinds
  <1> QED BY <1>7 DEF new

LEMMA OperationLeaves ==
  ASSUME NEW original, NEW draft, NEW rule, IsDraft(draft), rule.kind \in OperationKinds,
         Stands(original, draft, rule)
  PROVE  /\ Leaves(draft, rule, RuleDoc(draft, rule))
         /\ rule.op # "remove" =>
              RuleDoc(draft, rule).paths[SpotPath(draft, rule)][SpotMethod(draft, rule)] = rule.value
  <1> DEFINE doc == draft.doc
             path == SpotPath(draft, rule)
             method == SpotMethod(draft, rule)
             with == With(doc.paths[path], method, rule.value)
             without == Without(doc.paths[path], method)
             item == IF rule.op = "remove" THEN without ELSE with
             paths == [doc.paths EXCEPT ![path] = item]
             place == Place("operation", path, method)
             new == RuleDoc(draft, rule)
  <1>1. HasOperation(doc, path, method) BY DEF Stands
  <1>2. ResolveTarget(draft, rule) = place /\ place # NoPlace
    <2>1. ResolveTarget(draft, rule) = place BY <1>1, OperationPlace DEF Stands, HasOperation
    <2> QED BY <2>1 DEF Place, NoPlace
  <1>3. place.at = "operation" /\ place.in = path /\ place.key = method BY DEF Place
  <1>4. new = IF rule.op = "remove" THEN Delete(doc, place) ELSE Put(doc, place, rule.value)
    BY <1>2 DEF RuleDoc
  <1> HIDE DEF place, path, method, new, doc
  <1>5. new = [doc EXCEPT !.paths = paths]
    <2>1. CASE rule.op = "remove"
      <3>1. new = [doc EXCEPT !.paths = [doc.paths EXCEPT ![path] = without]]
        BY <2>1, <1>3, <1>4 DEF Delete
      <3> QED BY <2>1, <3>1
    <2>2. CASE rule.op # "remove"
      <3>1. new = [doc EXCEPT !.paths = With(doc.paths, path, with)]
        BY <2>2, <1>1, <1>3, <1>4 DEF Put, HasOperation
      <3>2. With(doc.paths, path, with) = [doc.paths EXCEPT ![path] = with]
        BY <1>1 DEF With, HasOperation
      <3> QED BY <2>2, <3>1, <3>2
    <2> QED BY <2>1, <2>2
  <1>6. new.info = doc.info /\ new.paths = paths /\ new.components = doc.components
    <2> HIDE DEF paths
    <2> QED BY <1>5, DocParts DEF IsDraft, doc
  <1>7. DOMAIN with = {method} \cup DOMAIN doc.paths[path] /\ with[method] = rule.value BY DEF With
  <1>8. DOMAIN without = DOMAIN doc.paths[path] \ {method} BY DEF Without
  <1> HIDE DEF with, without
  <1>9. /\ \A m \in DOMAIN doc.paths[path] : m # method \/ rule.op # "remove" => m \in DOMAIN item
        /\ rule.op # "remove" => item[method] = rule.value
    BY <1>7, <1>8
  <1> HIDE DEF item
  <1>10. /\ DOMAIN paths = DOMAIN doc.paths /\ paths[path] = item
         /\ \A p \in DOMAIN doc.paths : p # path => paths[p] = doc.paths[p]
    BY <1>1 DEF HasOperation
  <1> HIDE DEF paths
  <1>11. \A p, m : HasOperation(doc, p, m) /\ ~(rule.op = "remove" /\ p = path /\ m = method)
                     => HasOperation(new, p, m)
    BY <1>6, <1>9, <1>10 DEF HasOperation
  <1>12. Leaves(draft, rule, new)
    BY <1>6, <1>10, <1>11 DEF Leaves, HasComponent, OperationKinds, path, method, doc
  <1>13. rule.op # "remove" => new.paths[path][method] = rule.value BY <1>6, <1>9, <1>10
  <1> QED BY <1>12, <1>13 DEF new, path, method

LEMMA ComponentLeaves ==
  ASSUME NEW draft, NEW rule, IsDraft(draft), rule.kind = "component",
         HasComponent(draft.doc, rule.name)
  PROVE  Leaves(draft, rule, RuleDoc(draft, rule))
  <1> DEFINE doc == draft.doc
             resolved == ResolveTarget(draft, rule)
             new == RuleDoc(draft, rule)
  <1>1. PICK s : resolved = Place("component", s, rule.name) BY ComponentPlace
  <1>2. resolved # NoPlace /\ resolved.at = "component" /\ resolved.in = s /\ resolved.key = rule.name
    BY <1>1 DEF Place, NoPlace
  <1>3. new = IF rule.op = "remove" THEN Delete(doc, resolved) ELSE Put(doc, resolved, rule.value)
    BY <1>2 DEF RuleDoc
  <1> DEFINE with == With(doc.components[s], rule.name, rule.value)
             without == Without(doc.components[s], rule.name)
             section == IF rule.op = "remove" THEN without ELSE with
             comps == [doc.components EXCEPT ![s] = section]
  <1> HIDE DEF resolved, new
  <1>4. new = [doc EXCEPT !.components = comps]
    <2>1. CASE rule.op = "remove"
      <3>1. new = [doc EXCEPT !.components[s] = without] BY <2>1, <1>2, <1>3 DEF Delete
      <3> QED BY <2>1, <3>1
    <2>2. CASE rule.op # "remove"
      <3>1. new = [doc EXCEPT !.components[s] = with] BY <2>2, <1>2, <1>3 DEF Put
      <3> QED BY <2>2, <3>1
    <2> QED BY <2>1, <2>2
  <1>5. new.info = doc.info /\ new.paths = doc.paths /\ new.components = comps
    <2> HIDE DEF comps
    <2> QED BY <1>4, DocParts DEF IsDraft
  <1>6. DOMAIN with = {rule.name} \cup DOMAIN doc.components[s] BY DEF With
  <1>7. DOMAIN without = DOMAIN doc.components[s] \ {rule.name} BY DEF Without
  <1> HIDE DEF with, without
  <1>8. \A n \in DOMAIN doc.components[s] : n # rule.name \/ rule.op # "remove" => n \in DOMAIN section
    BY <1>6, <1>7
  <1> HIDE DEF section
  <1>9. DOMAIN comps = DOMAIN doc.components
        /\ \A t \in DOMAIN doc.components : comps[t] = IF t = s THEN section ELSE doc.components[t]
    OBVIOUS
  <1> HIDE DEF comps
  <1>10. \A n : HasComponent(doc, n) /\ ~(rule.op = "remove" /\ n = rule.name) => HasComponent(new, n)
    BY <1>5, <1>8, <1>9 DEF HasComponent
  <1>11. Leaves(draft, rule, new) BY <1>5, <1>10 DEF Leaves, HasOperation, OperationKinds
  <1> QED BY <1>11 DEF new

(* What a rule that does not add leaves where it was, d being the draft with *)
(* the new document.                                                         *)
KeepsId(d, rule, id) ==
  /\ ~(rule.kind = "path" /\ rule.op = "remove" /\ d.ids[id].path = rule.path)
  /\ ~(/\ rule.kind \in OperationKinds /\ rule.op = "remove"
       /\ d.ids[id].path = SpotPath(d, rule) /\ d.ids[id].method = SpotMethod(d, rule))
  /\ rule.kind \in OperationKinds /\ rule.op # "remove" =>
       /\ rule.value.id = id =>
            d.ids[id].path = SpotPath(d, rule) /\ d.ids[id].method = SpotMethod(d, rule)
       /\ rule.kind = "operationId" /\ rule.id = id => rule.value.id \in {none, id}

LEMMA IdStays ==
  ASSUME NEW d, NEW rule, NEW app, DOMAIN d = {"doc", "owner", "ids"}, IsRule(rule),
         rule.op \in {"replace", "remove"},
         rule.kind = "operationId" => rule.id \in DOMAIN d.ids,
         rule.kind \in OperationKinds /\ rule.op # "remove" =>
           d.doc.paths[SpotPath(d, rule)][SpotMethod(d, rule)] = rule.value,
         NEW id \in DOMAIN d.ids, KeepsId(d, rule, id)
  PROVE  LET new == UpdateOwnership(d, rule, app)
         IN  /\ id \in DOMAIN new.ids
             /\ new.ids[id].path = d.ids[id].path /\ new.ids[id].method = d.ids[id].method
  <1> DEFINE new   == UpdateOwnership(d, rule, app)
             owner == IF app = none THEN "global" ELSE app
             known == rule.kind = "operationId" /\ rule.id \in DOMAIN d.ids
             at    == CASE rule.kind = "operation" -> [path |-> rule.path, method |-> rule.method]
                        [] known -> [path |-> d.ids[rule.id].path, method |-> d.ids[rule.id].method]
                        [] OTHER -> [path |-> none, method |-> none]
             newId == IF rule.op # "remove" /\ at.path \in DOMAIN d.doc.paths
                         /\ at.method \in DOMAIN d.doc.paths[at.path]
                      THEN d.doc.paths[at.path][at.method].id ELSE none
             place == [path |-> at.path, method |-> at.method, app |-> owner]
             assign(ids) == IF newId = none THEN ids ELSE With(ids, newId, place)
             forget == Forget(d.ids, rule.path, Methods)
             drop == Forget(d.ids, at.path, {at.method})
             assigned == assign(d.ids)
             lost == Without(d.ids, rule.id)
             moved == assign(lost)
             Same(ids) == /\ id \in DOMAIN ids
                          /\ ids[id].path = d.ids[id].path /\ ids[id].method = d.ids[id].method
  <1>1. new =
          IF rule.kind = "path" /\ rule.op = "add" THEN [d EXCEPT !.owner = With(@, rule.path, owner)]
          ELSE IF rule.kind = "path" /\ rule.op = "remove" THEN
            [d EXCEPT !.owner = Without(@, rule.path), !.ids = Forget(@, rule.path, Methods)]
          ELSE IF rule.kind = "operation" /\ rule.op = "remove" THEN
            [d EXCEPT !.ids = Forget(@, at.path, {at.method})]
          ELSE IF rule.kind = "operation" THEN
            [d EXCEPT !.owner = IF rule.op = "add" THEN With(@, rule.path, owner) ELSE @,
                      !.ids = assign(@)]
          ELSE IF known /\ rule.op = "remove" THEN [d EXCEPT !.ids = Without(@, rule.id)]
          ELSE IF known /\ newId \notin {none, rule.id} THEN
            [d EXCEPT !.ids = assign(Without(@, rule.id))]
          ELSE d
    BY Zenon DEF UpdateOwnership
  <1>2. rule.kind \in OperationKinds =>
          at.path = SpotPath(d, rule) /\ at.method = SpotMethod(d, rule)
    BY DEF OperationKinds, SpotPath, SpotMethod
  <1>3. rule.kind \in OperationKinds /\ newId # none => rule.op # "remove" /\ newId = rule.value.id
    <2>1. newId # none => rule.op # "remove" /\ newId = d.doc.paths[at.path][at.method].id OBVIOUS
    <2> HIDE DEF newId, at
    <2> QED BY <2>1, <1>2
  <1>4. place.path = at.path /\ place.method = at.method OBVIOUS
  <1> HIDE DEF at, newId, place, new
  <1>5. Same(d.ids) OBVIOUS
  <1>6. rule.kind = "path" /\ rule.op = "remove" => Same(forget) BY DEF Forget, KeepsId
  <1>7. rule.kind \in OperationKinds /\ rule.op = "remove" => Same(drop)
    BY <1>2 DEF Forget, KeepsId
  <1>8. rule.kind \in OperationKinds => Same(assigned)
    BY <1>2, <1>3, <1>4 DEF With, KeepsId
  <1>9. rule.kind = "operationId" /\ id # rule.id => Same(lost)
    BY DEF Without
  <1>10. rule.kind = "operationId" /\ id # rule.id => Same(moved)
    <2> SUFFICES ASSUME rule.kind = "operationId", id # rule.id PROVE Same(moved) OBVIOUS
    <2>1. Same(lost) BY <1>9
    <2> HIDE DEF lost
    <2>2. CASE newId = none BY <2>1, <2>2
    <2>3. CASE newId # none
      <3>1. moved = With(lost, newId, place) BY <2>3
      <3>2. newId = id => d.ids[id].path = at.path /\ d.ids[id].method = at.method
        BY <1>2, <1>3, <2>3 DEF KeepsId, OperationKinds
      <3> QED BY <2>1, <3>1, <3>2, <1>4 DEF With
    <2> QED BY <2>2, <2>3
  <1> HIDE DEF forget, drop, assigned, lost, moved, assign
  <1>11. CASE rule.kind \in {"info", "component"}
    <2>1. new = d BY <1>1, <1>11
    <2> QED BY <2>1, <1>5 DEF new
  <1>12. CASE rule.kind = "path"
    <2>1. CASE rule.op = "remove"
      <3>1. new.ids = forget BY <1>1, <1>12, <2>1 DEF forget
      <3> QED BY <3>1, <2>1, <1>6, <1>12 DEF new
    <2>2. CASE rule.op = "replace"
      <3>1. new = d BY <1>1, <1>12, <2>2
      <3> QED BY <3>1, <1>5 DEF new
    <2> QED BY <2>1, <2>2
  <1>13. CASE rule.kind = "operation"
    <2>1. CASE rule.op = "remove"
      <3>1. new = [d EXCEPT !.ids = drop] BY <1>1, <1>13, <2>1 DEF drop
      <3>2. new.ids = drop BY <3>1
      <3> QED BY <3>2, <2>1, <1>7, <1>13 DEF new, OperationKinds
    <2>2. CASE rule.op = "replace"
      <3>1. new = [d EXCEPT !.owner = d.owner, !.ids = assigned] BY <1>1, <1>13, <2>2 DEF assigned
      <3>2. new.ids = assigned BY <3>1
      <3> QED BY <3>2, <1>8, <1>13 DEF new, OperationKinds
    <2> QED BY <2>1, <2>2
  <1>14. CASE rule.kind = "operationId"
    <2>1. CASE rule.op = "remove"
      <3>1. new = [d EXCEPT !.ids = lost] BY <1>1, <1>14, <2>1 DEF lost
      <3>2. new.ids = lost BY <3>1
      <3>3. id # rule.id BY <2>1, <1>14 DEF KeepsId, OperationKinds, SpotPath, SpotMethod
      <3> QED BY <3>2, <3>3, <1>9, <1>14 DEF new
    <2>2. CASE rule.op = "replace" /\ newId \in {none, rule.id}
      <3>1. new = d BY <1>1, <1>14, <2>2
      <3> QED BY <3>1, <1>5 DEF new
    <2>3. CASE rule.op = "replace" /\ newId \notin {none, rule.id}
      <3>1. new = [d EXCEPT !.ids = moved] BY <1>1, <1>14, <2>3 DEF moved, lost
      <3>2. new.ids = moved BY <3>1
      <3>3. id # rule.id BY <2>3, <1>3, <1>14 DEF KeepsId, OperationKinds
      <3> QED BY <3>2, <3>3, <1>10, <1>14 DEF new
    <2> QED BY <2>1, <2>2, <2>3
  <1> QED BY <1>11, <1>12, <1>13, <1>14 DEF IsRule

(* Where ResolveTarget finds a component of that name.                       *)
ComponentAt(draft, name) ==
  LET holds(s) == s \in DOMAIN draft.doc.components /\ name \in DOMAIN draft.doc.components[s]
  IN  IF \E s \in Range(Sections) : holds(s)
      THEN Place("component", SelectSeq(Sections, holds)[1], name) ELSE NoPlace

LEMMA SameComponent ==
  ASSUME NEW draft, NEW e, NEW l, e.kind = "component", l.kind = "component", e.name = l.name
  PROVE  ResolveTarget(draft, e) = ResolveTarget(draft, l)
  <1>1. ResolveTarget(draft, e) = ComponentAt(draft, e.name)
    BY Zenon DEF ResolveTarget, ComponentAt
  <1>2. ResolveTarget(draft, l) = ComponentAt(draft, l.name)
    BY Zenon DEF ResolveTarget, ComponentAt
  <1>3. e.name = l.name OBVIOUS
  <1> QED BY <1>1, <1>2, <1>3, Zenon

(* A rule whose target is there leaves the target of another one where it    *)
(* is, unless it takes it away.                                              *)
LEMMA StandsOn ==
  ASSUME NEW original, NEW draft, NEW e, NEW l, NEW app, IsDraft(draft), IsRule(e), IsRule(l),
         RuleCode(draft, e, app) = "none", Stands(original, draft, e), Stands(original, draft, l),
         ~TakesAway(original, e, l)
  PROVE  Stands(original, ApplyRule(draft, e, app), l)
  <1> DEFINE doc == RuleDoc(draft, e)
             d == [draft EXCEPT !.doc = doc]
             new == UpdateOwnership(d, e, app)
             place(rule) == ResolveTarget(original, rule)
  <1>1. ApplyRule(draft, e, app) = new BY ApplyRuleIs
  <1>2. e.op \in {"replace", "remove"} BY StandsPresent
  <1>3. e.kind \in {"info", "path", "operation", "operationId", "component"}
        /\ l.kind \in {"info", "path", "operation", "operationId", "component"}
    BY DEF IsRule
  <1>4. Leaves(draft, e, doc)
        /\ (e.kind \in OperationKinds /\ e.op # "remove" =>
              doc.paths[SpotPath(draft, e)][SpotMethod(draft, e)] = e.value)
    BY <1>3, InfoLeaves, PathLeaves, OperationLeaves, ComponentLeaves DEF OperationKinds, Stands
  <1> HIDE DEF doc
  <1>5. DOMAIN d = {"doc", "owner", "ids"} /\ d.doc = doc /\ d.ids = draft.ids BY DEF IsDraft
  <1> HIDE DEF d
  <1>6. new.doc = doc BY <1>5, Ownership DEF Owned
  <1> HIDE DEF new
  <1>7. /\ e.kind \in OperationKinds =>
             /\ place(e) = Place("operation", SpotPath(draft, e), SpotMethod(draft, e))
             /\ SpotPath(d, e) = SpotPath(draft, e) /\ SpotMethod(d, e) = SpotMethod(draft, e)
        /\ l.kind \in OperationKinds =>
             place(l) = Place("operation", SpotPath(draft, l), SpotMethod(draft, l))
    <2>1. \A rule : Stands(original, draft, rule) /\ rule.kind \in OperationKinds =>
            place(rule) = Place("operation", SpotPath(original, rule), SpotMethod(original, rule))
      BY OperationPlace DEF Stands
    <2>2. \A rule : Stands(original, draft, rule) /\ rule.kind \in OperationKinds =>
            SpotPath(original, rule) = SpotPath(draft, rule)
            /\ SpotMethod(original, rule) = SpotMethod(draft, rule)
      BY DEF Stands, OperationKinds, SpotPath, SpotMethod
    <2>3. SpotPath(d, e) = SpotPath(draft, e) /\ SpotMethod(d, e) = SpotMethod(draft, e)
      BY <1>5 DEF SpotPath, SpotMethod
    <2> HIDE DEF place
    <2> QED BY <2>1, <2>2, <2>3
  <1>8. /\ e.op = "remove" => place(e) # place(l)
        /\ e.kind = "path" => ~(place(l).at = "operation" /\ place(l).in = e.path)
        /\ e.op # "remove" /\ e.kind \in OperationKinds /\ l.kind = "operationId" =>
             /\ e.value.id = l.id => place(e) = place(l)
             /\ e.kind = "operationId" /\ e.id = l.id => e.value.id \in {none, l.id}
    BY Zenon DEF TakesAway, OperationKinds
  <1>9. l.kind \in OperationKinds =>
          /\ e.kind = "path" => SpotPath(draft, l) # e.path
          /\ e.kind \in OperationKinds /\ e.op = "remove" =>
               ~(SpotPath(draft, l) = SpotPath(draft, e) /\ SpotMethod(draft, l) = SpotMethod(draft, e))
    BY <1>7, <1>8 DEF Place
  <1>10. CASE l.kind = "info"
    <2>1. e.kind = "info" => e.op # "remove" BY <1>8, <1>10, PlaceOf
    <2> QED BY <2>1, <1>1, <1>4, <1>6, <1>10 DEF Stands, Leaves, OperationKinds
  <1>11. CASE l.kind = "path"
    <2>1. ~(e.kind = "path" /\ e.op = "remove" /\ l.path = e.path) BY <1>8, <1>11, PlaceOf
    <2> QED BY <2>1, <1>1, <1>4, <1>6, <1>11 DEF Stands, Leaves, OperationKinds
  <1>12. CASE l.kind = "component"
    <2>1. ~(e.kind = "component" /\ e.op = "remove" /\ l.name = e.name)
      BY <1>8, <1>12, SameComponent
    <2> QED BY <2>1, <1>1, <1>4, <1>6, <1>12 DEF Stands, Leaves, OperationKinds
  <1>13. CASE l.kind \in OperationKinds
    <2>1. HasOperation(doc, SpotPath(draft, l), SpotMethod(draft, l))
      BY <1>4, <1>9, <1>13 DEF Leaves, Stands
    <2>2. CASE l.kind = "operation"
      BY <2>1, <2>2, <1>1, <1>6 DEF Stands, OperationKinds, SpotPath, SpotMethod
    <2>3. CASE l.kind = "operationId"
      <3>1. l.id \in DOMAIN draft.ids /\ SpotPath(draft, l) = draft.ids[l.id].path
            /\ SpotMethod(draft, l) = draft.ids[l.id].method
        BY <2>3 DEF Stands, SpotPath, SpotMethod
      <3>2. KeepsId(d, e, l.id)
        <4>1. e.kind \in OperationKinds /\ place(e) = place(l) =>
                SpotPath(draft, l) = SpotPath(draft, e) /\ SpotMethod(draft, l) = SpotMethod(draft, e)
          BY <1>7, <1>13 DEF Place
        <4> QED BY <4>1, <3>1, <2>3, <1>5, <1>7, <1>8, <1>9, <1>13 DEF KeepsId
      <3>3. e.kind = "operationId" => e.id \in DOMAIN d.ids BY <1>5 DEF Stands
      <3>4. e.kind \in OperationKinds /\ e.op # "remove" =>
              d.doc.paths[SpotPath(d, e)][SpotMethod(d, e)] = e.value
        BY <1>4, <1>5, <1>7
      <3>5. /\ l.id \in DOMAIN new.ids
            /\ new.ids[l.id].path = d.ids[l.id].path /\ new.ids[l.id].method = d.ids[l.id].method
        BY <3>1, <3>2, <3>3, <3>4, <1>2, <1>5, IdStays DEF new
      <3> QED BY <2>1, <2>3, <3>1, <3>5, <1>1, <1>5, <1>6 DEF Stands, OperationKinds, SpotPath, SpotMethod
    <2> QED BY <2>2, <2>3, <1>13 DEF OperationKinds
  <1> QED BY <1>3, <1>10, <1>11, <1>12, <1>13 DEF OperationKinds

(* The document of one app, merged: its info is what is given, and each      *)
(* operationId is where an operation is.                                     *)
LEMMA OneMerged ==
  ASSUME NEW app, NEW doc, NEW info
  PROVE  LET parts  == <<[app |-> app, doc |-> doc]>>
             merged == MergeDocuments(parts, info)
         IN  /\ merged.doc.info = info
             /\ \A x : LET other == MergeDocuments(parts, x)
                       IN  /\ other.doc.paths = merged.doc.paths
                           /\ other.doc.components = merged.doc.components
                           /\ other.ids = merged.ids
             /\ \A id \in DOMAIN merged.ids :
                  HasOperation(merged.doc, merged.ids[id].path, merged.ids[id].method)
  <1> DEFINE parts    == <<[app |-> app, doc |-> doc]>>
             paths    == PathsOf(parts)
             entries  == ComponentsOf(parts)
             ids      == IdsOf(parts)
             all(keys) == UNION {keys[i] : i \in DOMAIN parts}
             names(s) == {e[2] : e \in {c \in all(entries) : c[1] = s}}
             sections == UNION {DOMAIN parts[i].doc.components : i \in DOMAIN parts}
             home(p)  == From(parts, paths, p)
             entry(s, n) == From(parts, entries, <<s, n>>).doc.components[s][n]
             items    == [p \in all(paths) |-> home(p).doc.paths[p]]
             comps    == [s \in sections |-> [n \in names(s) |-> entry(s, n)]]
             version  == parts[1].doc.version
             owner    == [p \in all(paths) |-> home(p).app]
             places   == [id \in all(ids) |->
                            LET part == From(parts, ids, id) IN AssignApp(part.app, part.doc)[id]]
             merged(x) == MergeDocuments(parts, x)
  <1>1. \A x : merged(x) = [doc |-> [version |-> version, info |-> x, security |-> {},
                                     paths |-> items, components |-> comps],
                            owner |-> owner, ids |-> places]
    BY Zenon DEF MergeDocuments
  <1>2. DOMAIN parts = 1..1 /\ parts[1].app = app /\ parts[1].doc = doc /\ \A i \in 1..1 : i = 1
    OBVIOUS
  <1>3. /\ DOMAIN paths = DOMAIN parts /\ paths[1] = DOMAIN doc.paths
        /\ DOMAIN ids = DOMAIN parts /\ ids[1] = {o.id : o \in Operations(doc)}
    BY <1>2 DEF PathsOf, IdsOf
  <1> HIDE DEF paths, ids, parts
  <1>4. \A p \in DOMAIN doc.paths : p \in all(paths) /\ home(p) = parts[1] BY <1>2, <1>3, FromHas
  <1>5. \A id \in all(ids) : id \in ids[1] /\ From(parts, ids, id) = parts[1]
    BY <1>2, <1>3, FromHas
  <1>6. \A p \in DOMAIN doc.paths : p \in DOMAIN items /\ items[p] = doc.paths[p] BY <1>2, <1>4
  <1>7. DOMAIN places = all(ids) /\ \A id \in all(ids) : places[id] = AssignApp(app, doc)[id]
    BY <1>2, <1>5
  <1> HIDE DEF items, comps, owner, places, all, sections, names, entry, home, version
  <1>8. ASSUME NEW id \in DOMAIN places
        PROVE  /\ places[id].path \in DOMAIN items
               /\ places[id].method \in DOMAIN items[places[id].path]
    <2> DEFINE o == CHOOSE o \in Operations(doc) : o.id = id
    <2>1. id \in {x.id : x \in Operations(doc)} BY <1>3, <1>5, <1>7
    <2>2. o \in Operations(doc) BY <2>1
    <2>3. AssignApp(app, doc)[id] = [path |-> o.path, method |-> o.method, app |-> app]
      BY <2>1 DEF AssignApp
    <2>4. o.path \in DOMAIN doc.paths /\ o.method \in DOMAIN doc.paths[o.path]
      <3> HIDE DEF o
      <3>1. PICK p \in DOMAIN doc.paths :
              o \in {[id |-> doc.paths[p][m].id, path |-> p, method |-> m] :
                        m \in {n \in Methods \cap DOMAIN doc.paths[p] : doc.paths[p][n].id # none}}
        BY <2>2 DEF Operations
      <3>2. PICK m \in DOMAIN doc.paths[p] :
              o = [id |-> doc.paths[p][m].id, path |-> p, method |-> m]
        BY <3>1
      <3> QED BY <3>2
    <2> HIDE DEF o
    <2>5. places[id].path = o.path /\ places[id].method = o.method BY <1>7, <2>3
    <2> QED BY <2>4, <2>5, <1>6
  <1>9. \A x : /\ merged(x).doc.info = x /\ merged(x).doc.paths = items
               /\ merged(x).doc.components = comps /\ merged(x).ids = places
    BY <1>1
  <1> HIDE DEF merged
  <1>10. /\ merged(info).doc.info = info
         /\ \A x : /\ merged(x).doc.paths = merged(info).doc.paths
                   /\ merged(x).doc.components = merged(info).doc.components
                   /\ merged(x).ids = merged(info).ids
         /\ \A id \in DOMAIN merged(info).ids :
              HasOperation(merged(info).doc, merged(info).ids[id].path, merged(info).ids[id].method)
    BY <1>8, <1>9 DEF HasOperation
  <1> QED BY <1>10 DEF merged, parts

(* The authentication takes nothing away.                                    *)
LEMMA AuthLeaves ==
  ASSUME NEW draft, NEW auth, IsDraft(draft)
  PROVE  LET new == ApplyAuth(draft, auth)
         IN  /\ new.doc.info = draft.doc.info /\ new.doc.paths = draft.doc.paths
             /\ new.ids = draft.ids
             /\ \A n : HasComponent(draft.doc, n) => HasComponent(new.doc, n)
  <1> DEFINE emitted == {s.name : s \in {t \in Range(auth.schemes) : t.type # "none"}}
             old == IF "securitySchemes" \in DOMAIN draft.doc.components
                    THEN draft.doc.components["securitySchemes"] ELSE <<>>
             entries == [n \in emitted \cup DOMAIN old |->
                           IF n \in emitted THEN SchemeEntry(SchemeOf(auth, n)) ELSE old[n]]
             comps == With(draft.doc.components, "securitySchemes", entries)
             security == IF SchemeOf(auth, auth.default).type = "none" THEN draft.doc.security
                         ELSE {auth.default}
             new == ApplyAuth(draft, auth)
  <1>1. new = [draft EXCEPT !.doc.security = security, !.doc.components = comps]
    BY Zenon DEF ApplyAuth
  <1>2. "securitySchemes" \in DOMAIN draft.doc.components =>
          \A n \in DOMAIN draft.doc.components["securitySchemes"] : n \in DOMAIN entries
    OBVIOUS
  <1> HIDE DEF security, entries
  <1>3. DOMAIN comps = {"securitySchemes"} \cup DOMAIN draft.doc.components
        /\ comps["securitySchemes"] = entries
        /\ \A s \in DOMAIN draft.doc.components : s # "securitySchemes" =>
             comps[s] = draft.doc.components[s]
    BY DEF With
  <1> HIDE DEF comps, new
  <1>4. DOMAIN draft = {"doc", "owner", "ids"}
        /\ DOMAIN draft.doc = {"version", "info", "security", "paths", "components"}
    BY DEF IsDraft, IsDocument
  <1>5. new.ids = draft.ids /\ new.doc.components = comps /\ new.doc.info = draft.doc.info
        /\ new.doc.paths = draft.doc.paths
    BY <1>1, <1>4
  <1>6. \A n : HasComponent(draft.doc, n) => HasComponent(new.doc, n)
    BY <1>2, <1>3, <1>5 DEF HasComponent
  <1> QED BY <1>5, <1>6 DEF new

(* What `check` finds in the document stands before the first rule.          *)
LEMMA FoundStands ==
  ASSUME NEW original, NEW draft, NEW rule, IsRule(rule), Exists(original, rule),
         draft.doc.info # none, draft.doc.paths = original.doc.paths, draft.ids = original.ids,
         \A n : HasComponent(original.doc, n) => HasComponent(draft.doc, n),
         \A id \in DOMAIN original.ids :
           HasOperation(original.doc, original.ids[id].path, original.ids[id].method)
  PROVE  Stands(original, draft, rule)
  <1> DEFINE place == ResolveTarget(original, rule)
  <1>1. rule.kind \in {"info", "path", "operation", "operationId", "component"} BY DEF IsRule
  <1>2. rule.kind \notin {"info", "operationId"} => Present(original.doc, place)
    BY <1>1, Zenon DEF Exists
  <1>3. place = NoPlace => ~Present(original.doc, place) BY DEF Present, NoPlace
  <1> HIDE DEF place
  <1>4. CASE rule.kind = "info" BY <1>4 DEF Stands, OperationKinds
  <1>5. CASE rule.kind = "path"
    <2>1. place = Place("path", none, rule.path) BY <1>5, PlaceOf DEF place
    <2>2. rule.path \in DOMAIN original.doc.paths BY <2>1, <1>2, <1>5 DEF Present, Place
    <2> QED BY <2>2, <1>5 DEF Stands, OperationKinds
  <1>6. CASE rule.kind = "operation"
    <2>1. place = IF rule.path \in DOMAIN original.doc.paths
                  THEN Place("operation", rule.path, rule.method) ELSE NoPlace
      BY <1>6, Zenon DEF ResolveTarget, place
    <2>2. HasOperation(original.doc, rule.path, rule.method)
      BY <2>1, <1>2, <1>3, <1>6 DEF Present, Place, HasOperation
    <2> QED BY <2>2, <1>6 DEF Stands, OperationKinds, SpotPath, SpotMethod, HasOperation
  <1>7. CASE rule.kind = "operationId"
    <2>1. rule.id \in DOMAIN original.ids BY <1>7, Zenon DEF Exists
    <2>2. HasOperation(original.doc, original.ids[rule.id].path, original.ids[rule.id].method)
      BY <2>1
    <2> QED BY <2>1, <2>2, <1>7 DEF Stands, OperationKinds, SpotPath, SpotMethod, HasOperation
  <1>8. CASE rule.kind = "component"
    <2>1. place = ComponentAt(original, rule.name)
      BY <1>8, Zenon DEF ResolveTarget, ComponentAt, place
    <2>2. HasComponent(original.doc, rule.name)
      BY <2>1, <1>2, <1>3, <1>8, Zenon DEF ComponentAt, HasComponent
    <2> QED BY <2>2, <1>8 DEF Stands, OperationKinds
  <1> QED BY <1>1, <1>4, <1>5, <1>6, <1>7, <1>8

LEMMA TargetsStand ==
  ASSUME NEW p, NEW a, IsDocument(p.apps[a].doc), NEW info, info # none, NEW auth,
         NEW rule, IsRule(rule), Exists(Original(p, a), rule)
  PROVE  Stands(Original(p, a),
                ApplyAuth(MergeDocuments(<<[app |-> a, doc |-> p.apps[a].doc]>>, info), auth), rule)
  <1> DEFINE doc == p.apps[a].doc
             parts == <<[app |-> a, doc |-> doc]>>
             original == Original(p, a)
             merged == MergeDocuments(parts, info)
             draft == ApplyAuth(merged, auth)
  <1>1. original = MergeDocuments(parts, doc.info) BY DEF Original
  <1>2. IsDraft(merged)
    <2>1. \A i \in DOMAIN parts : IsDocument(parts[i].doc) OBVIOUS
    <2> HIDE DEF parts
    <2> QED BY <2>1, MergeIsDraft
  <1>3. merged.doc.info = info BY OneMerged
  <1>4. merged.doc.paths = original.doc.paths /\ merged.ids = original.ids
        /\ merged.doc.components = original.doc.components
        /\ \A id \in DOMAIN original.ids :
             HasOperation(original.doc, original.ids[id].path, original.ids[id].method)
    <2>1. LET o == MergeDocuments(parts, doc.info)
          IN  /\ \A x : LET other == MergeDocuments(parts, x)
                        IN  /\ other.doc.paths = o.doc.paths
                            /\ other.doc.components = o.doc.components /\ other.ids = o.ids
              /\ \A id \in DOMAIN o.ids : HasOperation(o.doc, o.ids[id].path, o.ids[id].method)
      BY OneMerged
    <2> HIDE DEF original, parts
    <2> QED BY <2>1, <1>1, Zenon
  <1> HIDE DEF merged, original
  <1>5. /\ draft.doc.info = merged.doc.info /\ draft.doc.paths = merged.doc.paths
        /\ draft.ids = merged.ids
        /\ \A n : HasComponent(merged.doc, n) => HasComponent(draft.doc, n)
    BY <1>2, AuthLeaves
  <1>6. \A n : HasComponent(original.doc, n) <=> HasComponent(merged.doc, n)
    BY <1>4 DEF HasComponent
  <1>7. Exists(original, rule) BY DEF original
  <1> HIDE DEF draft
  <1>8. Stands(original, draft, rule) BY <1>3, <1>4, <1>5, <1>6, <1>7, FoundStands
  <1> QED BY <1>8, Zenon DEF original, draft, merged, parts, doc

(* Two rules that name one target and leave the same there, but for a        *)
(* reference.                                                                *)
Alike(new, rule) ==
  /\ new.op = rule.op /\ new.kind = rule.kind /\ new.path = rule.path /\ new.method = rule.method
  /\ new.id = rule.id /\ new.name = rule.name
  /\ rule.kind \in OperationKinds /\ rule.op # "remove" => new.value.id = rule.value.id

LEMMA ResolvedAlike ==
  ASSUME NEW rule, NEW with, IsRule(rule)
  PROVE  Alike(ResolveRule(rule, with), rule)
  <1> DEFINE new == ResolveRule(rule, with)
             settle(bearer) == [bearer EXCEPT !.ref = ResolveScalar(@, with).value]
             item == [m \in DOMAIN rule.value |-> settle(rule.value[m])]
             part == settle(rule.value)
  <1>1. CASE rule.op = "remove" \/ rule.kind = "info" BY <1>1 DEF ResolveRule, Alike
  <1>2. CASE ~(rule.op = "remove" \/ rule.kind = "info")
    <2> DEFINE value == IF rule.kind = "path" THEN item ELSE part
    <2>1. new = [rule EXCEPT !.value = value]
      <3>1. new = IF rule.op = "remove" \/ rule.kind = "info" THEN rule
                  ELSE IF rule.kind = "path" THEN [rule EXCEPT !.value = item]
                  ELSE [rule EXCEPT !.value = part]
        BY Zenon DEF ResolveRule
      <3> HIDE DEF new, item, part
      <3> QED BY <3>1, <1>2
    <2>2. DOMAIN rule = {"op", "kind", "path", "method", "id", "name", "value"} BY DEF IsRule
    <2>3. rule.kind \in OperationKinds => value.id = rule.value.id
      <3> SUFFICES ASSUME rule.kind \in OperationKinds PROVE part.id = rule.value.id
        BY DEF OperationKinds
      <3>1. DOMAIN rule.value = {"id", "security", "domain", "ref", "text"}
        BY <1>2 DEF IsRule, IsOperation, OperationKinds
      <3> QED BY <3>1
    <2> HIDE DEF value, new
    <2>4. /\ new.value = value /\ new.op = rule.op /\ new.kind = rule.kind /\ new.path = rule.path
          /\ new.method = rule.method /\ new.id = rule.id /\ new.name = rule.name
      BY <2>1, <2>2
    <2>5. Alike(new, rule) BY <2>3, <2>4 DEF Alike
    <2> QED BY <2>5 DEF new
  <1> QED BY <1>1, <1>2

LEMMA AlikePlace ==
  ASSUME NEW draft, NEW new, NEW rule, Alike(new, rule), IsRule(rule)
  PROVE  ResolveTarget(draft, new) = ResolveTarget(draft, rule)
  <1> DEFINE item(path, method) == IF path \in DOMAIN draft.doc.paths
                                   THEN Place("operation", path, method) ELSE NoPlace
  <1>1. rule.kind \in {"info", "path", "operation", "operationId", "component"} BY DEF IsRule
  <1>2. /\ new.kind = rule.kind /\ new.path = rule.path /\ new.method = rule.method
        /\ new.id = rule.id /\ new.name = rule.name
    BY DEF Alike
  <1>3. CASE rule.kind \in {"info", "path"} BY <1>2, <1>3, PlaceOf
  <1>4. CASE rule.kind = "operation"
    <2>1. ResolveTarget(draft, new) = item(new.path, new.method) BY <1>2, <1>4, Zenon DEF ResolveTarget
    <2>2. ResolveTarget(draft, rule) = item(rule.path, rule.method) BY <1>4, Zenon DEF ResolveTarget
    <2> QED BY <2>1, <2>2, <1>2
  <1>5. CASE rule.kind = "operationId"
    <2>1. ResolveTarget(draft, new) =
            IF new.id \in DOMAIN draft.ids
            THEN item(draft.ids[new.id].path, draft.ids[new.id].method) ELSE NoPlace
      BY <1>2, <1>5, Zenon DEF ResolveTarget
    <2>2. ResolveTarget(draft, rule) =
            IF rule.id \in DOMAIN draft.ids
            THEN item(draft.ids[rule.id].path, draft.ids[rule.id].method) ELSE NoPlace
      BY <1>5, Zenon DEF ResolveTarget
    <2> QED BY <2>1, <2>2, <1>2
  <1>6. CASE rule.kind = "component" BY <1>2, <1>6, SameComponent
  <1> QED BY <1>1, <1>3, <1>4, <1>5, <1>6

(* Every rule that is left finds its target, and takes away none that a      *)
(* later one names.                                                          *)
RulesStand(original, draft, rules) ==
  /\ \A i \in DOMAIN rules : Stands(original, draft, rules[i].rule)
  /\ \A i, k \in DOMAIN rules : i < k => ~TakesAway(original, rules[i].rule, rules[k].rule)

LEMMA RulesStandResolved ==
  ASSUME NEW original, NEW draft, NEW rules, NEW with, RuleList(rules),
         RulesStand(original, draft, rules)
  PROVE  RulesStand(original, draft,
                    [i \in DOMAIN rules |-> [rules[i] EXCEPT !.rule = ResolveRule(@, with)]])
  <1> DEFINE resolve(r) == [r EXCEPT !.rule = ResolveRule(@, with)]
             list == [i \in DOMAIN rules |-> resolve(rules[i])]
  <1>1. \A i \in DOMAIN rules : DOMAIN rules[i] = {"rule", "app"} /\ IsRule(rules[i].rule)
    BY DEF RuleList
  <1>2. ASSUME NEW i \in DOMAIN rules PROVE Alike(list[i].rule, rules[i].rule)
    <2>1. resolve(rules[i]).rule = ResolveRule(rules[i].rule, with) BY <1>1
    <2>2. list[i] = resolve(rules[i]) OBVIOUS
    <2> HIDE DEF list, resolve
    <2> QED BY <2>1, <2>2, <1>1, ResolvedAlike
  <1>3. DOMAIN list = DOMAIN rules OBVIOUS
  <1> HIDE DEF list, resolve
  <1>4. ASSUME NEW i \in DOMAIN rules PROVE Stands(original, draft, list[i].rule)
    <2>1. Stands(original, draft, rules[i].rule) BY DEF RulesStand
    <2> QED BY <2>1, <1>2 DEF Stands, Alike, OperationKinds, SpotPath, SpotMethod
  <1>5. ASSUME NEW i \in DOMAIN rules, NEW k \in DOMAIN rules, i < k
        PROVE  ~TakesAway(original, list[i].rule, list[k].rule)
    <2> DEFINE place(rule) == ResolveTarget(original, rule)
    <2>1. ~TakesAway(original, rules[i].rule, rules[k].rule) BY <1>5 DEF RulesStand
    <2>2. place(list[i].rule) = place(rules[i].rule) /\ place(list[k].rule) = place(rules[k].rule)
      BY <1>1, <1>2, AlikePlace
    <2>3. Alike(list[i].rule, rules[i].rule) /\ Alike(list[k].rule, rules[k].rule) BY <1>2
    <2>4. \A e, l : TakesAway(original, e, l) <=>
            \/ e.op = "remove" /\ place(e) = place(l)
            \/ e.kind = "path" /\ place(l).at = "operation" /\ place(l).in = e.path
            \/ /\ e.op # "remove" /\ e.kind \in OperationKinds /\ l.kind = "operationId"
               /\ \/ e.value.id = l.id /\ place(e) # place(l)
                  \/ e.kind = "operationId" /\ e.id = l.id /\ e.value.id \notin {none, l.id}
      BY Zenon DEF TakesAway, OperationKinds
    <2> HIDE DEF place
    <2> QED BY <2>1, <2>2, <2>3, <2>4 DEF Alike
  <1>6. RulesStand(original, draft, list) BY <1>3, <1>4, <1>5 DEF RulesStand
  <1> QED BY <1>6 DEF list, resolve

LEMMA RulesStandOn ==
  ASSUME NEW original, NEW draft, NEW rules, NEW app, RuleList(rules), rules # <<>>,
         IsDraft(draft), RulesStand(original, draft, rules)
  PROVE  /\ Stands(original, draft, Head(rules).rule)
         /\ RuleCode(draft, Head(rules).rule, app) = "none" =>
              RulesStand(original, ApplyRule(draft, Head(rules).rule, app), Tail(rules))
  <1>1. PICK S : rules \in Seq(S) BY DEF RuleList
  <1> DEFINE tail == Tail(rules)
             head == Head(rules)
             new == ApplyRule(draft, head.rule, app)
  <1>2. head = rules[1] /\ 1 \in DOMAIN rules BY <1>1
  <1>3. \A i \in DOMAIN tail : i \in Nat /\ i + 1 \in DOMAIN rules /\ 1 < i + 1 /\ tail[i] = rules[i + 1]
    BY <1>1
  <1>4. \A i \in DOMAIN rules : IsRule(rules[i].rule) BY DEF RuleList
  <1> HIDE DEF tail, head, new
  <1>5. Stands(original, draft, head.rule) BY <1>2 DEF RulesStand
  <1>6. ASSUME RuleCode(draft, head.rule, app) = "none" PROVE RulesStand(original, new, tail)
    <2>1. ASSUME NEW i \in DOMAIN tail PROVE Stands(original, new, tail[i].rule)
      <3> DEFINE later == rules[i + 1].rule
      <3>1. i + 1 \in DOMAIN rules /\ 1 < i + 1 /\ tail[i].rule = later BY <1>3
      <3>2. Stands(original, draft, later) /\ ~TakesAway(original, head.rule, later)
            /\ IsRule(head.rule) /\ IsRule(later)
        BY <3>1, <1>2, <1>4 DEF RulesStand
      <3> HIDE DEF later
      <3>3. Stands(original, ApplyRule(draft, head.rule, app), later)
        BY <3>2, <1>5, <1>6, StandsOn
      <3> QED BY <3>1, <3>3 DEF new
    <2>2. ASSUME NEW i \in DOMAIN tail, NEW k \in DOMAIN tail, i < k
          PROVE  ~TakesAway(original, tail[i].rule, tail[k].rule)
      <3>1. i + 1 < k + 1 BY <1>3, <2>2
      <3> QED BY <3>1, <1>3 DEF RulesStand
    <2> QED BY <2>1, <2>2 DEF RulesStand
  <1> QED BY <1>5, <1>6 DEF head, tail, new

-----------------------------------------------------------------------------
(* What a call keeps while it runs *)

(* The document that a compilation takes.                                    *)
Taken(p, c) == IF c.mode = "env-only" THEN Placeholder(c.app) ELSE p.apps[c.app].doc

IndexKnown(p, c) == c.index = Index(p) /\ c.mode = ModeOf(p, c.req.envOnly)

(* What is promised of the targets: each rule finds its own, if none takes   *)
(* away what a later one names.                                              *)
Staying(p, a, envOnly) ==
  Promised(p, a, envOnly) /\ ModeOf(p, envOnly) # "env-only" /\ TargetsStay(p, a)

TargetsKept(p, c) ==
  Staying(p, c.app, c.req.envOnly) =>
    /\ c.pc = "overrides" => RulesStand(Original(p, c.app), c.draft, RulesFor(p, c.app))
    /\ c.pc = "rules" => RulesStand(Original(p, c.app), c.draft, c.rules)

(* A compilation that has failed with a complaint of `check` was not         *)
(* promised to pass; one that runs has nothing but what `check` has seen.    *)
CompileKept(p, c) ==
  /\ c.code \in CheckedCodes(p, c.app, ModeOf(p, c.req.envOnly)) => ~Promised(p, c.app, c.req.envOnly)
  /\ c.pc \notin {"idle", "index", "done"} => IndexKnown(p, c)
  /\ c.pc \in {"index", "source"} => c.parts = <<>>
  /\ c.pc \in {"auth", "merge"} => c.parts = <<[app |-> c.app, doc |-> Taken(p, c)]>>
  /\ Promised(p, c.app, c.req.envOnly) =>
       /\ c.pc \in {"overrides", "rules", "resolve"} =>
            \A b \in BearerFields(c.draft.doc) : Sound(b[3], Index(p))
       /\ c.pc = "rules" => PlainRules(c.rules)
  /\ TargetsKept(p, c)

(* The categories that `check` is through with at a stage.                   *)
Behind == [sources |-> {}, auth |-> {"sources"}, conflicts |-> {"sources", "auth"},
           refs |-> {"sources", "auth", "conflicts"},
           targets |-> {"sources", "auth", "conflicts", "refs"}, done |-> Categories]

(* What a `check` that is through with the index knows.                      *)
Looked(p, c) ==
  /\ IndexCode(p) = "none" /\ IndexKnown(p, c)
  /\ c.exit = 0 => c.failed = {}
  /\ \A s \in Behind[c.pc] : s \in c.failed \/ Fact(p, c.app, c.mode, s)

CheckKept(p, c) ==
  /\ Underway(c) => c.code = "none"
  /\ c.code # "none" => c.exit # 0
  /\ c.pc = "index" => c.failed = {} /\ c.exit = 0
  /\ c.pc # "idle" /\ c.code = "none" => c.app \in DOMAIN p.apps
  /\ c.pc \notin {"idle", "index"} /\ c.code = "none" => Looked(p, c)

(* A compilation runs a program of its app.                                  *)
ProgramKept(c, ch) ==
  ch.state # "off" =>
    c.mode # "env-only" /\ ch.program \in Programs /\ (ch.state = "exited" => ch.program # "hangs")

(* `check` runs the program of an app whose artifact it can read, or that    *)
(* has none.                                                                 *)
ArtifactKept(p, c, ch) == ch.state # "off" => p.apps[c.app].artifact # "broken"

Consistent(p, c, ch) ==
  /\ c.pc # "idle" => c.req \in p.calls
  /\ c.req.kind = "compile" => CompileKept(p, c) /\ ProgramKept(c, ch)
  /\ c.req.kind = "check" => CheckKept(p, c) /\ ArtifactKept(p, c, ch)

AllConsistent == \A j \in Jobs : Consistent(project, job[j], child[j])

(* What a complete `check` has established.                                  *)
LEMMA CheckedPromise ==
  ASSUME NEW p, NEW c, CheckKept(p, c), c.pc = "done", c.exit = 0,
         p.apps[c.app].config = "empty",
         \A v \in FieldRefs(p.apps[c.app].doc) : v.form # "bare",
         \A r \in Range(p.global.rules \o p.apps[c.app].overrides.rules) : Plain(r)
  PROVE  Promised(p, c.app, c.req.envOnly) /\ c.mode = ModeOf(p, c.req.envOnly)
  <1>1. c.code = "none" BY DEF CheckKept
  <1>2. Looked(p, c) BY <1>1 DEF CheckKept
  <1>3. c.failed = {} /\ IndexCode(p) = "none" /\ c.mode = ModeOf(p, c.req.envOnly)
    BY <1>2 DEF Looked, IndexKnown
  <1>4. Behind[c.pc] = Categories BY DEF Behind
  <1>5. \A s \in Categories : Fact(p, c.app, ModeOf(p, c.req.envOnly), s)
    BY <1>2, <1>3, <1>4 DEF Looked
  <1> QED BY <1>3, <1>5 DEF Promised

(* The assumptions of the project, for the files that are there.             *)
LEMMA CallFiles ==
  ASSUME \E n \in DOMAIN Projects : project = Projects[n]
  PROVE  /\ \A a \in DOMAIN project.apps :
              /\ project.apps[a].auth.schemes \in Seq(Range(project.apps[a].auth.schemes))
              /\ project.apps[a].artifact \in FileForms
              /\ project.apps[a].program \in Programs
         /\ \A r \in project.calls :
              /\ r.kind # "compose" => r.apps = <<>>
              /\ r.kind \in {"compile", "check"} => r.entry = "none" /\ r.identities = <<>>
  BY ProjectsAssumption

LEMMA CompileStages ==
  /\ StageAfter("compile", "index") = "source" /\ StageAfter("compile", "source") = "auth"
  /\ StageAfter("compile", "auth") = "merge" /\ StageAfter("compile", "merge") = "overrides"
  /\ StageAfter("compile", "overrides") = "rules" /\ StageAfter("compile", "rules") = "resolve"
  /\ StageAfter("compile", "resolve") = "done"
  <1> DEFINE s == Stages["compile"]
             at(stage) == CHOOSE i \in DOMAIN s : s[i] = stage
  <1>1. s = <<"index", "source", "auth", "merge", "overrides", "rules", "resolve">> BY DEF Stages
  <1>2. DOMAIN s = 1..7 /\ Len(s) = 7 BY <1>1
  <1>3. \A stage : StageAfter("compile", stage) =
          IF at(stage) = Len(s) THEN "done" ELSE s[at(stage) + 1]
    BY Zenon DEF StageAfter
  <1>4. /\ s[1] = "index" /\ s[2] = "source" /\ s[3] = "auth" /\ s[4] = "merge"
        /\ s[5] = "overrides" /\ s[6] = "rules" /\ s[7] = "resolve"
    BY <1>1
  <1> HIDE DEF s
  <1>5. at("index") = 1 /\ at("source") = 2 /\ at("auth") = 3 /\ at("merge") = 4
        /\ at("overrides") = 5 /\ at("rules") = 6 /\ at("resolve") = 7
    BY <1>2, <1>4
  <1> HIDE DEF at
  <1> QED BY <1>2, <1>3, <1>4, <1>5

LEMMA CheckStages ==
  /\ StageAfter("check", "index") = "sources" /\ StageAfter("check", "sources") = "auth"
  /\ StageAfter("check", "auth") = "conflicts" /\ StageAfter("check", "conflicts") = "refs"
  /\ StageAfter("check", "refs") = "targets" /\ StageAfter("check", "targets") = "done"
  <1> DEFINE s == Stages["check"]
             at(stage) == CHOOSE i \in DOMAIN s : s[i] = stage
  <1>1. s = <<"index", "sources", "auth", "conflicts", "refs", "targets">> BY DEF Stages
  <1>2. DOMAIN s = 1..6 /\ Len(s) = 6 BY <1>1
  <1>3. \A stage : StageAfter("check", stage) =
          IF at(stage) = Len(s) THEN "done" ELSE s[at(stage) + 1]
    BY Zenon DEF StageAfter
  <1>4. /\ s[1] = "index" /\ s[2] = "sources" /\ s[3] = "auth" /\ s[4] = "conflicts"
        /\ s[5] = "refs" /\ s[6] = "targets"
    BY <1>1
  <1> HIDE DEF s
  <1>5. at("index") = 1 /\ at("sources") = 2 /\ at("auth") = 3 /\ at("conflicts") = 4
        /\ at("refs") = 5 /\ at("targets") = 6
    BY <1>2, <1>4
  <1> HIDE DEF at
  <1> QED BY <1>2, <1>3, <1>4, <1>5

LEMMA EndedFields ==
  ASSUME NEW c, NEW code, DOMAIN c = DOMAIN Idle
  PROVE  LET new == Ended(c, code)
         IN  /\ new.pc = "done" /\ new.code = code /\ new.req = c.req /\ new.app = c.app
             /\ new.exit # 0
  <1> DEFINE exit == ExitCode(c.req.kind, c.pc, code)
             new == Ended(c, code)
  <1>1. exit \in {1, 2, 3} BY DEF ExitCode
  <1>2. new = [c EXCEPT !.code = code, !.exit = exit, !.pc = "done"] BY Zenon DEF Ended
  <1> HIDE DEF new, exit
  <1>3. /\ new.pc = "done" /\ new.code = code /\ new.req = c.req /\ new.app = c.app
        /\ new.exit = exit
    BY <1>2, IdleIs
  <1>4. new.exit # 0 BY <1>1, <1>3
  <1> QED BY <1>3, <1>4 DEF new

(* A call that ends with a code that its kind may end with.                  *)
LEMMA EndedKept ==
  ASSUME NEW p, NEW c, NEW ch, NEW after, NEW code, DOMAIN c = DOMAIN Idle, Consistent(p, c, ch),
         c.pc # "idle", code # "none",
         c.req.kind = "compile" /\ code \in CheckedCodes(p, c.app, ModeOf(p, c.req.envOnly)) =>
           ~Promised(p, c.app, c.req.envOnly),
         after.state = "off"
  PROVE  Consistent(p, Ended(c, code), after)
  <1> DEFINE new == Ended(c, code)
  <1>1. new.pc = "done" /\ new.code = code /\ new.req = c.req /\ new.app = c.app /\ new.exit # 0
    BY EndedFields
  <1> HIDE DEF new
  <1>2. c.req.kind = "compile" => CompileKept(p, new) /\ ProgramKept(new, after)
    BY <1>1 DEF CompileKept, ProgramKept, TargetsKept
  <1>3. c.req.kind = "check" => CheckKept(p, new) /\ ArtifactKept(p, new, after)
    BY <1>1 DEF CheckKept, Underway, ArtifactKept
  <1>4. Consistent(p, new, after) BY <1>1, <1>2, <1>3 DEF Consistent
  <1> QED BY <1>4 DEF new

(* A category of `check`, and the next.                                      *)
Onto(c, next) == [c EXCEPT !.pc = next]

Countable(p, c, bad, next) ==
  /\ DOMAIN c = DOMAIN Idle /\ CheckKept(p, c) /\ c.pc \in Categories /\ next \in DOMAIN Behind
  /\ ~bad => Fact(p, c.app, c.mode, c.pc)
  /\ \A s \in Behind[next] : s \in Behind[c.pc] \/ s = c.pc \/ Fact(p, c.app, c.mode, s)

LEMMA Counted ==
  ASSUME NEW p, NEW c, NEW bad, NEW next, Countable(p, c, bad, next)
  PROVE  CheckKept(p, Onto(Count(c, bad), next)) /\ Onto(Count(c, bad), next).req = c.req
  <1> DEFINE failed == IF bad THEN c.failed \cup {c.pc} ELSE c.failed
             exit == IF "sources" \in failed THEN 2 ELSE IF failed # {} THEN 1 ELSE 0
             mid == Count(c, bad)
             new == [mid EXCEPT !.pc = next]
  <1> USE DEF Countable
  <1>1. mid = [c EXCEPT !.failed = failed, !.exit = exit] BY Zenon DEF Count
  <1>2. exit = 0 => failed = {} OBVIOUS
  <1>3. \A s : s \in c.failed => s \in failed OBVIOUS
  <1>4. bad => c.pc \in failed OBVIOUS
  <1>5. new = [mid EXCEPT !.pc = next] OBVIOUS
  <1> HIDE DEF mid, failed, exit, new
  <1>6. DOMAIN mid = DOMAIN Idle /\ mid.failed = failed /\ mid.exit = exit /\ mid.req = c.req
        /\ mid.app = c.app /\ mid.mode = c.mode /\ mid.index = c.index /\ mid.code = c.code
    BY <1>1, IdleIs
  <1>7. new.pc = next /\ new.failed = failed /\ new.exit = exit /\ new.req = c.req
        /\ new.app = c.app /\ new.mode = c.mode /\ new.index = c.index /\ new.code = c.code
    BY <1>6, <1>5, IdleIs
  <1>8. Underway(c) /\ c.code = "none" /\ c.pc \notin {"idle", "index"}
    BY DEF Categories, Underway, CheckKept
  <1>9. c.app \in DOMAIN p.apps /\ Looked(p, c) BY <1>8, Zenon DEF CheckKept
  <1>10. ASSUME NEW s \in Behind[next] PROVE s \in failed \/ Fact(p, c.app, c.mode, s)
    <2>1. s \in Behind[c.pc] => s \in c.failed \/ Fact(p, c.app, c.mode, s) BY <1>9 DEF Looked
    <2> QED BY <2>1, <1>3, <1>4
  <1>11. Looked(p, new) BY <1>2, <1>7, <1>9, <1>10 DEF Looked, IndexKnown
  <1>12. next \notin {"idle", "index"} BY DEF Behind
  <1>13. CheckKept(p, new) BY <1>7, <1>8, <1>9, <1>11, <1>12 DEF CheckKept, Underway
  <1> QED BY <1>7, <1>13 DEF new, mid, Onto

-----------------------------------------------------------------------------
(* What a step leaves alone *)

LEMMA StageSets ==
  /\ StagesOf("compile") = {"index", "source", "auth", "merge", "overrides", "rules", "resolve"}
  /\ StagesOf("check") = {"index"} \cup Categories
  <1>1. DOMAIN Stages["compile"] = 1..7 /\ DOMAIN Stages["check"] = 1..6 BY DEF Stages
  <1>2. Stages["compile"] = <<"index", "source", "auth", "merge", "overrides", "rules", "resolve">>
        /\ Stages["check"] = <<"index", "sources", "auth", "conflicts", "refs", "targets">>
    BY DEF Stages
  <1>3. \A i \in 1..7 : i \in {1, 2, 3, 4, 5, 6, 7} OBVIOUS
  <1>4. \A i \in 1..6 : i \in {1, 2, 3, 4, 5, 6} OBVIOUS
  <1>5. StagesOf("compile") = {"index", "source", "auth", "merge", "overrides", "rules", "resolve"}
    BY <1>1, <1>2, <1>3 DEF StagesOf
  <1>6. StagesOf("check") = {"index"} \cup Categories
    BY <1>1, <1>2, <1>4 DEF StagesOf, Categories
  <1> QED BY <1>5, <1>6

LEMMA OtherChildren ==
  ASSUME IInv, NEW j \in Jobs, NEW k \in Jobs, k # j,
         \/ StartJob(j) \/ Step(j) \/ SpawnFails(j) \/ ChildExits(j) \/ ChildCloses(j) \/ Timeout(j)
  PROVE  child'[k] = child[k]
  <1> DEFINE Kept == child'[k] = child[k]
  <1>1. ASSUME NEW ch, child' = [child EXCEPT ![j] = ch] PROVE Kept
    BY <1>1 DEF IInv, ChildrenAwaited
  <1>2. ASSUME UNCHANGED child PROVE Kept BY <1>2
  <1> HIDE DEF Kept
  <1>3. ASSUME NEW stage, At(j, stage) PROVE Kept BY <1>2, <1>3 DEF At
  <1>4. ASSUME StartJob(j) PROVE Kept BY <1>2, <1>4, Zenon DEF StartJob
  <1>5. ASSUME Step(j) PROVE Kept
    <2>1. ASSUME Obtain(j) PROVE Kept BY <1>1, <1>2, <2>1, Zenon DEF Obtain
    <2>2. ASSUME \/ ReadIndex(j) \/ FindSources(j) \/ CheckAuth(j) \/ Merge(j) \/ LoadOverrides(j)
                 \/ ApplyNextRule(j) \/ RulesApplied(j) \/ NeedInfo(j) \/ Resolve(j)
          PROVE  \E stage : At(j, stage)
      BY <2>2, Zenon DEF ReadIndex, FindSources, CheckAuth, Merge, LoadOverrides, ApplyNextRule,
                         RulesApplied, NeedInfo, Resolve
    <2> QED BY <1>3, <1>5, <2>1, <2>2, Zenon DEF Step
  <1>6. ASSUME SpawnFails(j) PROVE Kept BY <1>1, <1>6 DEF SpawnFails
  <1>7. ASSUME ChildExits(j) PROVE Kept
    <2> DEFINE ch == [child[j] EXCEPT !.state = "exited"]
    <2>1. child' = [child EXCEPT ![j] = ch] BY <1>7 DEF ChildExits
    <2> HIDE DEF ch
    <2> QED BY <1>1, <2>1
  <1>8. ASSUME ChildCloses(j) PROVE Kept BY <1>1, <1>8, Zenon DEF ChildCloses
  <1>9. ASSUME Timeout(j) PROVE Kept BY <1>1, <1>9 DEF Timeout
  <1>10. Kept BY <1>4, <1>5, <1>6, <1>7, <1>8, <1>9
  <1> QED BY <1>10 DEF Kept

LEMMA ContinueFields ==
  ASSUME IInv, NEW j \in Jobs, NEW c, DOMAIN c = DOMAIN Idle, Continue(j, c)
  PROVE  LET new == job'[j]
         IN  /\ new = [c EXCEPT !.pc = StageAfter(c.req.kind, c.pc)]
             /\ new.pc = StageAfter(c.req.kind, c.pc)
             /\ new.req = c.req /\ new.app = c.app /\ new.index = c.index /\ new.mode = c.mode
             /\ new.parts = c.parts /\ new.draft = c.draft /\ new.rules = c.rules
             /\ new.failed = c.failed /\ new.code = c.code /\ new.exit = c.exit
  <1> DEFINE next == StageAfter(c.req.kind, c.pc)
             new == job'[j]
  <1>1. job' = [job EXCEPT ![j] = [c EXCEPT !.pc = next]] BY DEF Continue
  <1>2. new = [c EXCEPT !.pc = next] BY <1>1 DEF IInv, CallsProper
  <1> HIDE DEF new, next
  <1>3. /\ new.pc = next
        /\ new.req = c.req /\ new.app = c.app /\ new.index = c.index /\ new.mode = c.mode
        /\ new.parts = c.parts /\ new.draft = c.draft /\ new.rules = c.rules
        /\ new.failed = c.failed /\ new.code = c.code /\ new.exit = c.exit
    BY <1>2, IdleIs
  <1> QED BY <1>2, <1>3 DEF new, next

LEMMA RejectKept ==
  ASSUME IInv, NEW j \in Jobs, NEW code, Reject(j, job[j], code), code # "none",
         Consistent(project, job[j], child[j]), job[j].pc # "idle", child'[j].state = "off",
         job[j].req.kind = "compile"
           /\ code \in CheckedCodes(project, job[j].app, ModeOf(project, job[j].req.envOnly)) =>
              ~Promised(project, job[j].app, job[j].req.envOnly)
  PROVE  Consistent(project, job'[j], child'[j])
  <1>1. job'[j] = Ended(job[j], code) BY DEF Reject, IInv, CallsProper
  <1>2. DOMAIN job[j] = DOMAIN Idle BY CallIs
  <1> QED BY <1>1, <1>2, EndedKept

(* No step of a call that has begun changes what was asked.                  *)
LEMMA RequestKept ==
  ASSUME IInv, NEW j \in Jobs,
         Step(j) \/ SpawnFails(j) \/ ChildExits(j) \/ ChildCloses(j) \/ Timeout(j)
  PROVE  job'[j].req = job[j].req
  <1> DEFINE Kept == job'[j].req = job[j].req
             c == job[j]
  <1>1. DOMAIN c = DOMAIN Idle /\ DOMAIN job = Jobs BY CallIs DEF IInv, CallsProper
  <1>2. ASSUME NEW d, DOMAIN d = DOMAIN Idle, d.req = c.req, Continue(j, d) PROVE Kept
    BY <1>2, ContinueFields
  <1>3. ASSUME NEW code, Reject(j, c, code) PROVE Kept
    <2>1. job'[j] = Ended(c, code) BY <1>1, <1>3 DEF Reject
    <2> QED BY <2>1, <1>1, EndedFields
  <1>4. ASSUME NEW bad
        PROVE  /\ DOMAIN Count(c, bad) = DOMAIN Idle /\ Count(c, bad).req = c.req
               /\ \A stage : LET d == [Count(c, bad) EXCEPT !.pc = stage]
                             IN  DOMAIN d = DOMAIN Idle /\ d.req = c.req
    <2> DEFINE all == Count(c, bad)
    <2>1. DOMAIN all = DOMAIN Idle /\ all.req = c.req BY <1>1, CountIs
    <2> HIDE DEF all, c
    <2>2. \A stage : LET d == [all EXCEPT !.pc = stage] IN DOMAIN d = DOMAIN Idle /\ d.req = c.req
      BY <2>1, IdleIs
    <2> QED BY <2>1, <2>2 DEF all
  <1>5. ASSUME NEW got, Take(j, got) PROVE Kept
    <2>1. ASSUME NEW parts, job' = [job EXCEPT ![j].parts = parts] PROVE Kept
      BY <2>1, <1>1, IdleIs
    <2>2. ASSUME NEW parts, Continue(j, [c EXCEPT !.parts = parts]) PROVE Kept
      <3> DEFINE d == [c EXCEPT !.parts = parts]
      <3>1. DOMAIN d = DOMAIN Idle /\ d.req = c.req BY <1>1, IdleIs
      <3>2. Continue(j, d) BY <2>2
      <3> HIDE DEF d
      <3> QED BY <3>1, <3>2, <1>2
    <2> HIDE DEF Kept
    <2> QED BY <1>2, <1>3, <1>4, <1>5, <2>1, <2>2, Zenon DEF Take
  <1>6. ASSUME ApplyNextRule(j) PROVE Kept
    <2>1. ASSUME NEW rules, NEW draft, job' = [job EXCEPT ![j].rules = rules, ![j].draft = draft]
          PROVE  Kept
      BY <2>1, <1>1, IdleIs
    <2> HIDE DEF Kept
    <2> QED BY <1>3, <1>6, <2>1, Zenon DEF ApplyNextRule
  <1>7. ASSUME ReadIndex(j) PROVE Kept
    <2>1. ASSUME NEW index, NEW mode, NEW variable,
                 Continue(j, [c EXCEPT !.index = index, !.mode = mode, !.variable = variable])
          PROVE  Kept
      <3> DEFINE d == [c EXCEPT !.index = index, !.mode = mode, !.variable = variable]
      <3>1. DOMAIN d = DOMAIN Idle /\ d.req = c.req BY <1>1, IdleIs
      <3>2. Continue(j, d) BY <2>1
      <3> HIDE DEF d
      <3> QED BY <3>1, <3>2, <1>2
    <2> HIDE DEF Kept
    <2> QED BY <1>3, <1>7, <2>1, Zenon DEF ReadIndex
  <1>8. ASSUME Merge(j) \/ LoadOverrides(j) PROVE Kept
    <2>1. ASSUME NEW draft, Continue(j, [c EXCEPT !.draft = draft]) PROVE Kept
      <3> DEFINE d == [c EXCEPT !.draft = draft]
      <3>1. DOMAIN d = DOMAIN Idle /\ d.req = c.req BY <1>1, IdleIs
      <3>2. Continue(j, d) BY <2>1
      <3> HIDE DEF d
      <3> QED BY <3>1, <3>2, <1>2
    <2>2. ASSUME NEW rules, Continue(j, [c EXCEPT !.rules = rules]) PROVE Kept
      <3> DEFINE d == [c EXCEPT !.rules = rules]
      <3>1. DOMAIN d = DOMAIN Idle /\ d.req = c.req BY <1>1, IdleIs
      <3>2. Continue(j, d) BY <2>2
      <3> HIDE DEF d
      <3> QED BY <3>1, <3>2, <1>2
    <2> HIDE DEF Kept
    <2>3. ASSUME Merge(j) PROVE Kept BY <1>3, <2>1, <2>3, Zenon DEF Merge
    <2>4. ASSUME LoadOverrides(j) PROVE Kept BY <1>3, <2>2, <2>4, Zenon DEF LoadOverrides
    <2> QED BY <1>8, <2>3, <2>4
  <1>9. ASSUME Resolve(j) PROVE Kept
    <2>1. ASSUME NEW variable, NEW doc, NEW refs, NEW e,
                 e = [c EXCEPT !.variable = variable] \/ e = c,
                 Continue(j, [e EXCEPT !.draft.doc = doc, !.refs = refs])
          PROVE  Kept
      <3> DEFINE d == [e EXCEPT !.draft.doc = doc, !.refs = refs]
      <3>1. DOMAIN e = DOMAIN Idle /\ e.req = c.req BY <1>1, <2>1, IdleIs
      <3>2. DOMAIN d = DOMAIN Idle /\ d.req = c.req BY <3>1, IdleIs
      <3>3. Continue(j, d) BY <2>1
      <3> HIDE DEF d
      <3> QED BY <3>2, <3>3, <1>2
    <2> DEFINE env == ParseEnvMapping(project.env, c.index)
               e == IF c.req.kind = "compose" THEN [c EXCEPT !.variable = env.variable] ELSE c
               code == IF c.req.kind = "compose" /\ env.code # "none" THEN env.code
                       ELSE ResolveCode({b[3] : b \in BearerFields(c.draft.doc)}, Resolution(e))
               doc == ResolveReferences(c.draft.doc, Resolution(e))
               refs == IF c.req.kind = "build" THEN CollectResourceReferences(doc) ELSE {}
    <2>2. IF code # "none" THEN Reject(j, c, code)
          ELSE Continue(j, [e EXCEPT !.draft.doc = doc, !.refs = refs])
      BY <1>9, Zenon DEF Resolve
    <2>3. e = [c EXCEPT !.variable = env.variable] \/ e = c OBVIOUS
    <2> HIDE DEF Kept, e, code, doc, refs, c, env
    <2> QED BY <1>3, <2>1, <2>2, <2>3
  <1> HIDE DEF Kept
  <1>10. ASSUME Obtain(j) PROVE Kept
    <2>1. (\E got : Take(j, got)) \/ job' = job BY <1>10, Zenon DEF Obtain
    <2> QED BY <1>5, <2>1 DEF Kept
  <1>11. ASSUME FindSources(j) PROVE Kept
    <2>1. PICK bad : Continue(j, Count(c, bad)) BY <1>11, Zenon DEF FindSources
    <2> QED BY <1>2, <1>4, <2>1
  <1>12. ASSUME CheckAuth(j) PROVE Kept
    <2> DEFINE code == AuthCode(c)
               bad == code # "none"
               all == Count(c, bad)
    <2>1. \/ Reject(j, c, code) \/ Continue(j, [all EXCEPT !.pc = "targets"])
          \/ Continue(j, all) \/ Continue(j, c)
      BY <1>12, Zenon DEF CheckAuth
    <2> HIDE DEF code, bad, c
    <2> QED BY <1>1, <1>2, <1>3, <1>4, <2>1
  <1>13. ASSUME RulesApplied(j) PROVE Kept BY <1>1, <1>2, <1>13 DEF RulesApplied
  <1>14. ASSUME NeedInfo(j) PROVE Kept BY <1>1, <1>2, <1>3, <1>14, Zenon DEF NeedInfo
  <1>15. ASSUME Step(j) PROVE Kept
    BY <1>6, <1>7, <1>8, <1>9, <1>10, <1>11, <1>12, <1>13, <1>14, <1>15 DEF Step
  <1>16. ASSUME SpawnFails(j) \/ ChildExits(j) \/ ChildCloses(j) \/ Timeout(j) PROVE Kept
    <2>1. ASSUME SpawnFails(j) PROVE Kept BY <1>5, <2>1 DEF SpawnFails
    <2>2. ASSUME ChildExits(j) PROVE Kept BY <2>2 DEF ChildExits, Kept
    <2>3. ASSUME ChildCloses(j) PROVE Kept BY <1>5, <2>3, Zenon DEF ChildCloses
    <2>4. ASSUME Timeout(j) PROVE Kept BY <1>5, <2>4 DEF Timeout
    <2> QED BY <1>16, <2>1, <2>2, <2>3, <2>4
  <1>17. Kept BY <1>15, <1>16
  <1> QED BY <1>17 DEF Kept

-----------------------------------------------------------------------------
(* The stages of `check` and of a compilation, one by one *)

LEMMA AtChildless ==
  ASSUME IInv, NEW j \in Jobs, NEW stage, stage \notin Extracting, At(j, stage)
  PROVE  child'[j] = child[j] /\ child[j].state = "off" /\ job[j].pc = stage
  BY DEF At, IInv, ChildrenAwaited

(* The next stage of `check` after a category that is counted.               *)
LEMMA NextCategory ==
  ASSUME NEW p, NEW c, c.req.kind = "check", c.pc \in Categories
  PROVE  LET next == StageAfter("check", c.pc)
         IN  next \in DOMAIN Behind /\ \A s \in Behind[next] : s \in Behind[c.pc] \/ s = c.pc
  <1>1. DOMAIN Behind = {"sources", "auth", "conflicts", "refs", "targets", "done"} BY DEF Behind
  <1>2. CASE c.pc = "sources" BY <1>1, <1>2, CheckStages DEF Behind
  <1>3. CASE c.pc = "auth" BY <1>1, <1>3, CheckStages DEF Behind
  <1>4. CASE c.pc = "conflicts" BY <1>1, <1>4, CheckStages DEF Behind
  <1>5. CASE c.pc = "refs" BY <1>1, <1>5, CheckStages DEF Behind
  <1>6. CASE c.pc = "targets" BY <1>1, <1>6, CheckStages DEF Behind, Categories
  <1> QED BY <1>2, <1>3, <1>4, <1>5, <1>6 DEF Categories

LEMMA CountedOn ==
  ASSUME IInv, NEW j \in Jobs, NEW bad, Continue(j, Count(job[j], bad)),
         Consistent(project, job[j], child[j]), job[j].req.kind = "check",
         job[j].pc \in Categories, child'[j].state = "off",
         ~bad => Fact(project, job[j].app, job[j].mode, job[j].pc)
  PROVE  Consistent(project, job'[j], child'[j])
  <1> DEFINE c == job[j]
             next == StageAfter("check", c.pc)
             mid == Count(c, bad)
  <1>1. DOMAIN c = DOMAIN Idle BY CallIs
  <1>2. DOMAIN mid = DOMAIN Idle /\ mid.pc = c.pc /\ mid.req = c.req BY <1>1, CountIs
  <1>3. job'[j] = [mid EXCEPT !.pc = next]
    <2>1. Continue(j, mid) OBVIOUS
    <2> HIDE DEF mid
    <2> QED BY <2>1, <1>2, ContinueFields
  <1>4. next \in DOMAIN Behind /\ \A s \in Behind[next] : s \in Behind[c.pc] \/ s = c.pc
    BY NextCategory
  <1>5. CheckKept(project, c) BY DEF Consistent
  <1>6. CheckKept(project, job'[j]) /\ job'[j].req = c.req
    <2>1. job'[j] = [Count(c, bad) EXCEPT !.pc = next] BY <1>3
    <2>2. ~bad => Fact(project, c.app, c.mode, c.pc) OBVIOUS
    <2>3. c.pc \in Categories OBVIOUS
    <2>4. \A s \in Behind[next] : s \in Behind[c.pc] \/ s = c.pc \/ Fact(project, c.app, c.mode, s)
      BY <1>4
    <2> HIDE DEF next, c
    <2>5. Countable(project, c, bad, next) BY <1>1, <1>4, <1>5, <2>2, <2>3, <2>4 DEF Countable
    <2>6. CheckKept(project, Onto(Count(c, bad), next)) /\ Onto(Count(c, bad), next).req = c.req
      BY <2>5, Counted
    <2>7. job'[j] = Onto(Count(c, bad), next) BY <2>1, Zenon DEF Onto
    <2> QED BY <2>6, <2>7
  <1>7. c.pc # "idle" BY DEF Categories
  <1> QED BY <1>6, <1>7 DEF Consistent, ArtifactKept

LEMMA ReadIndexConsistent ==
  ASSUME IInv, NEW j \in Jobs, ReadIndex(j), Consistent(project, job[j], child[j]),
         job[j].req.kind \in {"compile", "check"}
  PROVE  Consistent(project, job'[j], child'[j])
  <1> DEFINE c == job[j]
             read == ParseResourceIndex(project.resources)
             env == ParseEnvMapping(project.env, read.index)
             merged == MergeResourceIndex(read.index, c.req.identities)
             code == IF c.req.kind = "compose" THEN read.code
                     ELSE FirstCode(<<read.code, env.code, merged.code>>)
             index == IF c.req.kind = "compose" THEN read.index ELSE merged.index
             mode == IF c.req.envOnly THEN "env-only"
                     ELSE IF c.req.kind = "compose" THEN "compose" ELSE env.mode
             variable == IF c.req.kind = "compose" THEN <<>> ELSE env.variable
             new == [c EXCEPT !.index = index, !.mode = mode, !.variable = variable]
  <1>1. At(j, "index") /\ IF code # "none" THEN Reject(j, c, code) ELSE Continue(j, new)
    BY Zenon DEF ReadIndex
  <1>2. child'[j] = child[j] /\ child[j].state = "off" /\ c.pc = "index"
    BY <1>1, AtChildless DEF Extracting
  <1>3. DOMAIN c = DOMAIN Idle BY CallIs
  <1>4. c.req \in project.calls BY <1>2 DEF Consistent
  <1>5. c.req.identities = <<>> BY <1>4, CallFiles DEF IInv
  <1>6. code = IndexCode(project) /\ index = Index(project)
        /\ mode = ModeOf(project, c.req.envOnly)
    BY <1>5 DEF IndexCode, Index, ModeOf, Read, Env
  <1> HIDE DEF code, index, mode, variable
  <1>7. DOMAIN new = DOMAIN Idle /\ new.pc = "index" /\ new.req = c.req /\ new.app = c.app
        /\ new.parts = c.parts /\ new.draft = c.draft /\ new.rules = c.rules
        /\ new.failed = c.failed /\ new.code = c.code /\ new.exit = c.exit
        /\ new.index = index /\ new.mode = mode
    BY <1>2, <1>3, IdleIs
  <1> HIDE DEF new
  <1>8. CASE code # "none"
    <2>1. Reject(j, c, code) BY <1>1, <1>8
    <2>2. ~Promised(project, c.app, c.req.envOnly) BY <1>6, <1>8 DEF Promised
    <2> QED BY <2>1, <2>2, <1>2, <1>8, RejectKept
  <1>9. CASE code = "none" /\ c.req.kind = "compile"
    <2>1. Continue(j, new) BY <1>1, <1>9
    <2> DEFINE d == job'[j]
    <2>2. /\ d.pc = "source" /\ d.req = c.req /\ d.app = c.app /\ d.index = index /\ d.mode = mode
          /\ d.parts = c.parts /\ d.code = c.code
      <3>1. /\ d.pc = StageAfter(new.req.kind, new.pc) /\ d.req = new.req /\ d.app = new.app
            /\ d.index = new.index /\ d.mode = new.mode /\ d.parts = new.parts /\ d.code = new.code
        BY <2>1, <1>7, ContinueFields
      <3> HIDE DEF d
      <3> QED BY <3>1, <1>7, <1>9, CompileStages
    <2> HIDE DEF d
    <2>3. CompileKept(project, c) BY <1>9 DEF Consistent
    <2>4. CompileKept(project, d)
      BY <2>2, <2>3, <1>2, <1>6 DEF CompileKept, IndexKnown, TargetsKept
    <2>5. ProgramKept(d, child'[j]) BY <1>2 DEF ProgramKept
    <2>6. Consistent(project, d, child'[j]) BY <2>2, <2>4, <2>5, <1>4, <1>9 DEF Consistent
    <2> QED BY <2>6 DEF d
  <1>10. CASE code = "none" /\ c.req.kind = "check"
    <2>1. Continue(j, new) BY <1>1, <1>10
    <2> DEFINE d == job'[j]
    <2>2. /\ d.pc = "sources" /\ d.req = c.req /\ d.app = c.app /\ d.index = index
          /\ d.mode = mode /\ d.failed = c.failed /\ d.code = c.code /\ d.exit = c.exit
      <3>1. /\ d.pc = StageAfter(new.req.kind, new.pc) /\ d.req = new.req /\ d.app = new.app
            /\ d.index = new.index /\ d.mode = new.mode /\ d.failed = new.failed
            /\ d.code = new.code /\ d.exit = new.exit
        BY <2>1, <1>7, ContinueFields
      <3> HIDE DEF d
      <3> QED BY <3>1, <1>7, <1>10, CheckStages
    <2> HIDE DEF d
    <2>3. CheckKept(project, c) BY <1>10 DEF Consistent
    <2>4. c.code = "none" /\ c.failed = {} /\ c.app \in DOMAIN project.apps
      BY <2>3, <1>2 DEF CheckKept, Underway
    <2>5. Behind[d.pc] = {} BY <2>2 DEF Behind
    <2>6. Looked(project, d) BY <2>2, <2>4, <2>5, <1>6, <1>10 DEF Looked, IndexKnown
    <2>7. CheckKept(project, d) BY <2>2, <2>4, <2>6 DEF CheckKept
    <2>8. ArtifactKept(project, d, child'[j]) BY <1>2 DEF ArtifactKept
    <2>9. Consistent(project, d, child'[j]) BY <2>2, <2>7, <2>8, <1>4, <1>10 DEF Consistent
    <2> QED BY <2>9 DEF d
  <1> QED BY <1>8, <1>9, <1>10

LEMMA FindSourcesConsistent ==
  ASSUME IInv, NEW j \in Jobs, FindSources(j), Consistent(project, job[j], child[j]),
         job[j].req.kind = "check"
  PROVE  Consistent(project, job'[j], child'[j])
  <1> DEFINE c == job[j]
             present(app) ==
               IF ConfigCode(app.config) # "none" THEN FALSE
               ELSE IF app.config = "file" THEN app.artifact # "absent"
               ELSE IF app.config = "module" THEN app.program # "absent"
               ELSE app.artifact # "absent" \/ app.program # "absent"
             bad == c.mode # "env-only" /\ \E a \in DOMAIN project.apps : ~present(project.apps[a])
  <1>1. At(j, "sources") /\ Continue(j, Count(c, bad)) BY Zenon DEF FindSources
  <1>2. child'[j].state = "off" /\ c.pc = "sources" BY <1>1, AtChildless DEF Extracting
  <1>3. CheckKept(project, c) BY DEF Consistent
  <1>4. c.app \in DOMAIN project.apps BY <1>2, <1>3 DEF CheckKept, Underway
  <1>5. ~bad => Fact(project, c.app, c.mode, "sources")
    <2>1. \A app : present(app) /\ app.config = "empty" =>
            app.artifact # "absent" \/ app.program # "absent"
      OBVIOUS
    <2> HIDE DEF present
    <2> QED BY <2>1, <1>4 DEF Fact, SourceFound
  <1> HIDE DEF bad
  <1> QED BY <1>1, <1>2, <1>5, CountedOn DEF Categories

(* The code of auth.yaml in a compilation that `check` has let pass.         *)
LEMMA CompileAuthCode ==
  ASSUME NEW c, c.req.kind = "compile", c.index = Index(project), DOMAIN c.parts = 1..1,
         AuthValid(project, c.app)
  PROVE  AuthCode(c) \in {"none", "AUTH_SECURITY_UNDECLARED", "AUTH_SECURITY_PUBLIC_VIOLATION"}
  <1> DEFINE auth == project.apps[c.app].auth
             functions == Names(c.index, "functions")
             first == ValidateAuthConfig(auth, c.parts[1].doc, functions)
             each == [i \in DOMAIN c.parts |-> ValidateSecurityReferences(c.parts[i].doc, auth)]
  <1>1. AuthCode(c) = IF first # "none" THEN first ELSE FirstCode(each)
    <2>1. AuthOf(c) = auth BY DEF AuthOf
    <2> HIDE DEF auth
    <2> QED BY <2>1 DEF AuthCode
  <1>2. ParseAuthYaml(auth) = "none" /\ ValidateFunctionReferences(auth, functions) = "none"
    BY DEF AuthValid, ValidateAuthConfig
  <1>3. first = ValidateSecurityReferences(c.parts[1].doc, auth) BY <1>2 DEF ValidateAuthConfig
  <1>4. FirstCode(each) = "none" \/ \E i \in DOMAIN c.parts : FirstCode(each) = each[i]
    <2>1. DOMAIN each \in SUBSET Nat OBVIOUS
    <2>2. DOMAIN each = DOMAIN c.parts OBVIOUS
    <2> HIDE DEF each
    <2> QED BY <2>1, <2>2, FirstCodeIs
  <1>5. \A i \in DOMAIN c.parts :
          each[i] \in {"none", "AUTH_SECURITY_UNDECLARED", "AUTH_SECURITY_PUBLIC_VIOLATION"}
    BY SecurityCodes
  <1> HIDE DEF each, first
  <1> QED BY <1>1, <1>3, <1>4, <1>5, SecurityCodes

(* A compilation goes on as it is.                                           *)
LEMMA CompileOn ==
  ASSUME IInv, NEW j \in Jobs, Continue(j, job[j]), job[j].req.kind = "compile"
  PROVE  LET c == job[j]
             d == job'[j]
         IN  /\ d.pc = StageAfter("compile", c.pc)
             /\ d.req = c.req /\ d.app = c.app /\ d.index = c.index /\ d.mode = c.mode
             /\ d.parts = c.parts /\ d.draft = c.draft /\ d.rules = c.rules /\ d.code = c.code
  <1> DEFINE c == job[j]
  <1>1. DOMAIN c = DOMAIN Idle BY CallIs
  <1>2. Continue(j, c) OBVIOUS
  <1>3. c.req.kind = "compile" OBVIOUS
  <1> HIDE DEF c
  <1>4. /\ job'[j].pc = StageAfter(c.req.kind, c.pc)
        /\ job'[j].req = c.req /\ job'[j].app = c.app /\ job'[j].index = c.index
        /\ job'[j].mode = c.mode /\ job'[j].parts = c.parts /\ job'[j].draft = c.draft
        /\ job'[j].rules = c.rules /\ job'[j].code = c.code
    BY <1>1, <1>2, ContinueFields
  <1> QED BY <1>3, <1>4 DEF c

LEMMA CheckAuthConsistent ==
  ASSUME IInv, NEW j \in Jobs, CheckAuth(j), Consistent(project, job[j], child[j]),
         job[j].req.kind \in {"compile", "check"}
  PROVE  Consistent(project, job'[j], child'[j])
  <1> DEFINE c == job[j]
             code == AuthCode(c)
             bad == code # "none"
             all == Count(c, bad)
  <1>1. /\ At(j, "auth")
        /\ CASE c.req.kind # "check" /\ code # "none" -> Reject(j, c, code)
             [] c.req.kind = "check" /\ c.mode = "env-only" -> Continue(j, [all EXCEPT !.pc = "targets"])
             [] c.req.kind = "check" /\ c.mode # "env-only" -> Continue(j, all)
             [] OTHER -> Continue(j, c)
    BY Zenon DEF CheckAuth
  <1>2. child'[j] = child[j] /\ child[j].state = "off" /\ c.pc = "auth"
    BY <1>1, AtChildless DEF Extracting
  <1>3. DOMAIN c = DOMAIN Idle BY CallIs
  <1>4. CASE c.req.kind = "compile"
    <2>1. CompileKept(project, c) BY <1>4 DEF Consistent
    <2>2. IndexKnown(project, c) /\ c.parts = <<[app |-> c.app, doc |-> Taken(project, c)]>>
      BY <2>1, <1>2 DEF CompileKept
    <2>3. CASE code # "none"
      <3>1. Reject(j, c, code) BY <1>1, <1>4, <2>3
      <3>2. ASSUME Promised(project, c.app, c.req.envOnly)
            PROVE  code \notin CheckedCodes(project, c.app, ModeOf(project, c.req.envOnly))
        <4>1. AuthValid(project, c.app) BY <3>2, Facts
        <4>2. code \in {"none", "AUTH_SECURITY_UNDECLARED", "AUTH_SECURITY_PUBLIC_VIOLATION"}
          BY <4>1, <1>4, <2>2, CompileAuthCode DEF IndexKnown
        <4> QED BY <4>2, OtherCodes
      <3> HIDE DEF code
      <3> QED BY <3>1, <3>2, <1>2, <2>3, RejectKept
    <2>4. CASE code = "none"
      <3>1. Continue(j, c) BY <1>1, <1>4, <2>4
      <3> DEFINE d == job'[j]
      <3>2. /\ d.pc = "merge" /\ d.req = c.req /\ d.app = c.app /\ d.index = c.index
            /\ d.mode = c.mode /\ d.parts = c.parts /\ d.code = c.code
        BY <3>1, <1>2, <1>4, CompileOn, CompileStages
      <3> HIDE DEF d, c
      <3>3. CompileKept(project, d)
        BY <3>2, <2>1, <2>2 DEF CompileKept, IndexKnown, Taken, TargetsKept
      <3>4. ProgramKept(d, child'[j]) BY <1>2 DEF ProgramKept
      <3>5. c.req \in project.calls BY <1>2 DEF Consistent, c
      <3>6. Consistent(project, d, child'[j]) BY <3>2, <3>3, <3>4, <3>5, <1>4 DEF Consistent
      <3> QED BY <3>6 DEF d
    <2> QED BY <2>3, <2>4
  <1>5. CASE c.req.kind = "check"
    <2>1. CheckKept(project, c) BY <1>5 DEF Consistent
    <2>2. c.code = "none" /\ Looked(project, c) BY <2>1, <1>2 DEF CheckKept, Underway
    <2>3. ~bad => Fact(project, c.app, c.mode, "auth")
      <3>1. code = ValidateAuthConfig(project.apps[c.app].auth, EmptyDoc,
                                      Names(Index(project), "functions"))
        BY <2>2, <1>5 DEF AuthCode, AuthOf, Looked, IndexKnown
      <3> HIDE DEF code
      <3> QED BY <3>1 DEF Fact, AuthValid
    <2> HIDE DEF bad
    <2>4. CASE c.mode # "env-only"
      <3>1. Continue(j, Count(c, bad)) BY <1>1, <1>5, <2>4
      <3> QED BY <3>1, <2>3, <1>2, <1>5, CountedOn DEF Categories
    <2>5. CASE c.mode = "env-only"
      <3> DEFINE mid == [all EXCEPT !.pc = "targets"]
                 d == job'[j]
      <3>1. Continue(j, mid) BY <1>1, <1>5, <2>5
      <3>2. DOMAIN all = DOMAIN Idle /\ all.req = c.req BY <1>3, CountIs
      <3> HIDE DEF all
      <3>3. DOMAIN mid = DOMAIN Idle /\ mid.pc = "targets" /\ mid.req = c.req BY <3>2, IdleIs
      <3>4. d = [mid EXCEPT !.pc = "done"]
        <4>1. d = [mid EXCEPT !.pc = StageAfter(mid.req.kind, mid.pc)]
          BY <3>1, <3>3, ContinueFields
        <4> HIDE DEF d, mid
        <4> QED BY <4>1, <3>3, <1>5, CheckStages
      <3>5. d = [all EXCEPT !.pc = "done"]
        <4> HIDE DEF d
        <4> QED BY <3>4, <3>2, IdleIs
      <3>6. "done" \in DOMAIN Behind /\ Behind["done"] = Categories /\ Behind["auth"] = {"sources"}
        BY DEF Behind
      <3>7. \A s \in Behind["done"] :
              s \in Behind[c.pc] \/ s = c.pc \/ Fact(project, c.app, c.mode, s)
        BY <2>5, <1>2, <3>6 DEF Categories, Fact
      <3>8. c.pc \in Categories BY <1>2 DEF Categories
      <3>9. d = [Count(c, bad) EXCEPT !.pc = "done"] BY <3>5 DEF all
      <3>10. CheckKept(project, d) /\ d.req = c.req
        <4>1. ~bad => Fact(project, c.app, c.mode, c.pc) BY <2>3, <1>2
        <4> HIDE DEF d, c
        <4>2. Countable(project, c, bad, "done")
          BY <4>1, <3>6, <3>7, <3>8, <2>1, <1>3 DEF Countable
        <4>3. /\ CheckKept(project, Onto(Count(c, bad), "done"))
              /\ Onto(Count(c, bad), "done").req = c.req
          BY <4>2, Counted
        <4>4. d = Onto(Count(c, bad), "done") BY <3>9, Zenon DEF Onto
        <4> QED BY <4>3, <4>4
      <3>11. c.req \in project.calls BY <1>2 DEF Consistent, c
      <3>12. ArtifactKept(project, d, child'[j]) BY <1>2 DEF ArtifactKept
      <3>13. Consistent(project, d, child'[j]) BY <3>10, <3>11, <3>12, <1>5 DEF Consistent
      <3> QED BY <3>13 DEF d
    <2> QED BY <2>4, <2>5
  <1> QED BY <1>4, <1>5

(* A document or the failure to get one, for a compilation and for `check`.  *)
LEMMA CompileTakes ==
  ASSUME IInv, NEW j \in Jobs, NEW got, Take(j, got), Consistent(project, job[j], child[j]),
         job[j].req.kind = "compile", job[j].pc \in Extracting, child'[j].state = "off",
         got.kind = "failure" =>
           /\ got.code # "none"
           /\ got.code \in CheckedCodes(project, job[j].app, ModeOf(project, job[j].req.envOnly)) =>
                ~Promised(project, job[j].app, job[j].req.envOnly),
         got.kind # "failure" => got.doc = Taken(project, job[j])
  PROVE  Consistent(project, job'[j], child'[j])
  <1> DEFINE c == job[j]
             parts == Append(c.parts, [app |-> Wanted(c), doc |-> got.doc])
             new == [c EXCEPT !.parts = parts]
  <1>1. c.pc = "source" BY WantedApp
  <1>2. DOMAIN c = DOMAIN Idle BY CallIs
  <1>3. c.req \in project.calls /\ CompileKept(project, c) BY <1>1 DEF Consistent
  <1>4. c.parts = <<>> /\ IndexKnown(project, c) BY <1>1, <1>3 DEF CompileKept
  <1>5. c.req.apps = <<>> BY <1>3, CallFiles DEF IInv
  <1>6. IF got.kind = "failure" THEN Reject(j, c, got.code)
        ELSE IF Len(parts) < Len(c.req.apps) THEN
             /\ job' = [job EXCEPT ![j].parts = parts]
             /\ UNCHANGED <<project, flag, before, scope>>
        ELSE Continue(j, new)
    <2>1. c.req.kind # "check" OBVIOUS
    <2> QED BY <2>1, Zenon DEF Take
  <1>7. parts = <<[app |-> c.app, doc |-> got.doc]>>
    <2>1. Wanted(c) = c.app BY DEF Wanted
    <2> QED BY <2>1, <1>4
  <1>8. CASE got.kind = "failure"
    <2>1. Reject(j, c, got.code) BY <1>6, <1>8
    <2> QED BY <2>1, <1>1, <1>8, RejectKept
  <1>9. CASE got.kind # "failure"
    <2> HIDE DEF parts
    <2>1. ~(Len(parts) < Len(c.req.apps)) BY <1>5, <1>7
    <2>2. Continue(j, new) BY <1>6, <1>9, <2>1
    <2>3. /\ DOMAIN new = DOMAIN Idle /\ new.pc = "source" /\ new.req = c.req /\ new.app = c.app
          /\ new.index = c.index /\ new.mode = c.mode /\ new.parts = parts /\ new.code = c.code
      BY <1>1, <1>2, IdleIs
    <2> HIDE DEF new
    <2> DEFINE d == job'[j]
    <2>4. /\ d.pc = StageAfter(new.req.kind, new.pc) /\ d.req = new.req /\ d.app = new.app
          /\ d.index = new.index /\ d.mode = new.mode /\ d.parts = new.parts /\ d.code = new.code
      BY <2>2, <2>3, ContinueFields
    <2> HIDE DEF d
    <2>5. d.pc = "auth" BY <2>3, <2>4, CompileStages
    <2>6. CompileKept(project, d)
      BY <2>3, <2>4, <2>5, <1>3, <1>4, <1>7, <1>9 DEF CompileKept, IndexKnown, Taken,
                                                             TargetsKept
    <2>7. ProgramKept(d, child'[j]) BY DEF ProgramKept
    <2>8. Consistent(project, d, child'[j]) BY <2>3, <2>4, <2>6, <2>7, <1>3 DEF Consistent
    <2> QED BY <2>8 DEF d
  <1> QED BY <1>8, <1>9

LEMMA CheckTakes ==
  ASSUME IInv, NEW j \in Jobs, NEW got, Take(j, got), Consistent(project, job[j], child[j]),
         job[j].req.kind = "check", job[j].pc \in Extracting, child'[j].state = "off",
         got.kind # "failure" => /\ got.doc = project.apps[job[j].app].doc
                                 /\ project.apps[job[j].app].artifact # "broken"
  PROVE  Consistent(project, job'[j], child'[j])
  <1> DEFINE c == job[j]
             bad == got.kind = "failure" \/ Dislikes(c, got.doc)
             doc == project.apps[c.app].doc
  <1>1. Continue(j, Count(c, bad)) BY Zenon DEF Take
  <1>2. c.pc \in {"conflicts", "refs", "targets"}
    <2>1. c.pc \in StagesOf("check") BY CallIs DEF Underway, Extracting
    <2> QED BY <2>1, StageSets DEF Extracting, Categories
  <1>3. CheckKept(project, c) BY DEF Consistent
  <1>4. Looked(project, c) BY <1>2, <1>3 DEF CheckKept, Underway
  <1>5. c.index = Index(project) BY <1>4 DEF Looked, IndexKnown
  <1>6. ASSUME ~bad PROVE Fact(project, c.app, c.mode, c.pc)
    <2>1. ~Dislikes(c, doc) /\ project.apps[c.app].artifact # "broken" BY <1>6
    <2>2. CASE c.pc = "conflicts" BY <2>1, <2>2 DEF Dislikes, Fact
    <2>3. CASE c.pc = "refs" BY <2>1, <2>3, <1>5 DEF Dislikes, Fact
    <2>4. CASE c.pc = "targets"
      <3>1. ~CheckTargets(project, c.app, doc) BY <2>1, <2>4 DEF Dislikes
      <3>2. /\ "broken" \notin {project.global.form, project.apps[c.app].overrides.form}
            /\ TargetsFound(project, c.app)
        BY <3>1, Zenon DEF CheckTargets, TargetsFound, RulesFor, Original
      <3>3. OverridesRead(project, c.app) BY <3>2 DEF OverridesRead
      <3> QED BY <3>2, <3>3, <2>4 DEF Fact
    <2> QED BY <1>2, <2>2, <2>3, <2>4
  <1>7. c.pc \in Categories BY <1>2 DEF Categories
  <1> HIDE DEF bad
  <1> QED BY <1>1, <1>6, <1>7, CountedOn

(* The source of the document of a compilation that `check` has let pass.    *)
LEMMA CompileSource ==
  ASSUME NEW c, c.req.kind = "compile", c.req.entry = "none", IndexKnown(project, c),
         project.apps[c.app].artifact \in FileForms
  PROVE  LET got == Source(c)
         IN  /\ got.kind = "failure" =>
                  /\ got.code # "none"
                  /\ got.code \in CheckedCodes(project, c.app, ModeOf(project, c.req.envOnly)) =>
                       ~Promised(project, c.app, c.req.envOnly)
             /\ got.kind = "document" => got.doc = Taken(project, c)
             /\ got.kind = "run" => c.mode # "env-only"
             /\ got.kind \in {"failure", "document", "run"}
  <1> DEFINE app == project.apps[c.app]
             mode == ModeOf(project, c.req.envOnly)
             codes == CheckedCodes(project, c.app, mode)
             got == Source(c)
             promised == Promised(project, c.app, c.req.envOnly)
  <1>1. /\ \A doc : Document(doc).kind = "document" /\ Document(doc).doc = doc
        /\ \A code : Failure(code).kind = "failure" /\ Failure(code).code = code
        /\ Run.kind = "run"
    BY DEF Document, Failure, Run
  <1>2. c.mode = mode BY DEF IndexKnown
  <1>3. got = IF c.mode = "env-only" THEN Document(Placeholder(c.app))
              ELSE IF ConfigCode(app.config) # "none" THEN Failure(ConfigCode(app.config))
              ELSE IF app.config \in {"file", "module"} THEN ExtractEntry(app.config, app)
              ELSE Extract(app)
    <2>1. Wanted(c) = c.app /\ Compiles(c.req.kind) BY DEF Wanted, Compiles
    <2> QED BY <2>1 DEF Source
  <1>4. CASE c.mode = "env-only"
    BY <1>1, <1>3, <1>4 DEF Taken
  <1>5. CASE c.mode # "env-only" /\ ConfigCode(app.config) # "none"
    <2>1. got = Failure(ConfigCode(app.config)) BY <1>3, <1>5
    <2>2. promised => ConfigCode(app.config) = "none" BY DEF Promised, ConfigCode
    <2> QED BY <2>1, <2>2, <1>1, <1>5
  <1>6. CASE c.mode # "env-only" /\ ConfigCode(app.config) = "none" /\ app.config \in {"file", "module"}
    <2>1. got = ExtractEntry(app.config, app) BY <1>3, <1>6
    <2>2. got \in {Document(app.doc), Failure("OPENAPI_ENTRY_INVALID"), Run}
      BY <2>1, Zenon DEF ExtractEntry
    <2>3. "OPENAPI_ENTRY_INVALID" \notin codes BY OtherCodes
    <2> HIDE DEF got
    <2>4. /\ got.kind = "failure" => got.code # "none" /\ got.code \notin codes
          /\ got.kind = "document" => got.doc = Taken(project, c)
          /\ got.kind \in {"failure", "document", "run"}
      BY <2>2, <2>3, <1>1, <1>6 DEF Taken
    <2> QED BY <2>4, <1>6 DEF got
  <1>7. CASE c.mode # "env-only" /\ ConfigCode(app.config) = "none" /\ app.config \notin {"file", "module"}
    <2>1. got = Extract(app) BY <1>3, <1>7
    <2>2. \/ got \in {Document(app.doc), Run}
          \/ got = Failure("INVALID_ARTIFACT") /\ app.artifact = "broken"
          \/ got = Failure("NO_SOURCE") /\ app.artifact = "absent" /\ app.program = "absent"
      BY <2>1 DEF Extract, FileForms
    <2>3. promised => /\ app.artifact # "broken"
                      /\ ~(app.artifact = "absent" /\ app.program = "absent")
      <3> SUFFICES ASSUME promised
                   PROVE  /\ app.artifact # "broken"
                          /\ ~(app.artifact = "absent" /\ app.program = "absent")
        OBVIOUS
      <3>1. SourceFound(project, c.app) /\ app.artifact # "broken" BY <1>2, <1>7, Facts
      <3>2. app.config = "empty" BY DEF Promised
      <3> QED BY <3>1, <3>2 DEF SourceFound
    <2> HIDE DEF got, promised
    <2>4. /\ got.kind = "failure" =>
               got.code # "none" /\ (got.code \in codes => ~promised)
          /\ got.kind = "document" => got.doc = Taken(project, c)
          /\ got.kind \in {"failure", "document", "run"}
      <3>1. CASE got = Document(app.doc) BY <3>1, <1>1, <1>7 DEF Taken
      <3>2. CASE got = Failure("INVALID_ARTIFACT") /\ app.artifact = "broken" BY <3>2, <2>3, <1>1
      <3>3. CASE got = Run BY <3>3, <1>1
      <3>4. CASE got = Failure("NO_SOURCE") /\ app.artifact = "absent" /\ app.program = "absent"
        BY <3>4, <2>3, <1>1
      <3> QED BY <3>1, <3>2, <3>3, <3>4, <2>2
    <2> QED BY <2>4, <1>7 DEF got, promised
  <1> QED BY <1>4, <1>5, <1>6, <1>7

LEMMA ObtainConsistent ==
  ASSUME IInv, NEW j \in Jobs, Obtain(j), Consistent(project, job[j], child[j]),
         job[j].req.kind \in {"compile", "check"}
  PROVE  Consistent(project, job'[j], child'[j])
  <1> DEFINE c == job[j]
             got == Source(c)
             new == [state |-> "running", program |-> project.apps[Wanted(c)].program]
  <1>1. /\ c.pc \in Extracting /\ child[j].state = "off"
        /\ \/ /\ got.kind = "run" /\ child' = [child EXCEPT ![j] = new]
              /\ UNCHANGED <<project, job, flag, before, scope>>
           \/ got.kind # "run" /\ Take(j, got) /\ UNCHANGED child
    BY Zenon DEF Obtain
  <1>2. Wanted(c) = c.app BY DEF Wanted
  <1>3. c.pc \notin {"idle", "index", "done"} BY <1>1 DEF Extracting
  <1>4. c.req \in project.calls BY <1>3 DEF Consistent
  <1>5. CASE c.req.kind = "compile"
    <2>1. CompileKept(project, c) /\ IndexKnown(project, c) BY <1>3, <1>5 DEF Consistent, CompileKept
    <2>2. c.app \in DOMAIN project.apps BY <1>1, <1>2, <1>5, WantedApp
    <2>3. c.req.entry = "none" /\ project.apps[c.app].artifact \in FileForms
          /\ project.apps[c.app].program \in Programs
      BY <1>4, <1>5, <2>2, CallFiles DEF IInv
    <2>4. /\ got.kind = "failure" =>
               /\ got.code # "none"
               /\ got.code \in CheckedCodes(project, c.app, ModeOf(project, c.req.envOnly)) =>
                    ~Promised(project, c.app, c.req.envOnly)
          /\ got.kind = "document" => got.doc = Taken(project, c)
          /\ got.kind = "run" => c.mode # "env-only"
          /\ got.kind \in {"failure", "document", "run"}
      BY <1>5, <2>1, <2>3, CompileSource
    <2> HIDE DEF got
    <2>5. CASE got.kind = "run"
      <3>1. job' = job /\ child'[j] = new BY <1>1, <2>5 DEF IInv, ChildrenAwaited
      <3>2. ProgramKept(c, child'[j]) BY <3>1, <2>3, <2>4, <2>5, <1>2 DEF ProgramKept
      <3>3. job'[j] = c BY <3>1
      <3> HIDE DEF c
      <3> QED BY <3>2, <3>3, <2>1, <1>4, <1>5 DEF Consistent
    <2>6. CASE got.kind # "run"
      <3>1. Take(j, got) /\ child'[j].state = "off" BY <1>1, <2>6
      <3> QED BY <3>1, <2>4, <2>6, <1>1, <1>5, CompileTakes
    <2> QED BY <2>5, <2>6
  <1>6. CASE c.req.kind = "check"
    <2>1. got = Extract(project.apps[c.app]) BY <1>2, <1>6 DEF Source, Compiles
    <2>2. /\ got.kind \notin {"failure", "run"} => got.doc = project.apps[c.app].doc
          /\ got.kind # "failure" => project.apps[c.app].artifact # "broken"
      <3>1. Run.kind = "run" /\ \A code : Failure(code).kind = "failure" BY DEF Run, Failure
      <3>2. \A doc : Document(doc).doc = doc BY DEF Document
      <3> QED BY <2>1, <3>1, <3>2 DEF Extract
    <2> HIDE DEF got
    <2>3. CASE got.kind = "run"
      <3>1. job'[j] = c BY <1>1, <2>3
      <3>2. CheckKept(project, c) BY <1>6 DEF Consistent
      <3>3. ArtifactKept(project, c, child'[j]) BY <2>2, <2>3 DEF ArtifactKept
      <3> HIDE DEF c
      <3> QED BY <3>1, <3>2, <3>3, <1>4, <1>6 DEF Consistent
    <2>4. CASE got.kind # "run"
      <3>1. Take(j, got) /\ child'[j].state = "off" BY <1>1, <2>4
      <3> QED BY <3>1, <2>2, <2>4, <1>1, <1>6, CheckTakes
    <2> QED BY <2>3, <2>4
  <1> QED BY <1>5, <1>6

LEMMA ProcessConsistent ==
  ASSUME IInv, NEW j \in Jobs, SpawnFails(j) \/ ChildExits(j) \/ ChildCloses(j) \/ Timeout(j),
         Consistent(project, job[j], child[j]), job[j].req.kind \in {"compile", "check"}
  PROVE  Consistent(project, job'[j], child'[j])
  <1> DEFINE c == job[j]
             mode == ModeOf(project, c.req.envOnly)
             codes == CheckedCodes(project, c.app, mode)
  <1>1. child[j].state # "off"
    BY DEF SpawnFails, ChildExits, ChildCloses, Timeout
  <1>2. c.pc \in Extracting /\ DOMAIN child = Jobs BY <1>1 DEF IInv, ChildrenAwaited
  <1>3. c.req \in project.calls BY <1>2 DEF Consistent, Extracting
  <1>4. c.req.kind = "compile" =>
          /\ c.mode # "env-only" /\ child[j].program \in Programs
          /\ child[j].state = "exited" => child[j].program # "hangs"
    BY <1>1 DEF Consistent, ProgramKept
  <1>5. c.req.kind = "check" => project.apps[c.app].artifact # "broken"
    BY <1>1 DEF Consistent, ArtifactKept
  <1>6. ASSUME NEW code \in {"RUNNER_SPAWN_FAILED", "ENTRY_TIMEOUT", "ENTRY_RETURNED_INVALID",
                             "ENTRY_LOAD_FAILED", "ENTRY_EXECUTION_FAILED"},
               Take(j, Failure(code)), child'[j].state = "off"
        PROVE  Consistent(project, job'[j], child'[j])
    <2> DEFINE got == Failure(code)
    <2>1. got.kind = "failure" /\ got.code = code BY DEF Failure
    <2>2. code \notin codes /\ code # "none" BY OtherCodes
    <2>3. Take(j, got) BY <1>6
    <2> HIDE DEF got
    <2>4. CASE c.req.kind = "compile" BY <2>1, <2>2, <2>3, <2>4, <1>2, <1>6, CompileTakes
    <2>5. CASE c.req.kind = "check" BY <2>1, <2>3, <2>5, <1>2, <1>6, CheckTakes
    <2> QED BY <2>4, <2>5
  <1>7. ASSUME child' = [child EXCEPT ![j] = NoChild] PROVE child'[j].state = "off"
    BY <1>2, <1>7 DEF NoChild
  <1>8. CASE SpawnFails(j) BY <1>6, <1>7, <1>8 DEF SpawnFails
  <1>9. CASE Timeout(j) BY <1>6, <1>7, <1>9 DEF Timeout
  <1>10. CASE ChildExits(j)
    <2> DEFINE new == [child[j] EXCEPT !.state = "exited"]
    <2>1. child'[j] = new /\ job' = job /\ child[j].program # "hangs"
      BY <1>2, <1>10 DEF ChildExits
    <2>2. job'[j] = c BY <2>1
    <2>3. c.req.kind = "compile" => CompileKept(project, c) BY DEF Consistent
    <2>4. c.req.kind = "check" => CheckKept(project, c) /\ ArtifactKept(project, c, child'[j])
      BY <1>5 DEF Consistent, ArtifactKept
    <2>5. c.req.kind = "compile" => new.program = child[j].program
      OBVIOUS
    <2> HIDE DEF new, c
    <2>6. c.req.kind = "compile" => ProgramKept(c, child'[j]) BY <2>1, <2>5, <1>4 DEF ProgramKept
    <2> QED BY <2>2, <2>3, <2>4, <2>6, <1>3 DEF Consistent
  <1>11. CASE ChildCloses(j)
    <2> DEFINE code == Verdict(child[j].program)
               doc == project.apps[Wanted(c)].doc
               got == IF code = "none" THEN Document(doc) ELSE Failure(code)
    <2>1. Take(j, got) /\ child' = [child EXCEPT ![j] = NoChild] /\ child[j].state = "exited"
      BY <1>11, Zenon DEF ChildCloses
    <2>2. child'[j].state = "off" BY <1>7, <2>1
    <2>3. Wanted(c) = c.app BY DEF Wanted
    <2>4. CASE code = "none"
      <3>1. got.kind = "document" /\ got.doc = project.apps[c.app].doc
        BY <2>3, <2>4 DEF Document
      <3>2. c.req.kind = "compile" => got.doc = Taken(project, c) BY <3>1, <1>4 DEF Taken
      <3> HIDE DEF got
      <3>3. CASE c.req.kind = "compile" BY <3>1, <3>2, <3>3, <2>1, <2>2, <1>2, CompileTakes
      <3>4. CASE c.req.kind = "check" BY <3>1, <3>4, <2>1, <2>2, <1>2, <1>5, CheckTakes
      <3> QED BY <3>3, <3>4
    <2>5. CASE code # "none" /\ c.req.kind = "check"
      <3>1. got.kind = "failure" BY <2>5 DEF Failure
      <3> HIDE DEF got
      <3> QED BY <3>1, <2>1, <2>2, <2>5, <1>2, CheckTakes
    <2>6. CASE code # "none" /\ c.req.kind = "compile"
      <3>1. code \in {"none", "ENTRY_RETURNED_INVALID", "ENTRY_LOAD_FAILED", "ENTRY_EXECUTION_FAILED"}
        <4>1. child[j].program \in Programs \ {"hangs"} BY <1>4, <2>1, <2>6
        <4> QED BY <4>1 DEF Verdict, Programs
      <3>2. Take(j, Failure(code)) BY <2>1, <2>6
      <3> HIDE DEF code
      <3> QED BY <3>1, <3>2, <2>2, <2>6, <1>6
    <2> QED BY <2>4, <2>5, <2>6
  <1> QED BY <1>8, <1>9, <1>10, <1>11

(* The document of a compilation that `check` has let pass.                  *)
LEMMA TakenSound ==
  ASSUME NEW c, IndexKnown(project, c), Promised(project, c.app, c.req.envOnly)
  PROVE  /\ \A v \in FieldRefs(Taken(project, c)) : Sound(v, Index(project))
         /\ ~CheckConflicts(Taken(project, c))
  <1> DEFINE doc == Taken(project, c)
             blank == Placeholder(c.app)
  <1>1. c.mode = ModeOf(project, c.req.envOnly) BY DEF IndexKnown
  <1>2. CASE c.mode = "env-only"
    <2>1. doc = blank BY <1>2 DEF Taken
    <2>2. blank.paths = <<>> /\ blank.components = <<>> BY DEF Placeholder, EmptyDoc
    <2> HIDE DEF blank
    <2>3. FieldRefs(blank) = {} BY <2>2 DEF FieldRefs
    <2>4. Operations(blank) = {} BY <2>2 DEF Operations
    <2> DEFINE parts == <<[app |-> none, doc |-> blank]>>
    <2>5. \A i \in DOMAIN parts : parts[i].doc = blank OBVIOUS
    <2> HIDE DEF parts
    <2>6. ~OperationIdTwice(parts) BY <2>4, <2>5 DEF OperationIdTwice
    <2>7. ~CheckConflicts(blank) BY <2>6 DEF CheckConflicts, parts
    <2> HIDE DEF doc
    <2>8. (\A v \in FieldRefs(doc) : Sound(v, Index(project))) /\ ~CheckConflicts(doc)
      BY <2>1, <2>3, <2>7
    <2> QED BY <2>8 DEF doc
  <1>3. CASE c.mode # "env-only"
    <2>1. doc = project.apps[c.app].doc BY <1>3 DEF Taken
    <2>2. ~CheckConflicts(doc) /\ ~CheckReferences(doc, Index(project))
      BY <1>1, <1>3, <2>1, Facts
    <2>3. \A v \in FieldRefs(doc) : v.form # "bare" BY <2>1 DEF Promised
    <2> HIDE DEF doc
    <2>4. \A v \in FieldRefs(doc) : Sound(v, Index(project))
      BY <2>2, <2>3 DEF CheckReferences, Sound
    <2> QED BY <2>2, <2>4 DEF doc
  <1> QED BY <1>2, <1>3

(* The schemes of auth.yaml that `check` has let pass.                       *)
LEMMA AuthSound ==
  ASSUME NEW a, AuthValid(project, a),
         project.apps[a].auth.schemes \in Seq(Range(project.apps[a].auth.schemes))
  PROVE  \A i \in DOMAIN project.apps[a].auth.schemes :
           project.apps[a].auth.schemes[i].type = "function" =>
             <<"functions", project.apps[a].auth.schemes[i].function.name, "id">> \in Index(project)
  <1> DEFINE auth == project.apps[a].auth
             functions == Names(Index(project), "functions")
  <1>1. ValidateFunctionReferences(auth, functions) = "none"
    BY DEF AuthValid, ValidateAuthConfig
  <1>2. \A i \in DOMAIN auth.schemes :
          auth.schemes[i].type = "function" => auth.schemes[i].function.name \in functions
    <2> HIDE DEF functions
    <2> QED BY <1>1, SchemesFound
  <1> QED BY <1>2, IndexedFunctions

(* The merge of one document.                                                *)
LEMMA MergeCodes ==
  ASSUME NEW parts, NEW doc, DOMAIN parts = 1..1, parts[1].doc = doc, ~CheckConflicts(doc)
  PROVE  MergeCode(parts) \in {"none", "COMPOSE_OPENAPI_VERSION_MISMATCH",
                               "COMPOSE_PATH_COLLISION", "COMPOSE_COMPONENT_COLLISION"}
  <1> DEFINE one == <<[app |-> none, doc |-> doc]>>
  <1>1. DOMAIN one = 1..1 /\ one[1].doc = doc OBVIOUS
  <1>2. ~OperationIdTwice(one) BY DEF CheckConflicts
  <1> HIDE DEF one
  <1>3. \A i \in 1..1 : i = 1 OBVIOUS
  <1>4. ~OperationIdTwice(parts) BY <1>1, <1>2, <1>3 DEF OperationIdTwice
  <1> QED BY <1>4 DEF MergeCode

(* The rules of an app and of the project.                                   *)
LEMMA RulesForList ==
  ASSUME IInv, NEW a \in DOMAIN project.apps
  PROVE  /\ RuleList(RulesFor(project, a))
         /\ (\A r \in Range(project.global.rules \o project.apps[a].overrides.rules) : Plain(r)) =>
              PlainRules(RulesFor(project, a))
  <1> DEFINE files == OverrideFiles(project, a)
  <1>1. files = <<>> \/ files = <<project.global>> BY DEF OverrideFiles
  <1>2. IsRuleList(project.global.rules) /\ IsRuleList(project.apps[a].overrides.rules)
    BY Files DEF IInv
  <1>3. RulesFor(project, a) = RulesOf(project, files, a) BY DEF RulesFor
  <1> HIDE DEF files
  <1> QED BY <1>1, <1>2, <1>3, LoadedPlain, RulesOfList

(* Before the first rule, each finds its target.                             *)
LEMMA MergedStand ==
  ASSUME IInv, NEW c, c.req.kind = "compile", c.app \in DOMAIN project.apps, IndexKnown(project, c),
         c.parts = <<[app |-> c.app, doc |-> Taken(project, c)]>>,
         Staying(project, c.app, c.req.envOnly), NEW auth
  PROVE  RulesStand(Original(project, c.app),
                    ApplyAuth(MergeDocuments(c.parts, InfoOf(c)), auth), RulesFor(project, c.app))
  <1> DEFINE doc == project.apps[c.app].doc
             rules == RulesFor(project, c.app)
             original == Original(project, c.app)
             info == InfoOf(c)
             draft == ApplyAuth(MergeDocuments(c.parts, info), auth)
  <1>1. Promised(project, c.app, c.req.envOnly) /\ c.mode # "env-only"
    BY DEF Staying, IndexKnown
  <1>2. c.parts = <<[app |-> c.app, doc |-> doc]>> BY <1>1 DEF Taken
  <1>3. info # none
    <2>1. c.parts[1].doc = doc BY <1>2
    <2>2. info = IF doc.info = none THEN "undefined" ELSE doc.info BY <2>1 DEF InfoOf
    <2> HIDE DEF info, doc
    <2> QED BY <2>2, NoneAssumption
  <1>4. IsDocument(doc) BY Files DEF IInv
  <1>5. RuleList(rules) BY RulesForList
  <1>6. TargetsFound(project, c.app) BY <1>1, Facts DEF Staying
  <1>7. ASSUME NEW i \in DOMAIN rules PROVE Stands(original, draft, rules[i].rule)
    <2>1. IsRule(rules[i].rule) BY <1>5 DEF RuleList
    <2>2. Exists(original, rules[i].rule) BY <1>6 DEF TargetsFound, Range
    <2> HIDE DEF rules, info
    <2>3. Stands(Original(project, c.app),
                 ApplyAuth(MergeDocuments(<<[app |-> c.app, doc |-> project.apps[c.app].doc]>>, info),
                           auth), rules[i].rule)
      BY <2>1, <2>2, <1>3, <1>4, TargetsStand
    <2> QED BY <2>3, <1>2
  <1>8. ASSUME NEW i \in DOMAIN rules, NEW k \in DOMAIN rules, i < k
        PROVE  ~TakesAway(original, rules[i].rule, rules[k].rule)
    BY <1>8 DEF Staying, TargetsStay, RulesFor
  <1> HIDE DEF rules, original, draft
  <1>9. RulesStand(original, draft, rules) BY <1>7, <1>8 DEF RulesStand
  <1> QED BY <1>9 DEF rules, original, draft, info

LEMMA MergeConsistent ==
  ASSUME IInv, NEW j \in Jobs, Merge(j), Consistent(project, job[j], child[j]),
         job[j].req.kind = "compile"
  PROVE  Consistent(project, job'[j], child'[j])
  <1> DEFINE c == job[j]
             auth == project.apps[c.app].auth
             collision == MergeCode(c.parts)
             merged == MergeDocuments(c.parts, InfoOf(c))
             code == AuthApplyCode(merged, auth, c.index)
             draft == ApplyAuth(merged, auth)
             new == [c EXCEPT !.draft = draft]
             mode == ModeOf(project, c.req.envOnly)
             codes == CheckedCodes(project, c.app, mode)
             promised == Promised(project, c.app, c.req.envOnly)
  <1>1. /\ At(j, "merge")
        /\ IF collision # "none" THEN Reject(j, c, collision)
           ELSE IF code # "none" THEN Reject(j, c, code) ELSE Continue(j, new)
    <2>1. AuthOf(c) = auth BY DEF AuthOf
    <2> HIDE DEF auth
    <2> QED BY <2>1, Zenon DEF Merge
  <1>2. child'[j] = child[j] /\ child[j].state = "off" /\ c.pc = "merge"
    BY <1>1, AtChildless DEF Extracting
  <1>3. DOMAIN c = DOMAIN Idle /\ PartList(c.parts) BY CallIs
  <1>4. CompileKept(project, c) /\ c.req \in project.calls BY <1>2 DEF Consistent
  <1>5. IndexKnown(project, c) /\ c.parts = <<[app |-> c.app, doc |-> Taken(project, c)]>>
    BY <1>2, <1>4 DEF CompileKept
  <1>6. DOMAIN c.parts = 1..1 /\ c.parts[1].doc = Taken(project, c) BY <1>5
  <1>7. c.app \in DOMAIN project.apps
    BY <1>2, CallIs DEF Called, Underway, Compiles
  <1>8. auth.schemes \in Seq(Range(auth.schemes)) BY <1>7, CallFiles DEF IInv
  <1>9. c.index = Index(project) BY <1>5 DEF IndexKnown
  <1>10. ASSUME promised
         PROVE  /\ collision \notin codes /\ code \notin codes
                /\ \A b \in BearerFields(draft.doc) : Sound(b[3], Index(project))
    <2>1. \A i \in DOMAIN auth.schemes : auth.schemes[i].type = "function" =>
            <<"functions", auth.schemes[i].function.name, "id">> \in Index(project)
      <3>1. AuthValid(project, c.app) BY <1>10, Facts
      <3> QED BY <3>1, <1>8, AuthSound
    <2>2. /\ \A v \in FieldRefs(Taken(project, c)) : Sound(v, Index(project))
          /\ ~CheckConflicts(Taken(project, c))
      BY <1>5, <1>10, TakenSound
    <2> HIDE DEF auth, c, mode, promised
    <2>3. collision \notin codes
      <3>1. collision \in {"none", "COMPOSE_OPENAPI_VERSION_MISMATCH",
                           "COMPOSE_PATH_COLLISION", "COMPOSE_COMPONENT_COLLISION"}
        BY <1>6, <2>2, MergeCodes
      <3> QED BY <3>1, OtherCodes
    <2>4. code \notin codes
      <3>1. code \in {"none", "COMPOSE_SECURITY_REF_NONE_SCHEME", "COMPOSE_COMPONENT_COLLISION"}
        BY <1>8, <1>9, <2>1, AuthApplyCodes
      <3> QED BY <3>1, OtherCodes
    <2>5. ASSUME NEW b \in BearerFields(draft.doc) PROVE Sound(b[3], Index(project))
      <3>1. \A i \in DOMAIN c.parts : IsDocument(c.parts[i].doc) BY <1>3, PartDocuments
      <3>2. IsDraft(merged) BY <3>1, MergeIsDraft
      <3>3. CASE \E d \in BearerFields(merged.doc) : b[3] = d[3]
        <4>1. \E i \in DOMAIN c.parts : b[3] \in FieldRefs(c.parts[i].doc)
          BY <3>1, <3>3, MergedRefs
        <4>2. \A i \in 1..1 : i = 1 OBVIOUS
        <4> QED BY <4>1, <4>2, <1>6, <2>2
      <3>4. CASE \E s \in Range(auth.schemes) : b[3] = SchemeEntry(s).ref
        <4>1. PICK s \in Range(auth.schemes) : b[3] = SchemeEntry(s).ref BY <3>4
        <4>2. s.type = "function" => <<"functions", s.function.name, "id">> \in Index(project)
          BY <2>1 DEF Range
        <4> QED BY <4>1, <4>2, SchemeSound
      <3> HIDE DEF merged
      <3> QED BY <3>2, <3>3, <3>4, AuthBearers
    <2> QED BY <2>3, <2>4, <2>5
  <1>11. Staying(project, c.app, c.req.envOnly) =>
           RulesStand(Original(project, c.app), draft, RulesFor(project, c.app))
    BY <1>5, <1>7, MergedStand
  <1> HIDE DEF draft, code, merged, collision, mode, promised
  <1>12. CASE collision # "none"
    <2>1. Reject(j, c, collision) BY <1>1, <1>12
    <2> QED BY <2>1, <1>2, <1>10, <1>12, RejectKept DEF mode, promised
  <1>13. CASE collision = "none" /\ code # "none"
    <2>1. Reject(j, c, code) BY <1>1, <1>13
    <2> QED BY <2>1, <1>2, <1>10, <1>13, RejectKept DEF mode, promised
  <1>14. CASE collision = "none" /\ code = "none"
    <2>1. Continue(j, new) BY <1>1, <1>14
    <2>2. /\ DOMAIN new = DOMAIN Idle /\ new.pc = "merge" /\ new.req = c.req /\ new.app = c.app
          /\ new.index = c.index /\ new.mode = c.mode /\ new.draft = draft /\ new.code = c.code
      BY <1>2, <1>3, IdleIs
    <2> HIDE DEF new
    <2> DEFINE d == job'[j]
    <2>3. /\ d.pc = StageAfter(new.req.kind, new.pc) /\ d.req = new.req /\ d.app = new.app
          /\ d.index = new.index /\ d.mode = new.mode /\ d.draft = new.draft /\ d.code = new.code
      BY <2>1, <2>2, ContinueFields
    <2>4. c.req.kind = "compile" OBVIOUS
    <2> HIDE DEF d, c
    <2>5. d.pc = "overrides" BY <2>2, <2>3, <2>4, CompileStages
    <2>6. CompileKept(project, d)
      BY <2>2, <2>3, <2>5, <1>4, <1>5, <1>10, <1>11 DEF CompileKept, IndexKnown, TargetsKept, promised
    <2>7. ProgramKept(d, child'[j]) BY <1>2 DEF ProgramKept
    <2>8. Consistent(project, d, child'[j])
      BY <2>2, <2>3, <2>4, <2>6, <2>7, <1>4 DEF Consistent
    <2> QED BY <2>8 DEF d
  <1> QED BY <1>12, <1>13, <1>14

(* A stage that a kind of call does not have.                                *)
LEMMA HasStage ==
  ASSUME IInv, NEW j \in Jobs, NEW stage, stage \notin Extracting \cup {"idle", "done"},
         At(j, stage)
  PROVE  /\ job[j].req.kind = "compile" =>
              stage \in {"index", "source", "auth", "merge", "overrides", "rules", "resolve"}
         /\ job[j].req.kind = "check" => stage \in {"index"} \cup Categories
  BY AtIs, StageSets

LEMMA PlainResolvedList ==
  ASSUME NEW rules, NEW with, RuleList(rules), PlainRules(rules)
  PROVE  PlainRules([i \in DOMAIN rules |-> [rules[i] EXCEPT !.rule = ResolveRule(@, with)]])
  <1> DEFINE resolve(r) == [r EXCEPT !.rule = ResolveRule(@, with)]
             list == [i \in DOMAIN rules |-> resolve(rules[i])]
  <1>1. \A i \in DOMAIN rules : DOMAIN rules[i] = {"rule", "app"} /\ IsRule(rules[i].rule)
    BY DEF RuleList
  <1>2. ASSUME NEW i \in DOMAIN rules PROVE Plain(list[i].rule)
    <2>1. resolve(rules[i]).rule = ResolveRule(rules[i].rule, with) BY <1>1
    <2>2. list[i] = resolve(rules[i]) OBVIOUS
    <2> HIDE DEF list, resolve
    <2>3. IsRule(rules[i].rule) /\ Plain(rules[i].rule) BY <1>1 DEF PlainRules
    <2> QED BY <2>1, <2>2, <2>3, PlainResolved
  <1>3. DOMAIN list = DOMAIN rules OBVIOUS
  <1> HIDE DEF list
  <1>4. PlainRules(list) BY <1>2, <1>3 DEF PlainRules
  <1> QED BY <1>4 DEF list

(* The overrides of a compilation.                                           *)
LEMMA CompileLoads ==
  ASSUME IInv, NEW j \in Jobs, LoadOverrides(j), job[j].req.kind = "compile"
  PROVE  LET c == job[j]
             loaded == RulesOf(project, OverrideFiles(project, c.app), c.app) \o <<>>
             broken == "broken" \in {project.global.form, project.apps[c.app].overrides.form}
             code == IF broken THEN "OVERRIDE_FILE_INVALID_YAML"
                     ELSE ResolveCode(UNION {RuleRefs(r.rule) : r \in Range(loaded)}, Resolution(c))
             rules == [i \in DOMAIN loaded |->
                         [loaded[i] EXCEPT !.rule = ResolveRule(@, Resolution(c))]]
         IN  /\ At(j, "overrides")
             /\ IF code # "none" THEN Reject(j, c, code)
                ELSE Continue(j, [c EXCEPT !.rules = rules])
  <1> DEFINE c == job[j]
             apps == <<c.app>>
             files == OverrideFiles(project, c.app)
             others == [i \in 1..Len(apps) - 1 |-> RulesOf(project, <<>>, apps[i + 1])]
             whole == RulesOf(project, files, apps[1]) \o FlattenSeq(others)
             loaded == RulesOf(project, files, c.app) \o <<>>
             bad == \/ project.global.form = "broken"
                    \/ \E a \in Range(apps) : project.apps[a].overrides.form = "broken"
             broken == "broken" \in {project.global.form, project.apps[c.app].overrides.form}
             code(b, l) == IF b THEN "OVERRIDE_FILE_INVALID_YAML"
                           ELSE ResolveCode(UNION {RuleRefs(r.rule) : r \in Range(l)}, Resolution(c))
             rules(l) == [i \in DOMAIN l |-> [l[i] EXCEPT !.rule = ResolveRule(@, Resolution(c))]]
  <1>1. /\ At(j, "overrides")
        /\ IF code(bad, whole) # "none" THEN Reject(j, c, code(bad, whole))
           ELSE Continue(j, [c EXCEPT !.rules = rules(whole)])
    <2>1. c.req.kind # "compose" OBVIOUS
    <2> QED BY <2>1, Zenon DEF LoadOverrides
  <1>2. others = <<>> /\ apps[1] = c.app
    <2>1. Len(apps) - 1 = 0 OBVIOUS
    <2>2. DOMAIN others = {} BY <2>1
    <2> QED BY <2>2
  <1>3. whole = loaded
    <2> HIDE DEF others, files
    <2> QED BY <1>2, FlattenNone
  <1>4. bad <=> broken
    <2>1. Range(apps) = {c.app} BY DEF Range
    <2> HIDE DEF apps
    <2> QED BY <2>1
  <1>5. code(bad, whole) = code(broken, loaded)
    <2> HIDE DEF bad, whole, broken, loaded
    <2> QED BY <1>3, <1>4
  <1>6. rules(whole) = rules(loaded)
    <2> HIDE DEF whole, loaded
    <2> QED BY <1>3
  <1> HIDE DEF code, rules, whole, loaded, bad, broken
  <1>7. /\ At(j, "overrides")
        /\ IF code(broken, loaded) # "none" THEN Reject(j, c, code(broken, loaded))
           ELSE Continue(j, [c EXCEPT !.rules = rules(loaded)])
    BY <1>1, <1>5, <1>6
  <1> QED BY <1>7, Zenon DEF code, rules, loaded, broken

LEMMA LoadOverridesConsistent ==
  ASSUME IInv, NEW j \in Jobs, LoadOverrides(j), Consistent(project, job[j], child[j]),
         job[j].req.kind = "compile"
  PROVE  Consistent(project, job'[j], child'[j])
  <1> DEFINE c == job[j]
             files == OverrideFiles(project, c.app)
             own == RulesOf(project, files, c.app)
             loaded == own \o <<>>
             broken == "broken" \in {project.global.form, project.apps[c.app].overrides.form}
             values == UNION {RuleRefs(r.rule) : r \in Range(loaded)}
             code == IF broken THEN "OVERRIDE_FILE_INVALID_YAML"
                     ELSE ResolveCode(values, Resolution(c))
             rules == [i \in DOMAIN loaded |->
                         [loaded[i] EXCEPT !.rule = ResolveRule(@, Resolution(c))]]
             new == [c EXCEPT !.rules = rules]
             mode == ModeOf(project, c.req.envOnly)
             codes == CheckedCodes(project, c.app, mode)
             promised == Promised(project, c.app, c.req.envOnly)
  <1>1. At(j, "overrides") /\ IF code # "none" THEN Reject(j, c, code) ELSE Continue(j, new)
    BY CompileLoads, Zenon
  <1>2. child'[j] = child[j] /\ child[j].state = "off" /\ c.pc = "overrides"
    BY <1>1, AtChildless DEF Extracting
  <1>3. DOMAIN c = DOMAIN Idle BY CallIs
  <1>4. CompileKept(project, c) /\ c.req \in project.calls BY <1>2 DEF Consistent
  <1>5. IndexKnown(project, c) BY <1>2, <1>4 DEF CompileKept
  <1>6. c.app \in DOMAIN project.apps BY <1>2, CallIs DEF Called, Underway, Compiles
  <1>7. loaded = RulesFor(project, c.app) /\ RuleList(loaded)
    <2>1. own = RulesFor(project, c.app) /\ RuleList(own) BY <1>6, RulesForList DEF RulesFor
    <2> HIDE DEF own
    <2>2. \E S : own \in Seq(S) BY <2>1 DEF RuleList
    <2>3. loaded = own BY <2>2
    <2> QED BY <2>1, <2>3
  <1>8. ASSUME promised PROVE PlainRules(loaded)
    <2> HIDE DEF loaded
    <2> QED BY <1>6, <1>7, <1>8, RulesForList DEF Promised
  <1> HIDE DEF loaded
  <1>9. ASSUME promised PROVE code \notin codes
    <2>1. CASE broken
      <3>1. ~OverridesRead(project, c.app) BY <2>1 DEF OverridesRead
      <3>2. mode = "env-only" BY <3>1, <1>9, Facts
      <3>3. code = "OVERRIDE_FILE_INVALID_YAML" BY <2>1
      <3> HIDE DEF code, mode
      <3> QED BY <3>2, <3>3, OverrideCodes
    <2>2. CASE ~broken
      <3> DEFINE found == ResolveCode(values, Resolution(c))
      <3>1. code = found BY <2>2
      <3>2. \A v \in values : v.form \notin {"bare", "template"}
        <4>1. \A r \in Range(loaded) : Plain(r.rule) BY <1>8, <1>9 DEF PlainRules, Range
        <4> QED BY <4>1 DEF Plain
      <3>3. found = "none"
        <4> HIDE DEF values, c
        <4>1. \A v \in values : ResolveScalar(v, Resolution(c)).code = "none" BY <3>2, PlainScalar
        <4> QED BY <4>1, ResolveCodeIs
      <3> HIDE DEF found, code
      <3> QED BY <3>1, <3>3, OtherCodes
    <2> QED BY <2>1, <2>2
  <1>10. ASSUME promised PROVE PlainRules(rules)
    BY <1>7, <1>8, <1>10, PlainResolvedList
  <1>11. Staying(project, c.app, c.req.envOnly) => RulesStand(Original(project, c.app), c.draft, rules)
    BY <1>2, <1>4, <1>7, RulesStandResolved DEF CompileKept, TargetsKept
  <1> HIDE DEF code, rules, mode, promised
  <1>12. CASE code # "none"
    <2>1. Reject(j, c, code) BY <1>1, <1>12
    <2> QED BY <2>1, <1>2, <1>9, <1>12, RejectKept DEF mode, promised
  <1>13. CASE code = "none"
    <2>1. Continue(j, new) BY <1>1, <1>13
    <2>2. /\ DOMAIN new = DOMAIN Idle /\ new.pc = "overrides" /\ new.req = c.req /\ new.app = c.app
          /\ new.index = c.index /\ new.mode = c.mode /\ new.draft = c.draft /\ new.code = c.code
          /\ new.rules = rules
      BY <1>2, <1>3, IdleIs
    <2> HIDE DEF new
    <2> DEFINE d == job'[j]
    <2>3. /\ d.pc = StageAfter(new.req.kind, new.pc) /\ d.req = new.req /\ d.app = new.app
          /\ d.index = new.index /\ d.mode = new.mode /\ d.draft = new.draft /\ d.code = new.code
          /\ d.rules = new.rules
      BY <2>1, <2>2, ContinueFields
    <2>4. c.req.kind = "compile" OBVIOUS
    <2> HIDE DEF d, c
    <2>5. d.pc = "rules" BY <2>2, <2>3, <2>4, CompileStages
    <2>6. CompileKept(project, d)
      BY <2>2, <2>3, <2>5, <1>2, <1>4, <1>5, <1>10, <1>11
      DEF CompileKept, IndexKnown, TargetsKept, promised
    <2>7. ProgramKept(d, child'[j]) BY <1>2 DEF ProgramKept
    <2>8. Consistent(project, d, child'[j])
      BY <2>2, <2>3, <2>4, <2>6, <2>7, <1>4 DEF Consistent
    <2> QED BY <2>8 DEF d
  <1> QED BY <1>12, <1>13

LEMMA ApplyNextRuleConsistent ==
  ASSUME IInv, NEW j \in Jobs, ApplyNextRule(j), Consistent(project, job[j], child[j]),
         job[j].req.kind = "compile"
  PROVE  Consistent(project, job'[j], child'[j])
  <1> DEFINE c == job[j]
             head == Head(c.rules)
             draft == ApplyRule(c.draft, head.rule, head.app)
             tail == Tail(c.rules)
             code == RuleCode(c.draft, head.rule, head.app)
             new == [c EXCEPT !.rules = tail, !.draft = draft]
             mode == ModeOf(project, c.req.envOnly)
             codes == CheckedCodes(project, c.app, mode)
             promised == Promised(project, c.app, c.req.envOnly)
  <1>1. /\ c.rules # <<>> /\ IsRule(head.rule) /\ IsDraft(c.draft) /\ DOMAIN c = DOMAIN Idle
        /\ \/ code # "none" /\ Reject(j, c, code)
           \/ code = "none" /\ job' = [job EXCEPT ![j] = new]
    BY NextRule, Zenon
  <1>2. child'[j] = child[j] /\ child[j].state = "off" /\ c.pc = "rules"
    <2>1. At(j, "rules") BY DEF ApplyNextRule
    <2> QED BY <2>1, AtChildless DEF Extracting
  <1>3. CompileKept(project, c) /\ c.req \in project.calls BY <1>2 DEF Consistent
  <1>4. code \in {"none", "OVERRIDE_OUT_OF_SCOPE", "OVERRIDE_TARGET_MISSING",
                  "OVERRIDE_TARGET_ALREADY_EXISTS"}
    BY DEF RuleCode
  <1>5. RuleList(c.rules) BY CallIs
  <1>6. ASSUME Staying(project, c.app, c.req.envOnly)
        PROVE  /\ code # "OVERRIDE_TARGET_MISSING"
               /\ code = "none" => RulesStand(Original(project, c.app), draft, tail)
    <2> DEFINE original == Original(project, c.app)
    <2>1. RulesStand(original, c.draft, c.rules) BY <1>2, <1>3, <1>6 DEF CompileKept, TargetsKept
    <2> HIDE DEF original, c
    <2>2. Stands(original, c.draft, head.rule) /\ (code = "none" => RulesStand(original, draft, tail))
      BY <2>1, <1>1, <1>5, RulesStandOn
    <2> HIDE DEF draft, tail, head
    <2>3. code # "OVERRIDE_TARGET_MISSING" BY <2>2, <1>1, StandsPresent
    <2> QED BY <2>2, <2>3 DEF original
  <1>7. CASE code # "none"
    <2>1. Reject(j, c, code) BY <1>1, <1>7
    <2> HIDE DEF code, promised, mode
    <2>2. ASSUME promised, code \in codes PROVE FALSE
      <3>1. code = "OVERRIDE_TARGET_MISSING" BY <2>2, <1>4, OtherCodes
      <3>2. mode # "env-only" /\ TargetsStay(project, c.app) BY <2>2, <3>1, OverrideCodes
      <3>3. Staying(project, c.app, c.req.envOnly) BY <2>2, <3>2 DEF Staying, promised, mode
      <3> QED BY <3>1, <3>3, <1>6
    <2> QED BY <2>1, <2>2, <1>2, <1>7, RejectKept DEF mode, promised
  <1>8. CASE code = "none"
    <2>1. ASSUME promised
          PROVE  PlainRules(tail) /\ \A b \in BearerFields(draft.doc) : Sound(b[3], Index(project))
      <3>1. PlainRules(c.rules) /\ \A b \in BearerFields(c.draft.doc) : Sound(b[3], Index(project))
        BY <2>1, <1>2, <1>3 DEF CompileKept
      <3>2. Plain(head.rule) /\ PlainRules(tail) BY <3>1, <1>1, <1>5, PlainStep
      <3>3. ASSUME NEW b \in BearerFields(draft.doc) PROVE Sound(b[3], Index(project))
        <4>1. b[3] \in RuleRefs(head.rule) \/ \E d \in BearerFields(c.draft.doc) : b[3] = d[3]
          BY <1>1, <1>8, RuleBearers
        <4>2. \A v \in RuleRefs(head.rule) : Sound(v, Index(project)) BY <3>2 DEF Plain, Sound
        <4> QED BY <4>1, <4>2, <3>1
      <3> QED BY <3>2, <3>3
    <2> DEFINE d == job'[j]
    <2>2. job' = [job EXCEPT ![j] = new] BY <1>1, <1>8
    <2> HIDE DEF draft, tail, promised
    <2>3. /\ new.pc = "rules" /\ new.req = c.req /\ new.app = c.app /\ new.index = c.index
          /\ new.mode = c.mode /\ new.draft = draft /\ new.code = c.code /\ new.rules = tail
      BY <1>1, <1>2, IdleIs
    <2> HIDE DEF new
    <2>4. d = new BY <2>2 DEF IInv, CallsProper
    <2>5. c.req.kind = "compile" OBVIOUS
    <2> HIDE DEF d, c
    <2>6. IndexKnown(project, c) BY <1>2, <1>3 DEF CompileKept
    <2>7. CompileKept(project, new)
      BY <2>1, <2>3, <2>6, <1>2, <1>3, <1>6, <1>8 DEF CompileKept, IndexKnown, TargetsKept, promised
    <2>8. ProgramKept(new, child'[j]) BY <1>2 DEF ProgramKept
    <2>9. Consistent(project, d, child'[j])
      BY <2>3, <2>4, <2>5, <2>7, <2>8, <1>3 DEF Consistent
    <2> QED BY <2>9 DEF d
  <1> QED BY <1>7, <1>8

LEMMA RulesAppliedConsistent ==
  ASSUME IInv, NEW j \in Jobs, RulesApplied(j), Consistent(project, job[j], child[j]),
         job[j].req.kind = "compile"
  PROVE  Consistent(project, job'[j], child'[j])
  <1> DEFINE c == job[j]
             d == job'[j]
  <1>1. At(j, "rules") /\ Continue(j, c) BY DEF RulesApplied
  <1>2. child'[j] = child[j] /\ child[j].state = "off" /\ c.pc = "rules"
    BY <1>1, AtChildless DEF Extracting
  <1>3. CompileKept(project, c) /\ c.req \in project.calls BY <1>2 DEF Consistent
  <1>4. /\ d.pc = "resolve" /\ d.req = c.req /\ d.app = c.app /\ d.index = c.index
        /\ d.mode = c.mode /\ d.draft = c.draft /\ d.code = c.code
    BY <1>1, <1>2, CompileOn, CompileStages
  <1>5. c.req.kind = "compile" OBVIOUS
  <1> HIDE DEF c, d
  <1>6. CompileKept(project, d) BY <1>2, <1>3, <1>4 DEF CompileKept, IndexKnown, TargetsKept
  <1>7. ProgramKept(d, child'[j]) BY <1>2 DEF ProgramKept
  <1>8. Consistent(project, d, child'[j]) BY <1>3, <1>4, <1>5, <1>6, <1>7 DEF Consistent
  <1> QED BY <1>8 DEF d

LEMMA ResolveConsistent ==
  ASSUME IInv, NEW j \in Jobs, Resolve(j), Consistent(project, job[j], child[j]),
         job[j].req.kind = "compile"
  PROVE  Consistent(project, job'[j], child'[j])
  <1> DEFINE c == job[j]
             with == Resolution(c)
             values == {b[3] : b \in BearerFields(c.draft.doc)}
             code == ResolveCode(values, with)
             doc == ResolveReferences(c.draft.doc, with)
             draft == [c.draft EXCEPT !.doc = doc]
             refs == {}
             new == [c EXCEPT !.draft = draft, !.refs = refs]
             mode == ModeOf(project, c.req.envOnly)
             codes == CheckedCodes(project, c.app, mode)
             promised == Promised(project, c.app, c.req.envOnly)
  <1>1. /\ At(j, "resolve")
        /\ IF code # "none" THEN Reject(j, c, code)
           ELSE Continue(j, [c EXCEPT !.draft.doc = doc, !.refs = refs])
    <2>1. c.req.kind # "compose" /\ c.req.kind # "build" OBVIOUS
    <2> QED BY <2>1, Zenon DEF Resolve
  <1>2. child'[j] = child[j] /\ child[j].state = "off" /\ c.pc = "resolve"
    BY <1>1, AtChildless DEF Extracting
  <1>3. DOMAIN c = DOMAIN Idle BY CallIs
  <1>4. CompileKept(project, c) /\ c.req \in project.calls BY <1>2 DEF Consistent
  <1>5. with.index = Index(project) BY <1>2, <1>4 DEF CompileKept, IndexKnown, Resolution
  <1>6. ASSUME promised PROVE code \notin codes
    <2>1. \A b \in BearerFields(c.draft.doc) : Sound(b[3], Index(project))
      BY <1>2, <1>4, <1>6 DEF CompileKept
    <2>2. \A v \in values : Sound(v, with.index) BY <2>1, <1>5
    <2> HIDE DEF values, with, mode
    <2>3. \A v \in values : ResolveScalar(v, with).code \in {"none", "RESOURCE_REF_ENV_NOT_SET"}
      BY <2>2, SoundCode
    <2>4. code \in {"none", "RESOURCE_REF_ENV_NOT_SET"} BY <2>3, ResolveCodeIs
    <2> QED BY <2>4, OtherCodes
  <1> HIDE DEF code, doc, refs, promised, mode
  <1>7. CASE code # "none"
    <2>1. Reject(j, c, code) BY <1>1, <1>7
    <2> QED BY <2>1, <1>2, <1>6, <1>7, RejectKept DEF mode, promised
  <1>8. CASE code = "none"
    <2>1. new = [c EXCEPT !.draft.doc = doc, !.refs = refs] BY <1>3, IdleIs
    <2> HIDE DEF draft
    <2>2. /\ DOMAIN new = DOMAIN Idle /\ new.pc = "resolve" /\ new.req = c.req /\ new.app = c.app
          /\ new.code = c.code
      BY <1>2, <1>3, IdleIs
    <2>3. Continue(j, new) BY <1>1, <1>8, <2>1
    <2> HIDE DEF new
    <2> DEFINE d == job'[j]
    <2>4. /\ d.pc = StageAfter(new.req.kind, new.pc) /\ d.req = new.req /\ d.app = new.app
          /\ d.code = new.code
      BY <2>2, <2>3, ContinueFields
    <2>5. c.req.kind = "compile" OBVIOUS
    <2> HIDE DEF d, c
    <2>6. d.pc = "done" BY <2>2, <2>4, <2>5, CompileStages
    <2>7. CompileKept(project, d) BY <2>2, <2>4, <2>6, <1>4 DEF CompileKept, TargetsKept
    <2>8. ProgramKept(d, child'[j]) BY <1>2 DEF ProgramKept
    <2>9. Consistent(project, d, child'[j]) BY <2>2, <2>4, <2>5, <2>7, <2>8, <1>4 DEF Consistent
    <2> QED BY <2>9 DEF d
  <1> QED BY <1>7, <1>8

LEMMA StartJobConsistent ==
  ASSUME IInv, NEW j \in Jobs, StartJob(j)
  PROVE  Consistent(project, job'[j], child'[j])
  <1>1. PICK r \in project.calls :
          LET app  == IF r.app = none /\ r.kind # "compose" /\ DOMAIN project.apps # {}
                      THEN CHOOSE a \in DOMAIN project.apps : TRUE ELSE r.app
              c    == [Idle EXCEPT !.req = r, !.app = app, !.pc = Stages[r.kind][1]]
              code == StartCode(r)
          IN  /\ job[j].pc = "idle"
              /\ job' = [job EXCEPT ![j] = IF code = "none" THEN c ELSE Ended(c, code)]
              /\ UNCHANGED <<project, child, before>>
    BY Zenon DEF StartJob
  <1> DEFINE app == IF r.app = none /\ r.kind # "compose" /\ DOMAIN project.apps # {}
                    THEN CHOOSE a \in DOMAIN project.apps : TRUE ELSE r.app
             first == Stages[r.kind][1]
             c == [Idle EXCEPT !.req = r, !.app = app, !.pc = first]
             code == StartCode(r)
             new == IF code = "none" THEN c ELSE Ended(c, code)
  <1>2. job[j].pc = "idle" /\ job'[j] = new /\ child' = child
    BY <1>1 DEF IInv, CallsProper
  <1>3. child'[j].state = "off" BY <1>2 DEF IInv, ChildrenAwaited, Extracting
  <1>4. r.kind \in {"compile", "check"} =>
          /\ code \in {"none", "NO_GATEWAY_APPS", "MULTIPLE_GATEWAY_APPS", "GATEWAY_APP_NOT_FOUND"}
          /\ first = "index"
          /\ code = "none" => app \in DOMAIN project.apps
    <2> SUFFICES ASSUME r.kind \in {"compile", "check"}
                 PROVE  /\ code \in {"none", "NO_GATEWAY_APPS", "MULTIPLE_GATEWAY_APPS",
                                     "GATEWAY_APP_NOT_FOUND"}
                        /\ first = "index"
                        /\ code = "none" => app \in DOMAIN project.apps
      OBVIOUS
    <2>1. code = Select(DOMAIN project.apps, r.app) BY DEF StartCode
    <2>2. first = "index" BY DEF Stages
    <2>3. code = "none" => DOMAIN project.apps # {} /\ (r.app # none => r.app \in DOMAIN project.apps)
      BY <2>1 DEF Select
    <2>4. code \in {"none", "NO_GATEWAY_APPS", "MULTIPLE_GATEWAY_APPS", "GATEWAY_APP_NOT_FOUND"}
      BY <2>1 DEF Select
    <2> QED BY <2>2, <2>3, <2>4
  <1> HIDE DEF app, first, code
  <1>5. Idle.failed = {} /\ Idle.exit = 0 BY DEF Idle
  <1>6. DOMAIN c = DOMAIN Idle /\ c.pc = first /\ c.req = r /\ c.app = app /\ c.parts = <<>>
        /\ c.code = "none" /\ c.failed = {} /\ c.exit = 0
    BY <1>5, IdleIs
  <1> HIDE DEF c
  <1>7. /\ new.req = r /\ new.app = app
        /\ code = "none" => new = c
        /\ code # "none" => new.pc = "done" /\ new.code = code /\ new.exit # 0
    BY <1>6, EndedFields
  <1> HIDE DEF new
  <1>8. ASSUME r.kind = "compile" PROVE CompileKept(project, new) /\ ProgramKept(new, child'[j])
    <2>1. code \notin CheckedCodes(project, app, ModeOf(project, r.envOnly))
          /\ "none" \notin CheckedCodes(project, app, ModeOf(project, r.envOnly))
      BY <1>4, <1>8, OtherCodes
    <2>2. ProgramKept(new, child'[j]) BY <1>3 DEF ProgramKept
    <2>3. CASE code = "none"
      <3>1. new.pc = "index" /\ new.code = "none" /\ new.parts = <<>> BY <1>4, <1>6, <1>7, <1>8, <2>3
      <3>2. CompileKept(project, new) BY <3>1, <1>7, <2>1 DEF CompileKept, TargetsKept
      <3> QED BY <3>2, <2>2
    <2>4. CASE code # "none"
      <3>1. CompileKept(project, new) BY <1>7, <2>1, <2>4 DEF CompileKept, TargetsKept
      <3> QED BY <3>1, <2>2
    <2> QED BY <2>3, <2>4
  <1>9. ASSUME r.kind = "check" PROVE CheckKept(project, new)
    <2>1. CASE code = "none"
      <3>1. new.pc = "index" /\ new.code = "none" /\ new.failed = {} /\ new.exit = 0
            /\ new.app \in DOMAIN project.apps
        BY <1>4, <1>6, <1>7, <1>9, <2>1
      <3> QED BY <3>1 DEF CheckKept
    <2>2. CASE code # "none" BY <1>7, <2>2 DEF CheckKept, Underway
    <2> QED BY <2>1, <2>2
  <1>10. Consistent(project, new, child'[j])
    BY <1>3, <1>7, <1>8, <1>9 DEF Consistent, ArtifactKept
  <1> QED BY <1>2, <1>10

(* Each step of a call keeps what it knows.                                  *)
LEMMA StepConsistent ==
  ASSUME IInv, NEW j \in Jobs, Consistent(project, job[j], child[j]),
         \/ StartJob(j) \/ Step(j) \/ SpawnFails(j) \/ ChildExits(j) \/ ChildCloses(j) \/ Timeout(j)
  PROVE  Consistent(project, job'[j], child'[j])
  <1> DEFINE c == job[j]
             Kept == Consistent(project, job'[j], child'[j])
             kind == c.req.kind
  <1>1. ASSUME StartJob(j) PROVE Kept BY <1>1, StartJobConsistent
  <1>2. ASSUME Step(j) \/ SpawnFails(j) \/ ChildExits(j) \/ ChildCloses(j) \/ Timeout(j),
               kind \notin {"compile", "check"}
        PROVE  Kept
    <2>1. job'[j].req = c.req BY <1>2, RequestKept
    <2>2. c.req \in project.calls
      <3>1. ASSUME NEW stage \in StageNames, At(j, stage) PROVE c.pc # "idle"
        BY <3>1 DEF At, StageNames
      <3>2. ASSUME Step(j) PROVE c.pc # "idle"
        <4>1. Obtain(j) \/ \E stage \in StageNames : At(j, stage)
          BY <3>2 DEF Step, ReadIndex, FindSources, CheckAuth, Merge, LoadOverrides,
                      ApplyNextRule, RulesApplied, NeedInfo, Resolve, StageNames
        <4>2. Obtain(j) => c.pc # "idle" BY DEF Obtain, Extracting
        <4> QED BY <4>1, <4>2, <3>1
      <3>3. ASSUME SpawnFails(j) \/ ChildExits(j) \/ ChildCloses(j) \/ Timeout(j)
            PROVE  c.pc # "idle"
        BY <3>3 DEF SpawnFails, ChildExits, ChildCloses, Timeout, IInv, ChildrenAwaited, Extracting
      <3> QED BY <3>2, <3>3, <1>2 DEF Consistent
    <2> QED BY <2>1, <2>2, <1>2 DEF Consistent
  <1>3. ASSUME SpawnFails(j) \/ ChildExits(j) \/ ChildCloses(j) \/ Timeout(j),
               kind \in {"compile", "check"}
        PROVE  Kept
    BY <1>3, ProcessConsistent
  <1>4. ASSUME Step(j), kind = "compile" PROVE Kept
    <2>1. ~FindSources(j) /\ ~NeedInfo(j)
      <3>1. ~At(j, "sources") /\ ~At(j, "info") BY <1>4, HasStage DEF Extracting
      <3> QED BY <3>1, Zenon DEF FindSources, NeedInfo
    <2>2. ReadIndex(j) => Kept BY <1>4, ReadIndexConsistent
    <2>3. Obtain(j) => Kept BY <1>4, ObtainConsistent
    <2>4. CheckAuth(j) => Kept BY <1>4, CheckAuthConsistent
    <2>5. Merge(j) => Kept BY <1>4, MergeConsistent
    <2>6. LoadOverrides(j) => Kept BY <1>4, LoadOverridesConsistent
    <2>7. ApplyNextRule(j) => Kept BY <1>4, ApplyNextRuleConsistent
    <2>8. RulesApplied(j) => Kept BY <1>4, RulesAppliedConsistent
    <2>9. Resolve(j) => Kept BY <1>4, ResolveConsistent
    <2> HIDE DEF Kept
    <2> QED BY <1>4, <2>1, <2>2, <2>3, <2>4, <2>5, <2>6, <2>7, <2>8, <2>9 DEF Step
  <1>5. ASSUME Step(j), kind = "check" PROVE Kept
    <2>1. ~Merge(j) /\ ~LoadOverrides(j) /\ ~ApplyNextRule(j) /\ ~RulesApplied(j) /\ ~NeedInfo(j)
          /\ ~Resolve(j)
      <3>1. ~At(j, "merge") /\ ~At(j, "overrides") /\ ~At(j, "rules") /\ ~At(j, "info")
            /\ ~At(j, "resolve")
        BY <1>5, HasStage DEF Extracting, Categories
      <3> QED BY <3>1, Zenon DEF Merge, LoadOverrides, ApplyNextRule, RulesApplied, NeedInfo, Resolve
    <2>2. ReadIndex(j) => Kept BY <1>5, ReadIndexConsistent
    <2>3. Obtain(j) => Kept BY <1>5, ObtainConsistent
    <2>4. CheckAuth(j) => Kept BY <1>5, CheckAuthConsistent
    <2>5. FindSources(j) => Kept BY <1>5, FindSourcesConsistent
    <2> HIDE DEF Kept
    <2> QED BY <1>5, <2>1, <2>2, <2>3, <2>4, <2>5 DEF Step
  <1> HIDE DEF Kept
  <1>6. Kept BY <1>1, <1>2, <1>3, <1>4, <1>5
  <1> QED BY <1>6 DEF Kept

LEMMA ProjectStays ==
  ASSUME NEW j \in Jobs,
         \/ StartJob(j) \/ Step(j) \/ SpawnFails(j) \/ ChildExits(j) \/ ChildCloses(j) \/ Timeout(j)
  PROVE  project' = project
  <1> DEFINE Same == project' = project
  <1>1. ASSUME NEW c, Continue(j, c) PROVE Same BY <1>1, Zenon DEF Continue
  <1>2. ASSUME NEW c, NEW code, Reject(j, c, code) PROVE Same BY <1>2, Zenon DEF Reject
  <1>3. ASSUME UNCHANGED project PROVE Same BY <1>3
  <1> HIDE DEF Same
  <1>4. ASSUME NEW got, Take(j, got) PROVE Same BY <1>1, <1>2, <1>3, <1>4, Zenon DEF Take
  <1>5. ASSUME StartJob(j) PROVE Same BY <1>3, <1>5, Zenon DEF StartJob
  <1>6. ASSUME Step(j) PROVE Same
    <2>1. ReadIndex(j) => Same BY <1>1, <1>2, Zenon DEF ReadIndex
    <2>2. Obtain(j) => Same BY <1>3, <1>4, Zenon DEF Obtain
    <2>3. FindSources(j) => Same BY <1>1, Zenon DEF FindSources
    <2>4. CheckAuth(j) => Same
      <3> DEFINE c == job[j]
                 code == AuthCode(c)
                 all == Count(c, code # "none")
      <3>1. ASSUME CheckAuth(j)
            PROVE  \/ Reject(j, c, code) \/ Continue(j, [all EXCEPT !.pc = "targets"])
                   \/ Continue(j, all) \/ Continue(j, c)
        BY <3>1, Zenon DEF CheckAuth
      <3> HIDE DEF code, all, c
      <3> QED BY <3>1, <1>1, <1>2
    <2>5. Merge(j) => Same BY <1>1, <1>2, Zenon DEF Merge
    <2>6. LoadOverrides(j) => Same BY <1>1, <1>2, Zenon DEF LoadOverrides
    <2>7. ApplyNextRule(j) => Same BY <1>2, <1>3, Zenon DEF ApplyNextRule
    <2>8. RulesApplied(j) => Same BY <1>1, Zenon DEF RulesApplied
    <2>9. NeedInfo(j) => Same BY <1>1, <1>2, Zenon DEF NeedInfo
    <2>10. Resolve(j) => Same BY <1>1, <1>2, Zenon DEF Resolve
    <2> QED BY <1>6, <2>1, <2>2, <2>3, <2>4, <2>5, <2>6, <2>7, <2>8, <2>9, <2>10 DEF Step
  <1>7. ASSUME SpawnFails(j) PROVE Same BY <1>4, <1>7, Zenon DEF SpawnFails
  <1>8. ASSUME ChildExits(j) PROVE Same BY <1>3, <1>8, Zenon DEF ChildExits
  <1>9. ASSUME ChildCloses(j) PROVE Same BY <1>4, <1>9, Zenon DEF ChildCloses
  <1>10. ASSUME Timeout(j) PROVE Same BY <1>4, <1>10, Zenon DEF Timeout
  <1>11. Same BY <1>5, <1>6, <1>7, <1>8, <1>9, <1>10
  <1> QED BY <1>11 DEF Same

LEMMA NextConsistent ==
  ASSUME IInv, AllConsistent, [Next]_vars
  PROVE  AllConsistent'
  <1>1. CASE UNCHANGED vars BY <1>1 DEF vars, AllConsistent
  <1>2. CASE Next
    <2>1. PICK j \in Jobs : \/ StartJob(j) \/ Step(j) \/ SpawnFails(j) \/ ChildExits(j)
                            \/ ChildCloses(j) \/ Timeout(j)
      BY <1>2 DEF Next
    <2>2. project' = project BY <2>1, ProjectStays
    <2>3. Consistent(project, job'[j], child'[j]) BY <2>1, StepConsistent DEF AllConsistent
    <2>4. ASSUME NEW k \in Jobs, k # j PROVE Consistent(project, job'[k], child'[k])
      <3>1. child'[k] = child[k] BY <2>1, <2>4, OtherChildren
      <3>2. job'[k] = job[k] BY <2>1, <2>4, OneCallSteps
      <3> QED BY <3>1, <3>2 DEF AllConsistent
    <2> QED BY <2>2, <2>3, <2>4 DEF AllConsistent
  <1> QED BY <1>1, <1>2

LEMMA InitConsistent == ASSUME Init PROVE AllConsistent
  <1>1. ASSUME NEW j \in Jobs PROVE job[j] = Idle /\ child[j].state = "off" BY DEF Init, NoChild
  <1>2. Idle.req.kind = "check" /\ Idle.pc = "idle" /\ Idle.code = "none" BY IdleIs
  <1>3. CheckKept(project, Idle) BY <1>2 DEF CheckKept, Underway
  <1>4. ASSUME NEW j \in Jobs PROVE Consistent(project, Idle, child[j])
    BY <1>1, <1>2, <1>3 DEF Consistent, ArtifactKept
  <1> QED BY <1>1, <1>4 DEF AllConsistent

LEMMA ConsistentPromise == ASSUME AllConsistent PROVE CheckPromise
  <1> SUFFICES ASSUME NEW j \in Jobs, NEW k \in Jobs,
                      job[j].pc = "done", job[j].req.kind = "check", job[j].exit = 0,
                      job[k].req.kind = "compile", job[k].app = job[j].app,
                      job[k].req.envOnly = job[j].req.envOnly,
                      LooksAtTheSame(project.apps[job[j].app])
               PROVE  job[k].code \notin CheckedCodes(project, job[j].app, job[j].mode)
    BY DEF CheckPromise
  <1> DEFINE c == job[j]
             d == job[k]
             app == project.apps[c.app]
  <1>1. CheckKept(project, c) /\ CompileKept(project, d) BY DEF AllConsistent, Consistent
  <1>2. /\ app.config = "empty" /\ \A v \in FieldRefs(app.doc) : v.form # "bare"
        /\ \A r \in Range(project.global.rules \o app.overrides.rules) : Plain(r)
    BY DEF LooksAtTheSame, Plain
  <1>3. Promised(project, c.app, c.req.envOnly) /\ c.mode = ModeOf(project, c.req.envOnly)
    BY <1>1, <1>2, CheckedPromise
  <1>4. d.app = c.app /\ d.req.envOnly = c.req.envOnly OBVIOUS
  <1> HIDE DEF c, d
  <1>5. d.code \notin CheckedCodes(project, c.app, c.mode) BY <1>1, <1>3, <1>4 DEF CompileKept
  <1> QED BY <1>5 DEF c, d

(* If `check` exits with 0, `compile` of the same app fails with none of     *)
(* CheckedCodes, however the two calls interleave, for every project whose   *)
(* files the two look at alike (LooksAtTheSame); a missing target of an      *)
(* override is one of these codes only in a project where no rule takes away *)
(* what a later one names (TargetsStay; cli/check.ts, overrides/apply.ts).   *)
THEOREM PromiseKept == Spec => []CheckPromise
  <1>1. Init => AllConsistent BY InitConsistent
  <1>2. IInv /\ AllConsistent /\ [Next]_vars => AllConsistent' BY NextConsistent
  <1>3. AllConsistent => CheckPromise BY ConsistentPromise
  <1> QED BY <1>1, <1>2, <1>3, Invariance, PTL DEF Spec
=============================================================================
