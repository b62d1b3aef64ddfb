---------------------------- MODULE ResourceRefs ----------------------------
(* Logical resource references of the composer (composer/src/resource): the  *)
(* index that resources.yaml and the identities of the apps give, the names  *)
(* of environment variables that env.yaml gives, and the resolution of one   *)
(* value. A file is [form, ...]; form is "absent", "broken" or "ok".         *)
EXTENDS Sequences, FiniteSets, SequencesExt, TLC

RefCodes == {"RESOURCE_REF_INVALID_YAML", "RESOURCE_REF_DOMAIN_UNKNOWN",
             "RESOURCE_REF_PROPERTY_INVALID", "RESOURCE_REF_IDENTITY_COLLISION",
             "RESOURCE_REF_NOT_DECLARED", "RESOURCE_REF_SYNTAX_INVALID", "RESOURCE_REF_ENV_NOT_SET",
             "RESOURCE_REF_ENV_DEFAULT_UNSUPPORTED", "RESOURCE_REF_ENV_UNDECLARED_RESOURCE",
             "RESOURCE_REF_ENV_MODE_INVALID"}

ResourceDomains == {"functions", "queues", "buckets", "containers", "gateways"}

DomainProperties == [d \in ResourceDomains |->
  CASE d = "queues" -> "qurl" [] d = "buckets" -> "name" [] OTHER -> "id"]

\* A string by what TEMPLATE_RE, BARE_FUNCTION_ID_RE and the prefix ${resources. make of it.
Value(form, domain, name, property) ==
  [form |-> form, domain |-> domain, name |-> name, property |-> property]
Template(domain, name, property) == Value("template", domain, name, property)
Bare(name) == Value("bare", "functions", name, "id")
Literal(text) == Value("literal", "", text, "")

Identity(value) == <<value.domain, value.name, value.property>>

-----------------------------------------------------------------------------
(* The index: the set of <<domain, name, property>> that may be referred to. *)
(* An entry of resources.yaml is [domain, name, properties]; a name without  *)
(* properties has those of its domain.                                       *)

Declared(index, domain, name) == \E i \in index : i[1] = domain /\ i[2] = name

Names(index, domain) == {i[2] : i \in {j \in index : j[1] = domain}}

EntryCode(e) ==
  IF e.domain \notin ResourceDomains THEN "RESOURCE_REF_DOMAIN_UNKNOWN"
  ELSE IF ~(e.properties \subseteq {DomainProperties[e.domain]}) THEN "RESOURCE_REF_PROPERTY_INVALID"
  ELSE "none"

\* The first code that is one, or "none".
FirstCode(codes) ==
  LET bad == {i \in DOMAIN codes : codes[i] # "none"}
  IN  IF bad = {} THEN "none" ELSE codes[Min(bad)]

Twice(entries) ==
  \E i, j \in DOMAIN entries :
    i # j /\ entries[i].domain = entries[j].domain /\ entries[i].name = entries[j].name

ParseResourceIndex(file) ==
  LET code == IF file.form = "absent" THEN "none"
              ELSE IF file.form = "broken" THEN "RESOURCE_REF_INVALID_YAML"
              ELSE IF Twice(file.entries) THEN "RESOURCE_REF_IDENTITY_COLLISION"
              ELSE FirstCode([i \in DOMAIN file.entries |-> EntryCode(file.entries[i])])
  IN  [code  |-> code,
       index |-> IF code # "none" \/ file.form = "absent" THEN {}
                 ELSE {<<e.domain, e.name, DomainProperties[e.domain]>> : e \in Range(file.entries)}]

\* The identities of the sibling apps, after the external resources.
MergeResourceIndex(index, identities) ==
  LET code(i) ==
        LET a == identities[i]
        IN  IF a.domain \notin ResourceDomains THEN "RESOURCE_REF_DOMAIN_UNKNOWN"
            ELSE IF Declared(index, a.domain, a.app)
                      \/ \E j \in 1..i - 1 : identities[j] = a
            THEN "RESOURCE_REF_IDENTITY_COLLISION" ELSE "none"
      first == FirstCode([i \in DOMAIN identities |-> code(i)])
  IN  [code  |-> first,
       index |-> IF first # "none" THEN {}
                 ELSE index \cup {<<a.domain, a.app, DomainProperties[a.domain]>> :
                                    a \in Range(identities)}]

-----------------------------------------------------------------------------
(* env.yaml: [form, mode, entries]; an entry is [identity, variable,         *)
(* default]. It is read against resources.yaml alone.                        *)

EnvCode(index, e) ==
  IF e.identity[1] \notin ResourceDomains THEN "RESOURCE_REF_DOMAIN_UNKNOWN"
  ELSE IF e.default THEN "RESOURCE_REF_ENV_DEFAULT_UNSUPPORTED"
  ELSE IF e.identity \notin index THEN "RESOURCE_REF_ENV_UNDECLARED_RESOURCE"
  ELSE "none"

ParseEnvMapping(file, index) ==
  LET code == IF file.form = "absent" THEN "none"
              ELSE IF file.form = "broken" THEN "RESOURCE_REF_INVALID_YAML"
              ELSE IF file.mode \notin {"compose", "env-only"} THEN "RESOURCE_REF_ENV_MODE_INVALID"
              ELSE FirstCode([i \in DOMAIN file.entries |-> EnvCode(index, file.entries[i])])
      use  == code = "none" /\ file.form = "ok"
  IN  [code |-> code,
       mode |-> IF use THEN file.mode ELSE "compose",
       variable |-> IF use THEN [i \in {e.identity : e \in Range(file.entries)} |->
                                   (CHOOSE e \in Range(file.entries) : e.identity = i).variable]
                    ELSE <<>>]

-----------------------------------------------------------------------------
(* One reference                                                             *)

\* "none": the reference is valid, or the string is no reference.
ValidateResourceReference(value, index) ==
  IF value.form = "malformed" THEN "RESOURCE_REF_SYNTAX_INVALID"
  ELSE IF value.form # "template" THEN "none"
  ELSE IF value.domain \notin ResourceDomains THEN "RESOURCE_REF_DOMAIN_UNKNOWN"
  ELSE IF ~Declared(index, value.domain, value.name) THEN "RESOURCE_REF_NOT_DECLARED"
  ELSE IF Identity(value) \notin index THEN "RESOURCE_REF_PROPERTY_INVALID"
  ELSE "none"

Resolved(code, value) == [code |-> code, value |-> value]

\* A variable that env.yaml names and the environment sets, else the canonical
\* template; with is [index, variable, environment].
ResolveScalar(value, with) ==
  LET template == IF value.form = "bare" THEN Template("functions", value.name, "id") ELSE value
      code     == ValidateResourceReference(template, with.index)
      name     == with.variable[Identity(template)]
  IN  CASE template.form # "template" -> Resolved("none", value)
        [] template.form = "template" /\ code # "none" -> Resolved(code, value)
        [] template.form = "template" /\ code = "none" ->
             IF Identity(template) \notin DOMAIN with.variable THEN Resolved("none", template)
             ELSE IF name \in with.environment THEN Resolved("none", Literal(name))
             ELSE Resolved("RESOURCE_REF_ENV_NOT_SET", value)
=============================================================================
