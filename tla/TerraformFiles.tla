--------------------------- MODULE TerraformFiles ---------------------------
(* What becomes of the resources the materializers return: extensions,     *)
(* outputs, and one generated file for every app (pilot/src/extensions,    *)
(* outputs, materialize).                                                  *)
(*                                                                         *)
(* A resource is [type, name, config, refs], refs the addresses its        *)
(* configuration mentions. A configuration is the function from the paths  *)
(* of its leaves to their values; an empty mapping is a leaf with the      *)
(* value EmptyMap, every other value a text. A product is [app, resource]. *)
EXTENDS Integers, Sequences, FiniteSets, SequencesExt, Functions, Subsequences

CONSTANTS
  IdlDomain,       \* the domain of the Terraform types that extensions can address
  Lowercase        \* the segments that match [a-z][a-z0-9_]*

ExtensionCodes == {"EXT_VERSION", "EXT_INVALID", "EXT_UNRESOLVED_TARGET", "EXT_DUPLICATE_TARGET"}
OutputCodes == {"OUT_INVALID", "OUT_RESERVED_PREFIX", "OUT_INVALID_VALUE", "OUT_UNRESOLVED_IDL",
                "OUT_DUPLICATE_NAME"}

EmptyMap == <<>>
EnvRef   == <<"{{$NAME}}">>

Address(r) == <<r.type, r.name>>

\* Names are sequences of segments; the pattern of logical names has no capitals.
LogicalName(name) == Range(name) \subseteq Lowercase

-----------------------------------------------------------------------------
(* Deep merge: a leaf of the patch replaces what the base has at, above or *)
(* below its place, except that an empty mapping leaves a mapping alone.   *)

Below(base, q) == \E p \in DOMAIN base : IsStrictPrefix(q, p)

DeepMerge(base, patch) ==
  LET applied == {q \in DOMAIN patch : ~(patch[q] = EmptyMap /\ Below(base, q))}
      kept    == {p \in DOMAIN base :
                    \A q \in DOMAIN patch :
                      /\ ~IsStrictPrefix(p, q)
                      /\ IsPrefix(q, p) => q \notin applied}
  IN  [p \in applied \cup kept |-> IF p \in applied THEN patch[p] ELSE base[p]]

-----------------------------------------------------------------------------
(* Logical names of resources.                                             *)

IdlFor(r) == <<IdlDomain[r.type], r.name>>

Addressable(resources) ==
  Only(resources, {r \in Range(resources) : r.type \in DOMAIN IdlDomain})

DuplicateIdls(resources) ==
  LET a == Addressable(resources)
  IN  {IdlFor(a[i]) : i \in {j \in DOMAIN a : \E k \in 1..j - 1 : IdlFor(a[k]) = IdlFor(a[j])}}

Idls(resources) == {IdlFor(r) : r \in Range(Addressable(resources))}

\* The first resource with this logical name.
ByIdl(resources, idl) ==
  LET a == Addressable(resources)
  IN  Only(a, {r \in Range(a) : IdlFor(r) = idl})[1]

-----------------------------------------------------------------------------
(* extensions.yaml: rules [target, patch, wellFormed].                     *)

\* A path is a list of keys.
IsRuleList(rules) ==
  /\ rules \in Seq(Range(rules))
  /\ \A rule \in Range(rules) : \A q \in DOMAIN rule.patch : q \in Seq(Range(q))

ParseExtensions(doc) ==
  IF doc.form = "absent" THEN "missing"
  ELSE IF doc.form = "version" THEN "EXT_VERSION"
  ELSE IF doc.form # "ok" \/ \E r \in Range(doc.rules) : ~r.wellFormed \/ ~LogicalName(r.target[2])
         THEN "EXT_INVALID"
  ELSE "ok"

RuleErrors(resources, rules) ==
  {<<"EXT_INVALID", idl>> : idl \in DuplicateIdls(resources)}
  \cup {<<"EXT_DUPLICATE_TARGET", rules[i].target>> :
          i \in {j \in DOMAIN rules : \E k \in 1..j - 1 : rules[k].target = rules[j].target}}
  \cup {<<"EXT_UNRESOLVED_TARGET", r.target>> :
          r \in {s \in Range(rules) : s.target \notin Idls(resources)}}

PatchResource(r, patch) == [r EXCEPT !.config = DeepMerge(@, patch)]

\* The patched resources in the order of the rules, then the untouched ones.
ApplyRules(resources, rules) ==
  LET errors  == RuleErrors(resources, rules)
      patched == [i \in DOMAIN rules |->
                    PatchResource(ByIdl(resources, rules[i].target), rules[i].patch)]
      targets == {r.target : r \in Range(rules)}
      untouched == {r \in Range(resources) : r.type \notin DOMAIN IdlDomain \/ IdlFor(r) \notin targets}
  IN  [errors    |-> {e[1] : e \in errors},
       resources |-> IF errors # {} THEN <<>>
                     ELSE patched \o Only(resources, untouched)]

-----------------------------------------------------------------------------
(* Grouping by app and serialization.                                      *)

\* Mutant: the first app of the list owns everything.
OwnerOfFirst(products, address) == Head(products).app

\* Two apps with a resource of one address: the last one owns it.
OwnerOf(products, address) ==
  Last(Only(products, {p \in Range(products) : Address(p.resource) = address})).app

\* What each app owns, in the order of the list.
Grouped(products, rules) ==
  LET plain   == [i \in DOMAIN products |-> products[i].resource]
      applied == ApplyRules(plain, rules)
  IN  IF rules = <<>> THEN [errors |-> {}, products |-> products]
      ELSE [errors   |-> applied.errors,
            products |-> [i \in DOMAIN applied.resources |->
                            [app |-> OwnerOf(products, Address(applied.resources[i])),
                             resource |-> applied.resources[i]]]]

ValidAddress(r) == r.name # <<>>

\* A later resource of one address replaces an earlier one of the same file.
SerializeResources(resources) ==
  [a \in {Address(r) : r \in Range(resources)} |->
     Last(Only(resources, {r \in Range(resources) : Address(r) = a})).config]

ResourcesOf(products, app) ==
  LET own == Only(products, {p \in Range(products) : p.app = app})
  IN  [i \in DOMAIN own |-> own[i].resource]

SerializeAppFile(products, app) ==
  [kind |-> "app", resources |-> SerializeResources(ResourcesOf(products, app)),
   moved |-> {}, outputs |-> <<>>]

MovedFile(moved) == [kind |-> "moved", resources |-> <<>>, moved |-> moved, outputs |-> <<>>]
OutputsFile(values) == [kind |-> "outputs", resources |-> <<>>, moved |-> {}, outputs |-> values]

MovedName   == <<"moved">>
OutputsName == <<"99-ycsf-outputs">>

-----------------------------------------------------------------------------
(* outputs.yaml: entries [name, ref, wellFormed] with ref a sequence that  *)
(* should be <<domain, name, property>>.                                   *)

ParseOutputs(doc) ==
  IF doc.form = "absent" THEN "missing"
  ELSE IF doc.form = "version" THEN "OUT_VERSION"
  ELSE IF doc.form # "ok" \/ \E e \in Range(doc.entries) : ~e.wellFormed \/ ~LogicalName(e.name)
         THEN "OUT_INVALID"
  ELSE "ok"

TypeOfDomain(domain) == CHOOSE t \in DOMAIN IdlDomain : IdlDomain[t] = domain

ReferenceError(resources, ref) ==
  IF Len(ref) # 3 THEN "OUT_INVALID_VALUE"
  ELSE IF ~LogicalName(ref[2]) THEN "OUT_INVALID_VALUE"
  ELSE IF <<ref[1], ref[2]>> \notin Idls(resources) THEN "OUT_UNRESOLVED_IDL"
  ELSE "none"

Reserved(name) == name[1] = "ycsf" /\ Len(name) > 1

UserErrors(resources, entries) ==
  {"OUT_RESERVED_PREFIX" : e \in {f \in Range(entries) : Reserved(f.name)}}
  \cup ({ReferenceError(resources, e.ref) :
           e \in {f \in Range(entries) : ~Reserved(f.name)}} \ {"none"})

\* auto is the sequence of [name, address] that the materializers declared.
AutoErrors(entries, auto) ==
  {"OUT_INVALID" : o \in {p \in Range(auto) : ~LogicalName(p.name)}}
  \cup {"OUT_DUPLICATE_NAME" :
          o \in {p \in Range(auto) : \E e \in Range(entries) : e.name = p.name}}

BuildOutputs(resources, entries, auto) ==
  LET errors == UserErrors(resources, entries) \cup AutoErrors(entries, auto)
      user(e) == <<TypeOfDomain(e.ref[1]), e.ref[2]>>
      names  == {e.name : e \in Range(entries)} \cup {o.name : o \in Range(auto)}
  IN  [errors |-> errors,
       values |-> IF errors # {} THEN <<>>
                  ELSE [n \in names |->
                          IF \E e \in Range(entries) : e.name = n
                          THEN user(CHOOSE e \in Range(entries) : e.name = n)
                          ELSE (CHOOSE o \in Range(auto) : o.name = n).address]]

=============================================================================
