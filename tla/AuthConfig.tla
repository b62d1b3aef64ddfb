----------------------------- MODULE AuthConfig -----------------------------
(* auth.yaml of a composition (composer/src/auth): [form, default, schemes], *)
(* where schemes is a sequence of [name, type, complete, function], complete *)
(* says that the fields its type asks for are there, and function is the     *)
(* authorizer's reference as a value of ResourceRefs.                        *)
EXTENDS ResourceRefs

CONSTANT none        \* what is not given: an operationId, an app, a list of functions

AuthCodes == {"AUTH_FILE_MISSING", "AUTH_FILE_INVALID_YAML", "AUTH_DUPLICATE_SCHEME",
              "AUTH_SCHEMES_EMPTY", "AUTH_DEFAULT_UNRESOLVED", "AUTH_UNKNOWN_SCHEME_TYPE",
              "AUTH_MISSING_FIELD", "AUTH_FUNCTION_INVALID_REF", "AUTH_FUNCTION_UNRESOLVED",
              "AUTH_FUNCTION_SET_REQUIRED",
              "AUTH_SECURITY_UNDECLARED", "AUTH_SECURITY_PUBLIC_VIOLATION"}

SchemeTypes == {"none", "jwt", "function"}

SchemeNames(auth) == {s.name : s \in Range(auth.schemes)}

SchemeOf(auth, name) == CHOOSE s \in Range(auth.schemes) : s.name = name

SchemeCode(s) ==
  IF s.type \notin SchemeTypes THEN "AUTH_UNKNOWN_SCHEME_TYPE"
  ELSE IF s.type # "none" /\ ~s.complete THEN "AUTH_MISSING_FIELD"
  ELSE "none"

ParseAuthYaml(auth) ==
  IF auth.form = "absent" THEN "AUTH_FILE_MISSING"
  ELSE IF auth.form = "broken" THEN "AUTH_FILE_INVALID_YAML"
  ELSE IF Cardinality(SchemeNames(auth)) # Len(auth.schemes) THEN "AUTH_DUPLICATE_SCHEME"
  ELSE IF auth.schemes = <<>> THEN "AUTH_SCHEMES_EMPTY"
  ELSE IF auth.default \notin SchemeNames(auth) THEN "AUTH_DEFAULT_UNRESOLVED"
  ELSE FirstCode([i \in DOMAIN auth.schemes |-> SchemeCode(auth.schemes[i])])

\* All references are parsed before the first is looked up.
ValidateFunctionReferences(auth, functions) ==
  LET parsed(t) == IF t.type # "function" \/ t.function.form = "bare" THEN "none"
                   ELSE "AUTH_FUNCTION_INVALID_REF"
      found(t) == IF t.type # "function" THEN "none"
                  ELSE IF functions = none THEN "AUTH_FUNCTION_SET_REQUIRED"
                  ELSE IF t.function.name \in functions THEN "none"
                  ELSE "AUTH_FUNCTION_UNRESOLVED"
      s(i) == auth.schemes[i]
  IN  FirstCode([i \in DOMAIN auth.schemes |-> parsed(s(i))]
                \o [i \in DOMAIN auth.schemes |-> found(s(i))])

\* The scheme names in the security of the document and of its operations.
SecurityEntries(doc) ==
  doc.security \cup UNION {UNION {doc.paths[p][m].security : m \in DOMAIN doc.paths[p]} :
                             p \in DOMAIN doc.paths}

ValidateSecurityReferences(doc, auth) ==
  IF ~(SecurityEntries(doc) \subseteq SchemeNames(auth)) THEN "AUTH_SECURITY_UNDECLARED"
  ELSE IF "public" \in SecurityEntries(doc) THEN "AUTH_SECURITY_PUBLIC_VIOLATION"
  ELSE "none"

\* validateAuthConfig: the file, its function references, the security of the document.
ValidateAuthConfig(auth, doc, functions) ==
  LET parsed == ParseAuthYaml(auth)
      refs   == ValidateFunctionReferences(auth, functions)
  IN  IF parsed # "none" THEN parsed
      ELSE IF refs # "none" THEN refs ELSE ValidateSecurityReferences(doc, auth)
=============================================================================
