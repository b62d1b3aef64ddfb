SPECIFICATION Spec
CONSTANTS
  none = none
  Jobs = {j1, j2}
  Environment = {"FN_ID"}
  Projects <- MCProjects
INVARIANTS
  ProvenanceMatches ReferencesDeclared CheckPromise EnvScoped
PROPERTIES
  LocalRulesStayHome CallsEnd
CHECK_DEADLOCK FALSE
