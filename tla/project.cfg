SPECIFICATION Spec
CONSTANTS
  none = none
  NoTarget = none
  Alphabet <- MCAlphabet
  PackageKind <- MCPackageKind
  AppDomain <- MCAppDomain
  IdlDomain <- MCIdlDomain
  Lowercase <- MCLowercase
  Supports <- MCSupports
  FileOrder <- MCFileOrder
  Projects <- MCProjects
  Versions <- MCVersions
  Builds <- MCBuilds
  TfType <- MCTfType
  Targets <- MCTargets
  MaxCommands = 3
  MaxEdits = 1
  MaxFaults = 1
INVARIANTS
    BuildOrder
    GeneratedExactly
    MovesLead
    NothingDangles
    CheckAgrees
CHECK_DEADLOCK FALSE
