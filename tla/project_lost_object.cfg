SPECIFICATION Spec
CONSTANTS
  none = none
  NoTarget = none
  Alphabet <- MCAlphabet
  PackageKind <- MCPackageKind
  AppDomain <- MCAppDomain
  IdlDomain <- MCIdlDomain
  Lowercase <- MCLowercase
  Supports <- MCSupports
  FileOrder <- MCFileOrder
  Projects <- MCCollision
  Versions <- MCVersions
  Builds <- MCBuilds
  TfType <- MCTfType
  Targets <- MCTargets
  MaxCommands = 2
  MaxEdits = 0
  MaxFaults = 0
INVARIANTS NoTypeCollision
CHECK_DEADLOCK FALSE
