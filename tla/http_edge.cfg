SPECIFICATION Spec
CONSTANTS
  Texts <- MCTexts
  LowerCase <- MCLowerCase
  Clients <- MCClients
  Apps <- MCApps
INVARIANTS
    RequestArrives
    RightRoute
    ResponseArrives
    OneTerminalRecord
CHECK_DEADLOCK FALSE
