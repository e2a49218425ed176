SPECIFICATION ServiceSpec
CONSTANTS
  a = a  b = b  c = c
  Services <- MCThree
  BadAcl <- MCThird
  Finished <- MCTwo
  MayFail <- MCThree
  admin = admin  adminManager = adminManager  biz = biz  check = check
  ann = ann  bob = bob  star = star
  Symbols <- MCSymbols
  Names <- MCNames
  Known <- MCKnown
  Methods <- MCMethods
  Patterns <- MCPatterns
  MaxPatterns = 2
  MaxNames = 2
  Star = star
  Rename <- MCRename
INVARIANTS
  AcceptingHoldsPort StoppedFreesPort
  HandlerOnlyIfGranted RefusedOnlyIfNotGranted PanicsOnlyOnEmptyPattern
PROPERTIES FinishCleansUp ServeErrorCleansUp
CHECK_DEADLOCK FALSE
