SPECIFICATION LiveSpec
CONSTANTS
  c1 = c1  c2 = c2
  Clients <- MCClients
  Requests <- MCRequests
  Length <- MCLength
  Number <- MCNumber
  Lower <- MCLower
INVARIANTS TypeOK IdsUnique
PROPERTIES GeneratedIsCurrent ImplementsStore RequestsAnswered
CHECK_DEADLOCK FALSE
