SPECIFICATION Spec
CONSTANTS
  c1 = c1  c2 = c2
  Schemas <- MCSchemas
  Clients <- MCClients
  Requests <- MCRequests
  MaxId = 3
INVARIANTS RowsWellTyped
PROPERTIES IdsNeverReused OnlyNamedRecordChanges
SYMMETRY MCSymmetry
CHECK_DEADLOCK FALSE
