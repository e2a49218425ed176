SPECIFICATION Spec
CONSTANTS
  Records <- MCRecords
  MaxLimit = 2
  Tokens <- MCTokens
  Limits <- MCLimits
  Offsets <- MCOffsets
  Queries = {"", "Ivan"}
  OrderFields = {"", "Id", "Age", "Gender"}
  OrderBys <- MCOrderBys
INVARIANTS NextPageIffMore WalkCollectsOnce PagesAdvance
CHECK_DEADLOCK FALSE
