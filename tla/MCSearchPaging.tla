-------------------------- MODULE MCSearchPaging --------------------------
(* Five records, two of them of one age, and pages of at most two.          *)
EXTENDS SearchPaging, TLC

MCRecords == {
  [Id |-> 1, Age |-> 30, Name |-> 2], [Id |-> 2, Age |-> 20, Name |-> 5],
  [Id |-> 3, Age |-> 30, Name |-> 1], [Id |-> 4, Age |-> 40, Name |-> 3],
  [Id |-> 5, Age |-> 10, Name |-> 4]}

MCTokens == {"Token_OK", "Token_Bad", "InternalError", "BadErrorJSON", "BadBodyJSON", "TimeOut"}
MCLimits == -1 .. 4
MCOrderBys == {-1, 0, 1, 2}
MCOffsets == {-1, 0, 1, 4, 5, 6}
=============================================================================
