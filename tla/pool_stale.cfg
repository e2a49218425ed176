SPECIFICATION SearchSpec
CONSTANTS
  c1 = c1  c2 = c2
  droid = droid  ie = ie  other = other
  Searches <- MCSearches
  Lines <- MCUsers
  Texts <- MCTexts
  Android <- MCAndroid
  MSIE <- MCMSIE
  NotString = odd
INVARIANTS FastMatchesSlow
CHECK_DEADLOCK FALSE
