SPECIFICATION Spec
CONSTANTS
  c1 = c1  c2 = c2  c3 = c3
  droid = droid  ie = ie  both = both  other = other  odd = odd
  Searches <- MCSearches
  Lines <- MCLines
  Texts <- MCTexts
  Android <- MCAndroid
  MSIE <- MCMSIE
  NotString = odd
  Outs <- MCOuts
  Types <- MCTypes
  Data <- MCData
  Values <- MCValues
  Zero <- MCZero
  Fits <- MCFits
  Merged <- MCMerged
  PartlyMerged <- MCPartlyMerged
  x = x  y = y  z = z
  Trees <- MCTrees
  Changes <- MCChanges
  Rank <- MCRank
  MaxChanges = 2
  MaxDepth = 3
INVARIANTS FreshCallPrintsReference DecodesWhatFits ErrorLeavesPrefix LinesDrawTree WalkFindsWhatWasThere
CHECK_DEADLOCK FALSE
