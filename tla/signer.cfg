SPECIFICATION LiveSpec
CONSTANTS
  Input <- MCInput3
  Rank <- MCRank
  CycleNum = 2
INVARIANTS NeverOverheats NoSendOnClosed ResultIsReference
PROPERTIES PipelineEnds
CHECK_DEADLOCK FALSE
