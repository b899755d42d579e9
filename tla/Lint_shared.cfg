SPECIFICATION Spec
CONSTANTS
  Missing = Missing
  Budget = 4
  NumCPU = 3
  MaxIncludeRounds = 32
  File <- SharedFile
  Kind <- MCKind
  Content <- SharedContent
  Inside <- SharedInside
  Excluded <- SharedExcluded
  Before <- MCBefore
  Walk <- SharedWalk
  Size <- SharedSize
  Finding <- MCFinding
  Finds <- SharedFinds
INVARIANTS TypeOK IndInv BytesInFlight EachItemOnce FixpointWithinBound NothingLost
PROPERTIES RoundsSpec Termination
