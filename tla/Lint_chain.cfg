SPECIFICATION Spec
CONSTANTS
  Missing = Missing
  Budget = 4
  NumCPU = 1
  MaxIncludeRounds = 32
  File <- ChainFile
  Kind <- MCKind
  Content <- ChainContent
  Inside <- ChainInside
  Excluded <- ChainExcluded
  Before <- MCBefore
  Walk <- ChainWalk
  Size <- ChainSize
  Finding <- MCFinding
  Finds <- ChainFinds
INVARIANT FollowedToFixpoint
