SPECIFICATION AstlSpec
CONSTANTS
  Missing = Missing
  Empty = Empty
  Bare = Empty
  MaxSoft = 1
  Budget = 2
  NumCPU = 2
  MaxIncludeRounds = 32
  File <- MCFile
  Kind <- MCKind
  Content <- MCContent
  Inside <- MCFile
  Excluded = {}
  Before <- MCBefore
  Walk <- MCWalk
  Size <- MCSize
  Finding <- MCFinding
  Finds <- MCFinds
  Rule <- MCRule
  Sub <- MCSub
  OptIn <- MCOptIn
  Option <- MCOption
  Policy <- MCPolicy
  IgnoreFile <- MCIgnoreFile
INVARIANTS AstlTypeOK ExitCodeIsHonest ReportInOrder ErrorsPrintNothing
PROPERTY EventuallyExits
