SPECIFICATION ReportSpec
CONSTANTS
  Empty = Empty
  Bare = Empty
  Rule <- MCRule
  Sub <- MCSub
  OptIn <- MCOptIn
  Pool <- MCPool
  MaxArrivals = 4
  SelectionPool <- MCPolicy
  IgnorePool <- MCIgnoreFile
INVARIANTS MidPipelineTieFree NoDuplicatesTieFree ReportedIsEnabledBare SkipThenEnable
PROPERTY ScheduleFree
CHECK_DEADLOCK FALSE
