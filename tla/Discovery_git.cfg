SPECIFICATION Spec
CONSTANTS
  Names <- MCNames
  MaxLinks = 3
  Wild <- MCWild
  Before <- MCBefore
  World <- MCReincluded
INVARIANT GitWouldKeepIt
