SPECIFICATION Spec
CONSTANTS
  Names <- MCNames
  MaxLinks = 3
  Wild <- MCWild
  Before <- MCBefore
  World <- MCWorld
INVARIANTS TypeOK FindsWhatIsThere EachFileOnce SilentMeansWhole RootsInside
