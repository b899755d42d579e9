SPECIFICATION MCSpec
CONSTANTS
  Texts <- MCTexts
  Deep = 5
  Wide = 4
  Anchored = 5
  Short = 3
  PeekLimit = 6
  SimpleKeyLimit = 4
  MaxFlowLevel = 2
  MaxIndents = 3
  Consistent = Consistent
  Spaces = {2, Consistent}
  Sequences = {"true", "false", "consistent", "whatever"}
INVARIANTS TypeOK TokensInOrder OpensWithItsFirst KeysAreShort NothingSkipped
  StackShape FollowsTheNesting JudgedOnce SilentMeansUniform
PROPERTIES HandedOutStays KeepsNesting
