SPECIFICATION Spec
CONSTANTS
  Texts <- Lines
  PeekLimit = 512
  SimpleKeyLimit = 1024
  MaxFlowLevel = 10000
  MaxIndents = 10000
PROPERTY Answers
