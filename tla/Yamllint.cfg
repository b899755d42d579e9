SPECIFICATION Spec
CONSTANTS
  f1 = f1
  f2 = f2
  f3 = f3
  w1 = w1
  w2 = w2
  NoConf = NoConf
  NoFile = NoFile
  Worker = {w1, w2}
  File <- ThreeFiles
  Content <- MCContent
  Options <- MCOptions
  Inputs <- MCInputs
INVARIANTS TypeOK WindowIsStream LinterIsOwned
PROPERTY KeepsPromise
