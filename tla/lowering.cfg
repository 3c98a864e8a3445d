CONSTANTS
  MaxRank = 4
  Align = 2
  ByteSize = 8
  Word = 2
  ParamShapes <- MCParamShapes
  SimpleShapes <- MCSimpleShapes
  Contractions <- MCContractions
  MaxInsts <- MCMaxInsts
  MaxPins = 1
  MaxFailures = 1
  MaxLowerings = 1
SPECIFICATION Spec
CHECK_DEADLOCK FALSE
INVARIANTS
  BuildsAsAsked
  LoopsMeetElements
  FailuresAreReported
PROPERTIES
  ValidationIsExact
  SumsOfEqualRanksLower
