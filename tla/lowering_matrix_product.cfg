CONSTANTS
  MaxRank = 4
  Align = 2
  ByteSize = 8
  Word = 3
  ParamShapes <- MCFewShapes
  SimpleShapes <- MCSimpleShapes
  Contractions <- MCContractions
  MaxInsts <- MCMaxInsts
  MaxPins = 1
  MaxFailures = 1
  MaxLowerings = 1
SPECIFICATION Spec
PROPERTIES
  MatrixProductsAreContracted
CHECK_DEADLOCK FALSE
