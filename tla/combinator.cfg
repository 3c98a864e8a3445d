CONSTANTS
  a = a
  b = b
  Name <- MCName
  Type <- MCTypes
  KnownTypes <- MCOneType
  Operators <- MCOperators
  MaxArgs = 2
  MaxSize = 6
  MaxParams = 1
  MaxOperands = 1
SYMMETRY MCNames
SPECIFICATION Spec
CHECK_DEADLOCK FALSE
INVARIANTS
  CountsSuffice
  NamesAreLexical
  NothingEscapes
  CompleteUnlessError
