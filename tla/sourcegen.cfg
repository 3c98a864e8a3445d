CONSTANTS
  Slots <- MCSlots
  None = None
  Unit = Unit
  Symbol = Symbol
  Languages <- MCLanguages
  TypeDecls <- MCTypeDecls
  OperatorDecls <- MCOperatorDecls
  CombinatorNames <- MCCombinatorNames
  ArgLists <- MCArgLists
  Statements <- MCStatements
  MaxSize = 6
  MaxFaultySize = 3
  MaxStatements = 2
SPECIFICATION Spec
CHECK_DEADLOCK FALSE
INVARIANTS
  ReportsExactly
  HaltsForAReason
  ReferencesHold
  StreamsAreWritten
