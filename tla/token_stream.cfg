CONSTANTS
  Capacity = 4
  MaxTokens = 11
SPECIFICATION StreamSpec
CHECK_DEADLOCK FALSE
INVARIANTS
  StreamIsKept
  ParserKeepsUp
  OneBlockTakesOnlyTokens
