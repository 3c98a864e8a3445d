CONSTANTS
  Capacity = 4
  MaxTokens = 6
SPECIFICATION StreamSpec
INVARIANTS
  TakesOnlyTokens
CHECK_DEADLOCK FALSE
