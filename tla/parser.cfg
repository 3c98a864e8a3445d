CONSTANTS
  Beginnings <- MCBeginnings
  MaxTokens = 7
  MaxErrors = 2
SPECIFICATION Spec
CHECK_DEADLOCK FALSE
INVARIANTS
  RefStackIsSound
  TreeIsFaithful
  HaltsOnErrorsOnly
PROPERTIES
  Terminates
