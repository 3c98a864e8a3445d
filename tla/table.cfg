CONSTANTS
  NULL = NULL
  Key <- MCKey
  Cmp <- MCCmp
  Fp <- MCFp
  Home <- MCHome
  Blocks = 2
  Width = 2
SPECIFICATION Spec
INVARIANTS
  LookupsAreExact
  RefusedOnlyWhenFull
  IterationComplete
PROPERTIES
  ImplementsSlotMap
