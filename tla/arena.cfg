CONSTANTS
  s1 = s1
  s2 = s2
  s3 = s3
  Slab <- MCSlab
  Base <- MCBase
  NULL = NULL
  DefaultSlab = 64
  NoRecycle = FALSE
  Asan = FALSE
  AsanPadding = 16
  AsanGranularity = 8
  Sizes = {25, 72}
  Aligns = {1, 32}
  MaxLive = 3
  MaxScopes = 2
SPECIFICATION Spec
INVARIANTS
  LiveBlocksDisjoint
  LiveBlocksInSlab
  NoSlabLost
PROPERTIES
  PopRestoresTop
  HoldsNoMoreThanPeak
  KeepsPromise
