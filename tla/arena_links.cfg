CONSTANTS
  s1 = s1
  s2 = s2
  s3 = s3
  s4 = s4
  Slab <- MCSlab
  Base <- MCBase
  NULL = NULL
  DefaultSlab = 64
  NoRecycle = FALSE
  Asan = TRUE
  AsanPadding = 16
  AsanGranularity = 8
  Sizes = {48, 72}
  Aligns = {8, 16}
  MaxLive = 3
  MaxScopes = 2
SPECIFICATION Spec
SYMMETRY MCSymmetry
INVARIANTS
  LinksAreSound
  RedzonesHold
PROPERTIES
  ImplementsArena
