SPECIFICATION SizingSpec
CONSTANTS
  Word <- W
  Powers <- P2
  Modes <- AllModes
  Sizes <- BoundarySizes
  Alignments <- SomeAlignments
  Regions <- SomeRegions
  small_page_size = 16384
  SpanSizes = {65536, 131072}
INVARIANTS
  ClassIsExact
  BlocksApart
  BlockFits
  Aligned
  RefusedOnlyWhenFull
  SmearingRounds
