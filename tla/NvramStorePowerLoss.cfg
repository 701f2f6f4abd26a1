CONSTANTS
  empty = empty
  l1 = l1
  Garbage = Garbage
  NoList = NoList
  EmptyList = empty
  Contents <- MCContents
  UINT32_MAX = 3
  Devices <- TwoSections
SPECIFICATION PowerSpec
INVARIANTS
  OneGoodSection
  PowerLossIsAtomic
