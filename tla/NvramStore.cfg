CONSTANTS
  empty = empty
  l1 = l1
  l2 = l2
  Garbage = Garbage
  NoList = NoList
  EmptyList = empty
  Contents <- MCContents
  UINT32_MAX = 4
  Devices <- TwoSections
SYMMETRY Symmetry
SPECIFICATION Spec
INVARIANTS
  TypeOK
  OneGoodSection
  TieSameData
  CountersInStep
  HandleCurrent
PROPERTIES
  NeverBlank
  CommitIsAtomic
