CONSTANTS
  UINT32_MAX = 3
  Contents <- Lists
  Garbage = Garbage
  NoImage = NoImage
  NoBytes = NoBytes
  NoDevice = NoDevice
  Highest = 1
  PartSize = 3
SPECIFICATION Spec
CHECK_DEADLOCK FALSE
INVARIANT ProtectedAtRest
PROPERTIES
  OtherPartitionsKept
  MtdIsSection
