CONSTANTS
  UINT32_MAX = 4
  Contents <- Lists
  Garbage = Garbage
  NoImage = NoImage
  NoBytes = NoBytes
SPECIFICATION Spec
PROPERTY FileIsSection
