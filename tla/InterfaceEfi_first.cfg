CONSTANTS
  UINT32_MAX = 3
  Contents <- Lists
  Garbage = Garbage
  NoImage = NoImage
  NoBytes = NoBytes
SPECIFICATION FairSpec
PROPERTY FirstWriteSucceeds
