CONSTANTS
  UINT32_MAX = 3
  Contents <- Lists
  Garbage = Garbage
  NoImage = NoImage
  NoBytes = NoBytes
SPECIFICATION Spec
INVARIANT ImmutableAtRest
PROPERTY EfiIsSection
