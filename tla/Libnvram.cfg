CONSTANTS
  Keys <- MCKeys
  Values <- MCValues
  NoValue = NoValue
SPECIFICATION Spec
INVARIANTS
  TypeOK
  UniqueKeys
  RoundTrip
  SizeExact
  IteratorAgrees
  ListComplete
  GetAnswers
  SilentSuccess
PROPERTIES
  ListIsMap
  OrderKept
