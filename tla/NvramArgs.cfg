CONSTANTS
  Keys <- Strings
  Values <- Strings
  SystemKeys <- PrefixedStrings
  NULL = NULL
  MaxOp = 2
  MaxArgs = 5
SPECIFICATION Spec
CHECK_DEADLOCK FALSE
INVARIANTS
  TypeOK
  ArgvAccounted
  NothingIgnored
