CONSTANTS
  Keys <- Strings
  Values <- Strings
  SystemKeys <- PrefixedStrings
  NULL = NULL
  MaxOp = 2
  MaxArgs = 3
SPECIFICATION Spec
CHECK_DEADLOCK FALSE
INVARIANT UnlockNeedsMagic
