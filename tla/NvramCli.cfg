CONSTANTS
  p1 = p1
  p2 = p2
  i1 = i1
  i2 = i2
  sysKey = sysKey
  key1 = key1
  key2 = key2
  v1 = v1
  v2 = v2
  NULL = NULL
  NoInode = NoInode
  NoProc = NoProc
  SystemKeys <- TheSystemKeys
  Procs <- TwoProcs
  Inodes <- TwoInodes
  Retries = 2
  Keys <- AllKeys
  Values <- TwoValues
  Requests <- MixedRequests
SPECIFICATION CliSpec
SYMMETRY Symmetry
CHECK_DEADLOCK FALSE
INVARIANTS
  CliTypeOK
  CommitIsFresh
  PrefixSeparation
PROPERTY SerialUnlessStolen
