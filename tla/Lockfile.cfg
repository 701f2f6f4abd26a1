CONSTANTS
  p1 = p1
  p2 = p2
  p3 = p3
  i1 = i1
  i2 = i2
  i3 = i3
  NoInode = NoInode
  NoProc = NoProc
  Procs <- ThreeProcs
  Inodes <- ThreeInodes
  Retries = 10
SPECIFICATION Spec
CHECK_DEADLOCK FALSE
INVARIANTS
  TypeOK
  ExclusiveUnlessStolen
  RaceNeedsThird
PROPERTIES
  WaitsForHolder
  AcquireReturns
