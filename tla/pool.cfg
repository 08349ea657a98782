SPECIFICATION Spec
CONSTANTS
  Unit = 12
  MaxUnits = 2
  InitLen = 3
  InitAlign = 2
  Bases = {4, 7}
  Requests <- MCRequests
  Totals = {1, 2}
  Word = 8
  MaxSlabs = 3
  MaxProgs = 3
INVARIANTS
  TypeOK
  PrerequisitesSuffice
  InitBlobIntact
  PoolOwnsMapped
  GcIndexInBounds
  GcIsComplete
  UnmapIsSafe
PROPERTIES
  RetryFindsRoom
CHECK_DEADLOCK FALSE
