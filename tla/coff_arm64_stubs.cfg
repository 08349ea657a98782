SPECIFICATION CoffrSpec
CONSTANTS
  Base = 32
  Size = 208
  Calls <- MCCalls
  Totals = {1, 2}
  Word = 8
  MaxProgs = 4
  MaxDepth = 2
  MaxWrites = 8
  Machines = {"arm64"}
  Reach <- MCReach
  Granule = 64
  BranchBits = 8
  CondBits = 6
  TestBits = 5
  AdrBits = 8
  PageBits = 4
  ShrinkThreshold = 3
  SmallCap = 2
  MinCap = 1
  Reserves <- MCReserves
  Objects <- ArmFarObjects
INVARIANTS
  LinkedAsWritten
CHECK_DEADLOCK FALSE
