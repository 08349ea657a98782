SPECIFICATION CoffrSpec
CONSTANTS
  Base = 32
  Size = 208
  Calls <- MCCalls
  Totals = {1}
  Word = 8
  MaxProgs = 4
  MaxDepth = 2
  MaxWrites = 8
  Machines = {"x64"}
  Reach <- MCReach
  Granule = 64
  BranchBits = 8
  CondBits = 6
  TestBits = 5
  AdrBits = 8
  PageBits = 4
  ShrinkThreshold = 3
  SmallCap = 2
  MinCap = 1
  Reserves <- MCReserves
  Objects <- UndercutObjects
INVARIANTS
  CommittedNotOverwritten
CHECK_DEADLOCK FALSE
