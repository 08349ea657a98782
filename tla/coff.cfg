SPECIFICATION CoffrSpec
CONSTANTS
  Base = 32
  Size = 240
  Calls <- MCCalls
  Totals = {1}
  Word = 8
  MaxProgs = 4
  MaxDepth = 2
  MaxWrites = 8
  Machines = {"x64", "arm64", "x86"}
  Reach <- MCReach
  Granule = 64
  BranchBits = 8
  CondBits = 6
  TestBits = 5
  AdrBits = 8
  PageBits = 4
  ShrinkThreshold = 3
  SmallCap = 2
  MinCap = 1
  Reserves <- MCReserves
  Objects <- AllObjects
INVARIANTS
  CoffrTypeOK
  LinkedAsWritten
  StubsWithinPool
  ViewsComplete
  SectionRelocsFit
  EstimateSuffices
  CacheSorted
  ReserveHolds
  SymbolsPointIntoProgram
PROPERTY
  ImplementsSectionMap
CHECK_DEADLOCK FALSE
