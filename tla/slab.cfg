SPECIFICATION Spec
CONSTANTS
  Base = 6
  Size = 7
  Calls <- MCCalls
  Totals <- MCTotals
  Word = 8
  MaxProgs = 3
  MaxDepth = 2
  MaxWrites = 2
INVARIANTS
  TypeOK
  Ledger
  FreeIsSafe
  ReleaseFindsCount
  WithinSlab
  LiveCodeIntact
  Watermarks
CHECK_DEADLOCK FALSE
