SPECIFICATION Spec
CONSTANTS
  Base = 6
  Size = 7
  Calls <- MCCalls
  Totals <- MCTotals
  Word = 8
  MaxProgs = 3
  MaxDepth = 2
  MaxWrites = 2
INVARIANTS
  LiveCodeFlushed
CHECK_DEADLOCK FALSE
