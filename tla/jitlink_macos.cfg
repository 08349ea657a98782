SPECIFICATION JitSpec
CONSTANTS
  Base = 6
  Size = 15
  Calls <- MCCalls
  Totals = {0, 1, 2}
  Word = 8
  MaxProgs = 4
  MaxDepth = 2
  MaxWrites = 3
  OneView = TRUE
  RwBase = 6
  Windows = FALSE
  Answers = {50, 60}
  Graphs <- MCGraphs
INVARIANTS
  WritesPermitted
CHECK_DEADLOCK FALSE
