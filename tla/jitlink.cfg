SPECIFICATION JitSpec
CONSTANTS
  Base = 6
  Size = 15
  Calls <- MCCalls
  Totals = {0, 1, 2}
  Word = 8
  MaxProgs = 4
  MaxDepth = 2
  MaxWrites = 3
  OneView = FALSE
  RwBase = 100
  Windows = TRUE
  Answers = {50, 60}
  Graphs <- MCGraphs
INVARIANTS
  NoErrorMeansFinalized
  ReturnedAddressesValid
  SlicesContiguous
  ImageBaseBelow
PROPERTIES
  AllOrNothing
CHECK_DEADLOCK FALSE
