SPECIFICATION RelcarSpec
CONSTANTS
  Base = 32
  Size = 44
  Calls = {}
  Totals = {1}
  Word = 8
  MaxProgs = 3
  MaxDepth = 2
  MaxWrites = 1
  Platforms = {"linux", "windows", "macos"}
  Builds = {"debug", "release"}
  RwBase <- MCRwBase
  Half = 128
  HalfBranch = 32
  Blobs <- MCBlobs
INVARIANT
  CallsReachTarget
CHECK_DEADLOCK FALSE
