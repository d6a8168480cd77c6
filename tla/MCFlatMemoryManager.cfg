CONSTANTS
  VaLimit = 4
  VaStart = 1
  UnmappedPa = 0
  PaContigSplit = TRUE
  PhysValues = {10}
  ExtraValues = {"plain", "sparse"}
  NoExtra = "plain"
  Data = {0, 1}
  SparseExtra = "sparse"
  SparseMapSize = 2
  ZeroPage = 100
  MaxAccess = 2
SPECIFICATION MapAccessSpec
INVARIANTS TypeOK NoFault Sorted
PROPERTIES MapRefinement ReadReturnsContent WriteStoresData CopyMovesContent TranslateMatchesView
