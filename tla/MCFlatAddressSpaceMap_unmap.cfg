CONSTANTS
  VaLimit = 5
  VaStart = 1
  UnmappedPa = 0
  PaContigSplit = TRUE
  PhysValues = {10, 20}
  ExtraValues = {"plain", "sparse"}
  NoExtra = "plain"
SPECIFICATION Spec
PROPERTY Refinement
CHECK_DEADLOCK FALSE
