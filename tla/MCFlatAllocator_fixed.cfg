CONSTANTS
  VaLimit = 5
  VaStart = 1
  Sizes = {1, 2}
SPECIFICATION Spec
PROPERTY AllocReturnsFreeRange
CHECK_DEADLOCK FALSE
