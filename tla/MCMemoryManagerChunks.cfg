CONSTANTS
  AsSize = 6
  BaseStart = 1
  BaseEnd = 5
  States = {"Unmapped", "Heap"}
  Perms = {"R", "RW"}
  Attrs = {"none"}
  Reserved = "Reserved"
  Unmapped = "Unmapped"
  NoPerm = "none"
  NoAttr = "none"
  MaxChunks = 6
SPECIFICATION Spec
INVARIANTS TypeOK Tiled
PROPERTY Refinement
\* Inserts stop once the vector holds MaxChunks chunks (the model's bound).
CHECK_DEADLOCK FALSE
