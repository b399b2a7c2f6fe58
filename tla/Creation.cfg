SPECIFICATION Spec
CONSTANTS
  Inputs <- MCInputs
  Paths <- MCPaths
  Lengths = {0, 1, 2, 5}
  MaxChanges = 1
  Threads = 2
  Threshold = 2
  Chunk = 2
  Budget = 3
  SparseMinimum = 2
  Piece = 2
  Held = 3
  Block = 2
INVARIANTS
  TypeOK
  EntriesAreSources
  HeldIsBounded
  StreamIsWhole
  Complete
  HardLinksNameTheFile
CHECK_DEADLOCK FALSE
