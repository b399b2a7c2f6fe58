SPECIFICATION Spec
CONSTANTS
  Workers = {w1, w2}
  Main = main
  e1 = e1
  e2 = e2
  e3 = e3
  Entries <- MCEntries
  Pieces <- MCPieces
  Threshold = 2
INVARIANTS
  NeverBackwards
CHECK_DEADLOCK FALSE
