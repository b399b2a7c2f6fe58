SPECIFICATION Spec
CONSTANTS
  Paths <- MCPaths
  Inputs <- FileInTheWay
  MaxEntries = 3
  Threads = 2
INVARIANTS
  NeverLeavesFiles
