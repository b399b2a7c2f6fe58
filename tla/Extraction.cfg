SPECIFICATION Spec
CONSTANTS
  Paths <- MCPaths
  Inputs <- MCInputs
  MaxEntries = 3
  Threads = 2
INVARIANTS
  TypeOK
  PlanIsKept
  ResultIsDetermined
  OnlyPlanned
  Accounted
  EntriesComplete
  HardLinksShare
  AntiItemsApplied
PROPERTIES
  DirectoriesLast
