SPECIFICATION Spec
CONSTANTS
  Data = {1, 2}
  Signature = 0
  Marker = 9
  VolumeSizes = {1, 3}
  BaseIsZip = TRUE
  Left = {0, 2, 4}
  MaxWrite = 2
  MaxLen = 4
  MaxArchives = 2
INVARIANTS
  TypeOK
  VolumesAreBounded
  RecordsAreWhole
  ReadsBack
PROPERTIES
  ImplementsFlatFile
CHECK_DEADLOCK FALSE
