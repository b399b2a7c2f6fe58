SPECIFICATION Spec
CONSTANTS
  Data = {1}
  Signature = 0
  Marker = 9
  VolumeSizes = {1, 2}
  BaseIsZip = TRUE
  MaxWrite = 1
  MaxLen = 3
  MaxArchives = 2
INVARIANTS
  PlainIsSingle
CHECK_DEADLOCK FALSE
