SPECIFICATION Spec
CONSTANTS
  U16 = 2
  U32 = 255
  VolumeSizes = {0, 100, 255}
  NameLen = 1
  CommentLen = 5
  Contents <- MCContents
  Expected = {254, 255}
  MaxEntries = 3
  BLOCK = 2
  NAME = 2
  PREFIX = 2
  UNAME = 1
  FieldLen = 5
  Radix = 8
  Register = 512
  PerHeader = 1
  Formats = {"pax", "gnu"}
  Entries <- MCEntries
  MaxGiven = 2
  Items <- MCItems
  BlockSizes = {0, 3}
  MinHeader = 4
  MaxItems = 3
INVARIANTS
  TypeOK
  ReadsBack
  HeadersAreWhole
CHECK_DEADLOCK FALSE
