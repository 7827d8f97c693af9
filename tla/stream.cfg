SPECIFICATION Spec
CONSTANTS
  BlockSizes <- BlockSizesValue
  BoundSlack = 1
  MinBuffer = 8
  MinGzBuffer = 9
  Lz4Extra = 2
  MinGzOut = 5
  ZChunk = 6
  Outs <- OutsValue
  Rooms = {18, 1000}
  RecordsOf <- RecordsOfValue
  MaxRecords = 3
  Ins <- InsValue
INVARIANTS
  ReadBack
  PrefixRead
CHECK_DEADLOCK FALSE
