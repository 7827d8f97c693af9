\* Merges and lists of sorted files, read in all three ways.
CONSTANTS
  Configurations <- Merges
  Dropped <- DroppedKeys
SPECIFICATION Spec
CHECK_DEADLOCK FALSE
INVARIANTS
  ReadInv
