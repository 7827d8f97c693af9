\* Sorted outputs with and without a thread, groups, a reducer and large records.
CONSTANTS
  Records <- SomeRecords
  Key <- SomeKey
  Large <- LargeRecords
  Configurations <- MergedConfigurations
  MaxProcesses = 2
  NoRecord = NoRecord
SPECIFICATION Spec
CHECK_DEADLOCK FALSE
INVARIANTS
  AllMerged
  
