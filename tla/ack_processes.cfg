\* Processes one after another, killed at any step, asked for everything or for a part.
CONSTANTS
  left = left
  right = right
  sync = sync
  side = side
  Tasks <- ChainTasks
  Partitioned <- NoTasks
  NumPartitions = 1
  Dependencies <- ChainDependencies
  PartialDependencies <- NoLinks
  DoNothing <- JustSync
  OutputLinks <- ChainOutputs
  Inputs <- InputsChain
  Everytime <- JustRight
  Requests <- Every
  MayCrash <- Unforced
  MinimumGap = 1
  MaxClock = 6
SPECIFICATION Spec
CHECK_DEADLOCK FALSE
INVARIANTS
  UpToDate
  AckInv
PROPERTIES
  NoNeedlessRun
