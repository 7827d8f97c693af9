\* Two threads; the runner of src may return false, and side is selected with --task.
CONSTANTS
  begin = begin
  src = src
  side = side
  sync = sync
  gate = gate
  sink = sink
  Tasks <- FanTasks
  Partitioned <- NoTasks
  NumPartitions = 1
  Dependencies <- FanDependencies
  PartialDependencies <- NoLinks
  DoNothing <- NoTasks
  Threads = {t1, t2}
  MayFail <- JustSrc
  Selected <- JustSide
  SpuriousWakeups = TRUE
  NoThread = NoThread
  NoWorker = NoWorker
SPECIFICATION Spec
CHECK_DEADLOCK FALSE
INVARIANTS
  FailInv
PROPERTIES
  ImplementsTaskGraph
