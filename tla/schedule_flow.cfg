\* Three threads on the flow graph, no failing runner, no spurious wakeups.
CONSTANTS
  begin = begin
  src = src
  side = side
  sync = sync
  gate = gate
  sink = sink
  Tasks <- FlowTasks
  Partitioned <- FlowPartitioned
  NumPartitions = 2
  Dependencies <- FlowDependencies
  PartialDependencies <- FlowPartial
  DoNothing <- FlowDoNothing
  Threads = {t1, t2, t3}
  MayFail <- NoWorkers
  Selected <- NoWorkers
  SpuriousWakeups = FALSE
  NoThread = NoThread
  NoWorker = NoWorker
SPECIFICATION Spec
INVARIANTS
  NoLostWakeup
  RunningCounted
  IInv
PROPERTIES
  RunsAllTasks
  ImplementsTaskGraph
