\* Two threads; the pipe is opened in each of three ways.
CONSTANTS
  NumThreads = 2
  o1 = o1
  o2 = o2
  o3 = o3
  Objects <- AllObjects
  Globals = {g1, g2}
  Configurations <- AllConfigurations
  Null = Null
  Close = Close
SPECIFICATION Spec
CHECK_DEADLOCK FALSE
INVARIANTS
  ArgsInv
  HandledOnce
PROPERTIES
  GlobalExchangeEnds
  CloseReturns
