\* Five programs, seventeen command lines, three processes in the same directory.
CONSTANTS
  Programs <- MCPrograms
  NumPartitions = 2
  CustomArgsOf = {1, 2}
  Lines <- MCLines
  Cpus = 2
  InputFilesAt <- MCInputFilesAt
  HashOf <- MCHashOf
  MaxProcesses = 3
SPECIFICATION Spec
CHECK_DEADLOCK FALSE
INVARIANTS
  OutputsExact
  NoSharedFile
  SameArguments
PROPERTIES
  LookingChangesNothing
