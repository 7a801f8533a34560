SPECIFICATION CliSpec
CONSTANTS
  Documents <- MCDocuments
  Clocks <- MCClocks
  Resets <- MCResets
  Names <- MCNames
  Requests <- MCRequests
  Directories <- MCDirectories
  Links <- MCLinks
  UserFiles <- MCUserFiles
  RuntimeDir <- MCRuntimeDir
  MaxRuns = 2
INVARIANTS
  CliTypeOK StatementsKept OneEdge
  RefusalChangesNothing SuccessIsComplete DependencyLeadsToRuntime
PROPERTIES OthersFilesKept ParsingEnds
CHECK_DEADLOCK FALSE
