CONSTANTS
  e1 = e1
  e2 = e2
  e3 = e3
  Forward = {}
  Experiments <- MCPair
  Controllers = {c1}
  NoController = NoController
  MaxAttempts <- MCMaxAttempts
  Priority <- MCPriority
  ParallelSafe <- MCParallelSafe
  Pipeline <- MCPipeline
  LedgerWriters = {}
  Kind <- MCKind
  WorkerLimit = 2
  MaxRefunds = 2
  MaxStops = 1
SPECIFICATION BatchFairSpec
PROPERTIES MissionIsSafe ImplementsQueue ClaimsSettle
