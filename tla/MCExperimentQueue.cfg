CONSTANTS
  e1 = e1
  e2 = e2
  e3 = e3
  e4 = e4
  Experiments <- MCExperiments
  Controllers = {c1, c2}
  NoController = NoController
  MaxAttempts <- MCMaxAttempts
  Priority <- MCPriority
  ParallelSafe <- MCParallelSafe
  Pipeline <- MCPipeline
  LedgerWriters <- MCLedgerWriters
  Kind <- MCKind
  WorkerLimit = 2
  MaxRefunds = 1
SPECIFICATION FairSpec
INVARIANTS Custody BatchIsolation AttemptBudget
PROPERTIES OutcomeIsFinal ImplementsLedger EventuallySettled
