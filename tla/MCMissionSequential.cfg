CONSTANTS
  e1 = e1
  e2 = e2
  e3 = e3
  Forward = {e3}
  Experiments <- MCLone
  Controllers = {c1}
  NoController = NoController
  MaxAttempts <- MCThrice
  Priority <- MCPriority
  ParallelSafe <- MCParallelSafe
  Pipeline <- MCPipeline
  LedgerWriters = {}
  Kind <- MCKind
  WorkerLimit = 1
  MaxRefunds = 1
  MaxStops = 1
SPECIFICATION MissionFairSpec
INVARIANTS WorkersAreClaimed VerdictsMatchResults StopLeavesNothing
PROPERTIES NoWorkRepeated BlockedIsAbsorbing StopIsFree 
