CONSTANTS
  Jobs <- MCJobs
  MaxAttempts = 3
  MaxDrifts = 1
SPECIFICATION WorkerSpec
INVARIANTS OneSelection RetryIsFree EvidenceHolds
CHECK_DEADLOCK FALSE
