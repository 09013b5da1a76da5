CONSTANTS
  s1 = s1
  s2 = s2
  s3 = s3
  s4 = s4
  Signals = {s1, s2, s3, s4}
  DecisionAt <- MCDecisionAt
  Times = {0, 1, 2, 3}
  Pnl <- MCPnl
  Window = 2
  MinPrior = 1
  Warmup = 1
  Threshold = 0
SPECIFICATION ShadowSpec
PROPERTIES AuditedIsPersisted FillsLookBack EvidenceOnlyGrows
