SPECIFICATION GenerationsSpec
CONSTANTS
  Enough = 2
  Saturation = 1
  MaxNumber <- MCMaxNumber
  MaxFaults = 1
CHECK_DEADLOCK FALSE
INVARIANTS
  OneInLine
  EarliestStop
  EngineGoesOn
PROPERTY SuccessionIsFinal
