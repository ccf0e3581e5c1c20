SPECIFICATION FairSpec
CONSTANTS
  w1 = w1
  Workers = {w1}
  Recipients = {1, 2}
  OldFailures = {1}
  MaxAttempts = 2
  PerTick = 2
  CapOn <- Doubling
  Grace = 1
  MaxBatch = 1
  MaxCrashes = 1
  MaxDefers = 1
  MaxAdmin = 1
INVARIANTS
  TypeOK
  GivenUpExplained
PROPERTIES
  SendEnds
