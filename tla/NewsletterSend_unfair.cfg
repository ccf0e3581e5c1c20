SPECIFICATION Spec
CONSTANTS
  w1 = w1
  Workers = {w1}
  Recipients = {1, 2}
  OldFailures = {}
  MaxAttempts = 3
  PerTick = 2
  CapOn <- NoCap
  Grace = 1
  MaxBatch = 1
  MaxCrashes = 0
  MaxDefers = 2
  MaxAdmin = 0
INVARIANTS
  GivenUpRefused
