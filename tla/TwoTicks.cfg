SPECIFICATION RaceSpec
CONSTANTS
  w1 = w1
  w2 = w2
  Workers = {w1, w2}
  Recipients = {1, 2, 3}
  OldFailures = {}
  MaxAttempts = 2
  PerTick = 1
  CapOn <- OneADay
  Grace = 1
  MaxBatch = 1
  MaxCrashes = 0
  MaxDefers = 0
  MaxAdmin = 0
INVARIANTS
  SentOnce
  CapHolds
PROPERTIES
  TerminalStays
SYMMETRY WorkersAlike
