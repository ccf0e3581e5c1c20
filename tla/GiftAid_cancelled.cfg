SPECIFICATION Spec
CONSTANTS
  g1 = g1
  g2 = g2
  None = None
  Gifts = {g1, g2}
  Mixes <- Renewed
  Amount = 1
INVARIANT CancelledNotClaimed
CHECK_DEADLOCK FALSE
