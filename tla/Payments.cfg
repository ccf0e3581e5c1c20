SPECIFICATION PaymentsSpec
CONSTANTS
  g1 = g1
  g2 = g2
  c1 = c1
  t1 = t1
  h1 = h1
  None = None
  NoOne = NoOne
  Cards = {c1}
  Transfers = {t1}
  Holds = {h1}
  Wants <- SeatOrTable
  Seats = 2
  Tables = {1, 2}
  HeldSeats = {0}
  SlowStripe = TRUE
  MaxStaff = 1
  Invoices = {"renewal"}
  Deliveries = {"first", "second"}
  MaxFails = 2
  MaxFaults = 1
  Gifts = {g1, g2}
  Mixes <- Each
  Amount = 2
INVARIANTS
  PaymentsTypeOK
  RoomKept
  PaymentKept
  OnlySettledClaimed
  AdjustmentRecorded
  RenewalOnce
PROPERTIES
  SeatsComeBack
  EndKept
  EndRecorded
CHECK_DEADLOCK FALSE
