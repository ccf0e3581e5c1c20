SPECIFICATION DeskSpec
CONSTANTS
  u1 = u1
  u2 = u2
  r1 = r1
  r2 = r2
  None = None
  Users = {u1, u2}
  Requests = {r1, r2}
  Redeemers = {"visitor"}
  Bodies <- OneOfEach
  MaxPasswords = 1
  Visitors = {"visitor"}
  Staff = {"one", "two"}
  MaxMinute = 2
  MaxEvents = 2
  Tabs = {"one", "two", "three"}
  MaxFaults = 2
INVARIANTS
  DeskTypeOK
  TeamKept
  PaymentOnce
  InvoiceDeclaredOnce
  AlertOwed
  PayableOnce
  PledgeDeclaredOnce
PROPERTIES
  OnlyStaffReactivate
SYMMETRY Alike
CHECK_DEADLOCK FALSE
