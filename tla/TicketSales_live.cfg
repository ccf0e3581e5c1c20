SPECIFICATION FairSpec
CONSTANTS
  o1 = o1
  o2 = o2
  adult = adult
  child = child
  NoOne = NoOne
  NoIp = "none"
  Orders = {o1, o2}
  Types = {adult, child}
  FreeTypes = {child}
  Wants <- OneEach
  EmailOf <- SameEmail
  IpOf <- SameIp
  Quantities <- Unlimited
  Limits <- Unlimited
  StartsAt = 9
  UnattachedHold = 1
  CheckoutTime = 2
  HoldTime = 3
  LiveHoldsMax = 1
  FreeBookingsMax = 2
  FreeBookingsIpMax = 6
  MaxTransaction = 9
  MaxClock = 4
  MaxAborts = 1
  MaxStaffChanges = 0
INVARIANTS
  PayableHeld
  HoldCap
PROPERTIES
  CancelledNeverPaid
  OrdersLive
  PaymentRecorded
  CheckoutEnds
CHECK_DEADLOCK FALSE
