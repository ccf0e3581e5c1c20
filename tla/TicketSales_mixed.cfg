SPECIFICATION Spec
CONSTANTS
  o1 = o1
  o2 = o2
  adult = adult
  child = child
  NoOne = NoOne
  NoIp = "none"
  Orders = {o1, o2}
  Types = {adult, child}
  FreeTypes = {child}
  Wants <- OneEach
  EmailOf <- TwoEmails
  IpOf <- NoIps
  Quantities <- OneOrNone
  Limits <- OneOrNone
  StartsAt = 2
  UnattachedHold = 1
  CheckoutTime = 1
  HoldTime = 1
  LiveHoldsMax = 2
  FreeBookingsMax = 2
  FreeBookingsIpMax = 6
  MaxTransaction = 9
  MaxClock = 2
  MaxAborts = 0
  MaxStaffChanges = 1
INVARIANTS
  TypeOK
  Capacity
CHECK_DEADLOCK FALSE
