SPECIFICATION Spec
CONSTANTS
  o1 = o1
  o2 = o2
  adult = adult
  child = child
  NoOne = NoOne
  NoIp = "none"
  Orders = {o1, o2}
  Types = {adult}
  FreeTypes = {}
  Wants <- OneAdult
  EmailOf <- TwoEmails
  IpOf <- NoIps
  Quantities <- Unlimited
  Limits <- One
  StartsAt = 9
  UnattachedHold = 1
  CheckoutTime = 2
  HoldTime = 3
  LiveHoldsMax = 2
  FreeBookingsMax = 2
  FreeBookingsIpMax = 6
  MaxTransaction = 0
  MaxClock = 6
  MaxAborts = 0
  MaxStaffChanges = 0
INVARIANTS
  NoSilentOversell
CHECK_DEADLOCK FALSE
