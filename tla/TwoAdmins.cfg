SPECIFICATION RaceSpec
CONSTANTS
  ann = ann
  bob = bob
  adult = adult
  Hook = "hook"
  Nobody = "nobody"
  Admins = {ann, bob}
  Lines = {adult}
  Price <- OnePound
  Quantity <- Two
  Fee = 0
  HandAmounts = {}
  IntentHours = 0
  KeyHours = 1
  MaxCall = 0
  MaxRows = 2
  MaxMade = 2
  MaxRequests = 0
  MaxClock = 0
INVARIANTS
  PaidOnce
  TicketPaidOnce
SYMMETRY AdminsAlike
CHECK_DEADLOCK FALSE
