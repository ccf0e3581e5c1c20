SPECIFICATION Spec
CONSTANTS
  ann = ann
  adult = adult
  Hook = "hook"
  Nobody = "nobody"
  Admins = {ann}
  Lines = {adult}
  Price <- OnePound
  Quantity <- Two
  Fee = 0
  HandAmounts = {1}
  IntentHours = 0
  KeyHours = 2
  MaxCall = 1
  MaxRows = 1
  MaxMade = 2
  MaxRequests = 0
  MaxClock = 1
INVARIANTS
  TypeOK
  MoneyAgrees
  ReleasesCovered
  ToldOnce
  AppliedWhenMade
CHECK_DEADLOCK FALSE
