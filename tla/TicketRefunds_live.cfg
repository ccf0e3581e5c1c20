SPECIFICATION FairSpec
CONSTANTS
  ann = ann
  adult = adult
  Hook = "hook"
  Nobody = "nobody"
  Admins = {ann}
  Lines = {adult}
  Price <- OnePound
  Quantity <- One
  Fee = 0
  HandAmounts = {1}
  IntentHours = 0
  KeyHours = 1
  MaxCall = 0
  MaxRows = 1
  MaxMade = 2
  MaxRequests = 1
  MaxClock = 0
INVARIANTS
  RequestsTrue
PROPERTIES
  EventsTaken
CHECK_DEADLOCK FALSE
