\* An Admin may issue a fee invoice as soon as it is there.
SPECIFICATION Spec
CONSTANTS
  i1 = i1
  i2 = i2
  b1 = b1
  b2 = b2
  t1 = t1
  t2 = t2
  NoFee = NoFee
  Invoice = {i2}
  Broker = {b1, b2}
  Owner <- MCOwner
  Amount <- MCAmount
  Gallons <- MCGallons
  Standing = {i2}
  Doubled = {}
  LastMonth = 2
  Tier = {t1, t2}
  From <- MCFrom
  To <- MCTo
  Pct <- MCPct
  Minimums = {200}
  OpeningTiers = {t1}
  Slot = {1, 2}
  MaxChanges = 0
  MaxRuns = 1
  Tries = 2
  MaxFaults = 0
  IssueQuietly = FALSE
PROPERTIES
  EveryBrokerBilled
CHECK_DEADLOCK FALSE
