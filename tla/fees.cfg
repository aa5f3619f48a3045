\* Two Brokers, both invoices the first one's and one of them open throughout;
\* a closed and a current month; one Admin run beside the Lambda's, one change
\* of tiers or minimum, one fault; an Admin issues what no run works on.
SPECIFICATION Spec
CONSTANTS
  i1 = i1
  i2 = i2
  b1 = b1
  b2 = b2
  t1 = t1
  t2 = t2
  NoFee = NoFee
  Invoice = {i1, i2}
  Broker = {b1, b2}
  Owner <- MCOwner
  Amount <- MCAmount
  Gallons <- MCGallons
  Standing = {i2}
  Doubled = {}
  LastMonth = 2
  Tier = {t1, t2}
  From <- MCFrom
  To <- MCTo
  Pct <- MCPct
  Minimums = {200}
  OpeningTiers = {t1}
  Slot = {1, 2}
  MaxChanges = 1
  MaxRuns = 1
  Tries = 2
  MaxFaults = 1
  IssueQuietly = TRUE
INVARIANTS
  FeesTypeOK
  AccrualMatchesLedger
  FeesWhileOutstanding
  ClosedPeriodComplete
  NeverOvercharged
  PreviewAgrees
PROPERTIES
  IssuedFinal
  EveryBrokerBilled
CHECK_DEADLOCK FALSE
