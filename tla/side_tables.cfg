\* Three overlapping hold calls, or two overlapping intake calls in any status,
\* or two overlapping match calls.
SPECIFICATION SideSpec
CONSTANTS
  i1 = i1
  i2 = i2
  i3 = i3
  m1 = m1
  m2 = m2
  b1 = b1
  p1 = p1
  Invoice = {i1, i2, i3}
  MC = {m1}
  Broker = {b1}
  Request = {r1, r2, r3}
  RowId = {d1, d2, d3, d4}
  ClientKeys = {}
  Payment = {p1, p2}
  Matcher = {s1, s2}
  Debtor <- MCDebtor
  Owner <- MCOwner
  Amount <- MCAmount
  Payer <- MCPayer
  Paid <- MCSidePaid
  OpeningLimit <- MCOpening
  AdvancePct = 95
  LimitValues = {100}
  Preapproved = {i1, i3}
  Ops = {"create", "attach", "extract", "submit", "mcDispute", "resolve", "cancel", "fund", "settle", "placeHold", "releaseHold"}
  PortalOnly = FALSE
  Serialised = "nothing"
  Volatile = {}
  ChargebackAmounts = {100}
  MatchAmounts = {40, 60, 100}
  MaxMatched = 120
  NoRow = NoRow
  NoLimit = NoLimit
SYMMETRY Symmetry
INVARIANTS
  HoldHasEvent
  DisputedHasDispute
  NeverOverstated
CHECK_DEADLOCK FALSE
