\* Two invoices of one debtor funded at the same time, with room for one.
SPECIFICATION Spec
CONSTANTS
  i1 = i1
  i2 = i2
  i3 = i3
  m1 = m1
  m2 = m2
  b1 = b1
  Invoice = {i1, i2}
  MC = {m1}
  Broker = {b1}
  Request = {r1, r2}
  RowId = {d1, d2}
  ClientKeys = {}
  Payment = {p1}
  Matcher = {s1}
  Debtor <- MCDebtor
  Owner <- MCOwner
  Amount <- MCAmount
  Payer <- MCPayer
  Paid <- MCPaid
  OpeningLimit <- MCOpening
  AdvancePct = 95
  LimitValues = {100}
  Preapproved = {i1, i2}
  Ops = {"fund"}
  PortalOnly = TRUE
  Serialised = "nothing"
  Volatile = {}
  ChargebackAmounts = {100}
  MatchAmounts = {100}
  MaxMatched = 100
  NoRow = NoRow
  NoLimit = NoLimit
SYMMETRY Symmetry
PROPERTIES
  FundingWithinLimit
