\* Two invoices of one debtor: calls overlap, but not on the same invoice.
SPECIFICATION Spec
CONSTANTS
  i1 = i1
  i2 = i2
  i3 = i3
  m1 = m1
  m2 = m2
  b1 = b1
  Invoice = {i1, i2}
  MC = {m1}
  Broker = {b1}
  Request = {r1, r2}
  RowId = {d1, d2}
  ClientKeys = {}
  Payment = {p1}
  Matcher = {s1}
  Debtor <- MCDebtor
  Owner <- MCOwner
  Amount <- MCAmount
  Payer <- MCPayer
  Paid <- MCPaid
  OpeningLimit <- MCRoomForTwo
  AdvancePct = 95
  LimitValues = {200}
  Preapproved = {i1, i2}
  Ops = {"fund", "settle", "placeHold", "releaseHold", "chargeback", "writeOff", "cancel"}
  PortalOnly = FALSE
  Serialised = "invoice"
  Volatile = {}
  ChargebackAmounts = {40}
  MatchAmounts = {100}
  MaxMatched = 100
  NoRow = NoRow
  NoLimit = NoLimit
SYMMETRY Symmetry
INVARIANTS
  HoldBlocksSettlement
  HoldFlagAgrees
  ExposureFollowsStatus
  ChargebackMatchesLedger
