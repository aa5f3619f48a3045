\* One invoice from upload to its end through the portals, one call at a time.
SPECIFICATION Spec
CONSTANTS
  i1 = i1
  i2 = i2
  i3 = i3
  m1 = m1
  m2 = m2
  b1 = b1
  Invoice = {i1}
  MC = {m1}
  Broker = {b1}
  Request = {r1, r2}
  RowId = {d1, d2}
  ClientKeys = {}
  Payment = {p1}
  Matcher = {s1}
  Debtor <- MCDebtor
  Owner <- MCOwner
  Amount <- MCAmount
  Payer <- MCPayer
  Paid <- MCPaid
  OpeningLimit <- MCOpening
  AdvancePct = 95
  LimitValues = {100}
  Preapproved = {}
  Ops = {"create", "attach", "extract", "submit", "mcApprove", "mcDispute", "resolve", "underwrite", "respond", "cancel", "fund", "settle", "placeHold", "releaseHold", "chargeback", "writeOff"}
  PortalOnly = TRUE
  Serialised = "invoice"
  Volatile = {b1}
  ChargebackAmounts = {100}
  MatchAmounts = {100}
  MaxMatched = 100
  NoRow = NoRow
  NoLimit = NoLimit
SYMMETRY Symmetry
INVARIANTS
  TypeOK
PROPERTIES
  LegalMoves
