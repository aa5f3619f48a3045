\* One approved invoice, two overlapping calls, any handler in any status.
SPECIFICATION Spec
CONSTANTS
  i1 = i1
  i2 = i2
  i3 = i3
  m1 = m1
  m2 = m2
  b1 = b1
  Invoice = {i1}
  MC = {m1}
  Broker = {b1}
  Request = {r1, r2}
  RowId = {d1, d2}
  ClientKeys = {}
  Payment = {p1}
  Matcher = {s1}
  Debtor <- MCDebtor
  Owner <- MCOwner
  Amount <- MCAmount
  Payer <- MCPayer
  Paid <- MCPaid
  OpeningLimit <- MCOpening
  AdvancePct = 95
  LimitValues = {100}
  Preapproved = {i1}
  Ops = {"underwrite", "fund", "settle", "chargeback", "writeOff"}
  PortalOnly = FALSE
  Serialised = "nothing"
  Volatile = {}
  ChargebackAmounts = {40, 100}
  MatchAmounts = {100}
  MaxMatched = 100
  NoRow = NoRow
  NoLimit = NoLimit
SYMMETRY Symmetry
INVARIANTS
  NoDoubleEntry
  ReleaseMatchesHold
  ReserveAgreesWithLedger
  WriteOffMatchesChargeback
  FundedIsBacked
  RestoreFollowsFunding
  SettledIsPaid
