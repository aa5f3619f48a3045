\* Three invoices of two debtors: calls overlap, but not on the same account.
SPECIFICATION Spec
CONSTANTS
  i1 = i1
  i2 = i2
  i3 = i3
  m1 = m1
  m2 = m2
  b1 = b1
  Invoice = {i1, i2, i3}
  MC = {m1, m2}
  Broker = {b1}
  Request = {r1, r2}
  RowId = {d1, d2}
  ClientKeys = {}
  Payment = {p1}
  Matcher = {s1}
  Debtor <- MCDebtorApart
  Owner <- MCOwner
  Amount <- MCAmounts
  Payer <- MCPayer
  Paid <- MCPaid
  OpeningLimit <- MCNotSet
  AdvancePct = 95
  LimitValues = {100, 150}
  Preapproved = {i1, i2, i3}
  Ops = {"fund", "settle", "chargeback", "writeOff"}
  PortalOnly = TRUE
  Serialised = "account"
  Volatile = {}
  ChargebackAmounts = {100}
  MatchAmounts = {100}
  MaxMatched = 100
  NoRow = NoRow
  NoLimit = NoLimit
SYMMETRY Symmetry
INVARIANTS
  AdvanceAndReserveAddUp
  CounterMatchesLog
PROPERTIES
  FundingWithinLimit
  ImplementsFacility
