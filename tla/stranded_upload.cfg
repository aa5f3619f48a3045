\* One upload form, one of whose calls may fail.
SPECIFICATION Spec
CONSTANTS
  Invoice = {i1}
  InvoiceForm = {f1}
  KybForm = {}
  Client = {}
  MaxSessions = 1
  Deliveries = 2
  MaxFaults = 1
  NoInvoice = NoInvoice
PROPERTIES
  LandsInReview
CHECK_DEADLOCK FALSE
