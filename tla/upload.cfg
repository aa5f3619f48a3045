\* Any two of two upload forms, a KYB upload and an upload by a client, whose
\* event is tried twice; two invoice numbers, two faults.
SPECIFICATION Spec
CONSTANTS
  Invoice = {i1, i2}
  InvoiceForm = {f1, f2}
  KybForm = {k1}
  Client = {c1}
  MaxSessions = 2
  Deliveries = 2
  MaxFaults = 2
  NoInvoice = NoInvoice
INVARIANTS
  UploadTypeOK
  NoDanglingDocument
  TellsTheTruth
  OneInvoicePerDocument
PROPERTIES
  StagedUploadReviewed
\* The system stops when every session is over.
CHECK_DEADLOCK FALSE
