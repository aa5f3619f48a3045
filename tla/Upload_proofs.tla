---------------------------- MODULE Upload_proofs ----------------------------
(***************************************************************************)
(* The safety of uploads, for any number of invoices, forms and clients,   *)
(* any number of faults and of tries of an event: one inductive invariant, *)
(* its parts kept by every step, and the four invariants it implies.       *)
(***************************************************************************)
EXTENDS Upload, TLAPS

(* Where a form's invoice was created and the form is still with it.       *)
Held == {"created", "attached", "waiting", "done"}

(* A call under way names an invoice.  Events come of clients' uploads,    *)
(* and a client asked for its key with the id of an invoice.               *)
NamesKnown ==
  \A f \in Session :
    /\ at[f] \in {"creating", "created", "attached", "waiting"} =>
         names[f] \in Invoice
    /\ events[f] > 0 => f \in Client /\ at[f] # "blank"
    /\ f \in Client /\ at[f] # "blank" => names[f] \in Invoice

(* Keys are handed on only once the object is stored.                      *)
KeysStored ==
  /\ \A f \in Session : at[f] = "stored" => f \in stored
  /\ staged \subseteq stored
  /\ NoDanglingDocument

(* A created invoice is with one form, at every point of createInvoice.    *)
HeldOnce ==
  \A f \in InvoiceForm : at[f] \in Held =>
    /\ names[f] \in Invoice /\ Exists(names[f])
    /\ \A g \in InvoiceForm : at[g] \in Held /\ names[g] = names[f] => g = f
    /\ at[f] \in {"attached", "waiting"} => f \in docs[names[f]]
    /\ at[f] = "done" /\ f \in staged =>
         f \in docs[names[f]] /\ results[names[f]] # {}

(* Unless a fault sent the form back, its document is on its invoice only. *)
OwnInvoice ==
  \A f \in InvoiceForm, i \in Invoice :
    f \in docs[i] /\ f \notin hit =>
      at[f] \in Held \ {"created"} /\ names[f] = i

UploadInv == UploadTypeOK /\ NamesKnown /\ KeysStored /\ HeldOnce /\ OwnInvoice

-----------------------------------------------------------------------------
(* Nothing is begun, stored or created yet.                                *)
LEMMA UploadInit == Init => UploadInv
<1> SUFFICES ASSUME Init PROVE UploadInv
  OBVIOUS
<1>1. UploadTypeOK
  BY UploadAssumption
  DEF UploadAssumption, Init, UploadTypeOK, Step, ReviewStatus
<1>2. NamesKnown /\ KeysStored
  BY DEF Init, NamesKnown, KeysStored, NoDanglingDocument
<1>3. HeldOnce /\ OwnInvoice
  BY DEF Init, HeldOnce, OwnInvoice, Held, Session
<1>4. QED
  BY <1>1, <1>2, <1>3 DEF UploadInv

(* A fault is counted and its session remembered.                          *)
LEMMA FaultCounted ==
  ASSUME UploadTypeOK, NEW f \in Session, Fault(f)
  PROVE  faults' \in 0..MaxFaults /\ hit' \subseteq Session
  BY UploadAssumption DEF UploadAssumption, UploadTypeOK, Fault

(* Every step keeps the types.                                             *)
LEMMA TypesKept ==
  ASSUME UploadInv, [Next]_vars
  PROVE  UploadTypeOK'
<1>1. ASSUME NEW f \in Session, Presign(f)
      PROVE  UploadTypeOK'
  BY <1>1 DEF UploadInv, UploadTypeOK, Step, Presign, Exists, Goto,
    bucketVars, invoiceVars
<1>2. ASSUME NEW f \in Session, Put(f)
      PROVE  UploadTypeOK'
  BY <1>2, UploadAssumption DEF UploadInv, UploadAssumption, UploadTypeOK,
    Step, Put, Goto, invoiceVars
<1>3. ASSUME NEW f \in Session, Preview(f)
      PROVE  UploadTypeOK'
  BY <1>3 DEF UploadInv, UploadTypeOK, Step, Preview, Goto, bucketVars,
    invoiceVars
<1>4. ASSUME NEW f \in Session, UploadFails(f)
      PROVE  UploadTypeOK'
  BY <1>4, FaultCounted DEF UploadInv, UploadTypeOK, Step, UploadFails, Goto,
    bucketVars, invoiceVars
<1>5. ASSUME NEW f \in Session, CreatedBare(f)
      PROVE  UploadTypeOK'
  BY <1>5 DEF UploadInv, UploadTypeOK, Step, CreatedBare, Goto, bucketVars,
    invoiceVars
<1>6. ASSUME NEW f \in Session, Create(f)
      PROVE  UploadTypeOK'
  BY <1>6 DEF UploadInv, UploadTypeOK, Extraction, InvoiceStatus, Step,
    Create, Exists, Goto, bucketVars
<1>7. ASSUME NEW f \in Session, Attach(f)
      PROVE  UploadTypeOK'
  BY <1>7 DEF UploadInv, UploadTypeOK, Step, Attach, Goto, AddDocument,
    bucketVars
<1>8. ASSUME NEW f \in Session, Extract(f)
      PROVE  UploadTypeOK'
  BY <1>8, UploadAssumption DEF UploadInv, UploadAssumption, UploadTypeOK,
    Step, NamesKnown, Extraction, Extract, Goto, BeginExtraction, bucketVars,
    invoiceVars
<1>9. ASSUME NEW f \in Session, CallLost(f)
      PROVE  UploadTypeOK'
  BY <1>9, FaultCounted DEF UploadInv, UploadTypeOK, Step, CallLost, Goto,
    bucketVars, invoiceVars
<1>10. ASSUME NEW f \in Session, ClientAttach(f)
      PROVE  UploadTypeOK'
  BY <1>10 DEF UploadInv, UploadTypeOK, Step, ClientAttach, Goto, AddDocument,
    bucketVars
<1>11. ASSUME NEW f \in Session, LambdaRefused(f)
      PROVE  UploadTypeOK'
  BY <1>11, UploadAssumption DEF UploadInv, UploadAssumption, UploadTypeOK,
    NamesKnown, Session, Extraction, LambdaRefused, sessionVars, invoiceVars
<1>12. ASSUME NEW f \in Session, LambdaExtracts(f)
      PROVE  UploadTypeOK'
  BY <1>12, UploadAssumption DEF UploadInv, UploadAssumption, UploadTypeOK,
    NamesKnown, Session, Extraction, LambdaExtracts, BeginExtraction,
    sessionVars, invoiceVars
<1>13. ASSUME NEW f \in Session, LambdaTimesOut(f)
      PROVE  UploadTypeOK'
  BY <1>13, UploadAssumption, FaultCounted DEF UploadInv, UploadAssumption,
    UploadTypeOK, NamesKnown, Session, Extraction, LambdaTimesOut,
    BeginExtraction, invoiceVars
<1>14. ASSUME NEW f \in Session, SubmitKyb(f)
      PROVE  UploadTypeOK'
  BY <1>14 DEF UploadInv, UploadTypeOK, Step, ReviewStatus, SubmitKyb, Goto,
    bucketVars, invoiceVars
<1>15. ASSUME NEW f \in Session, KybFails(f)
      PROVE  UploadTypeOK'
  BY <1>15, FaultCounted DEF UploadInv, UploadTypeOK, Step, KybFails, Goto,
    bucketVars, invoiceVars
<1>16. ASSUME NEW f \in Session, ReviewKyb(f)
      PROVE  UploadTypeOK'
  BY <1>16 DEF UploadInv, UploadTypeOK, ReviewStatus, ReviewKyb, sessionVars,
    bucketVars, invoiceVars
<1>17. ASSUME NEW f \in Session, NEW i \in Invoice, Confirm(f, i)
      PROVE  UploadTypeOK'
  BY <1>17 DEF UploadInv, UploadTypeOK, Step, Confirm, Goto, bucketVars,
    invoiceVars
<1>18. ASSUME NEW x \in extracts, ExtractionStarted(x)
      PROVE  UploadTypeOK'
  BY <1>18 DEF UploadInv, UploadTypeOK, Extraction, InvoiceStatus,
    ExtractionStarted, sessionVars, bucketVars
<1>19. ASSUME NEW x \in extracts, ExtractionDone(x)
      PROVE  UploadTypeOK'
  BY <1>19 DEF UploadInv, UploadTypeOK, Extraction, InvoiceStatus, Step,
    ExtractionDone, Awaits, bucketVars
<1>20. ASSUME NEW x \in extracts, ReplicaLost(x)
      PROVE  UploadTypeOK'
  BY <1>20, FaultCounted DEF UploadInv, UploadTypeOK, Step, Extraction,
    ReplicaLost, Awaits, bucketVars, invoiceVars
<1>21. ASSUME NEW i \in Invoice, Cancel(i)
      PROVE  UploadTypeOK'
  BY <1>21 DEF UploadInv, UploadTypeOK, InvoiceStatus, Cancel, Exists,
    sessionVars, bucketVars
<1>22. ASSUME NEW i \in Invoice, SubmitForApproval(i)
      PROVE  UploadTypeOK'
  BY <1>22 DEF UploadInv, UploadTypeOK, InvoiceStatus, SubmitForApproval,
    sessionVars, bucketVars
<1>23. CASE UNCHANGED vars
  BY <1>23 DEF UploadInv, UploadTypeOK, vars, sessionVars, bucketVars,
    invoiceVars
<1>24. QED
  BY <1>1, <1>2, <1>3, <1>4, <1>5, <1>6, <1>7, <1>8, <1>9, <1>10, <1>11,
    <1>12, <1>13, <1>14, <1>15, <1>16, <1>17, <1>18, <1>19, <1>20, <1>21,
    <1>22, <1>23
  DEF Next, Begins, ServerStep, Fails, ExtractionStep, LambdaStep

(* Every step keeps the names known.                                       *)
LEMMA NamesKept ==
  ASSUME UploadInv, [Next]_vars
  PROVE  NamesKnown'
<1>1. ASSUME NEW f \in Session, Presign(f)
      PROVE  NamesKnown'
  BY <1>1 DEF UploadInv, NamesKnown, UploadTypeOK, Presign, Exists, Goto,
    bucketVars, invoiceVars
<1>2. ASSUME NEW f \in Session, Put(f)
      PROVE  NamesKnown'
  BY <1>2 DEF UploadInv, NamesKnown, Put, Goto, invoiceVars
<1>3. ASSUME NEW f \in Session, Preview(f)
      PROVE  NamesKnown'
  BY <1>3 DEF UploadInv, NamesKnown, Preview, Goto, bucketVars, invoiceVars
<1>4. ASSUME NEW f \in Session, UploadFails(f)
      PROVE  NamesKnown'
  BY <1>4 DEF UploadInv, NamesKnown, UploadFails, Goto, Fault, bucketVars,
    invoiceVars
<1>5. ASSUME NEW f \in Session, CreatedBare(f)
      PROVE  NamesKnown'
  BY <1>5 DEF UploadInv, NamesKnown, CreatedBare, Goto, bucketVars,
    invoiceVars
<1>6. ASSUME NEW f \in Session, Create(f)
      PROVE  NamesKnown'
  BY <1>6 DEF UploadInv, NamesKnown, UploadTypeOK, Create, Exists, Goto,
    bucketVars
<1>7. ASSUME NEW f \in Session, Attach(f)
      PROVE  NamesKnown'
  BY <1>7 DEF UploadInv, NamesKnown, Attach, Goto, AddDocument, bucketVars
<1>8. ASSUME NEW f \in Session, Extract(f)
      PROVE  NamesKnown'
  BY <1>8 DEF UploadInv, NamesKnown, Extract, Goto, BeginExtraction,
    bucketVars, invoiceVars
<1>9. ASSUME NEW f \in Session, CallLost(f)
      PROVE  NamesKnown'
  BY <1>9 DEF UploadInv, NamesKnown, CallLost, Goto, Fault, bucketVars,
    invoiceVars
<1>10. ASSUME NEW f \in Session, ClientAttach(f)
      PROVE  NamesKnown'
  BY <1>10 DEF UploadInv, NamesKnown, ClientAttach, Goto, AddDocument,
    bucketVars
<1>11. ASSUME NEW f \in Session, LambdaRefused(f)
      PROVE  NamesKnown'
  BY <1>11 DEF UploadInv, NamesKnown, LambdaRefused, sessionVars, invoiceVars
<1>12. ASSUME NEW f \in Session, LambdaExtracts(f)
      PROVE  NamesKnown'
  BY <1>12 DEF UploadInv, NamesKnown, LambdaExtracts, BeginExtraction,
    sessionVars, invoiceVars
<1>13. ASSUME NEW f \in Session, LambdaTimesOut(f)
      PROVE  NamesKnown'
  BY <1>13 DEF UploadInv, NamesKnown, LambdaTimesOut, Fault, BeginExtraction,
    invoiceVars
<1>14. ASSUME NEW f \in Session, SubmitKyb(f)
      PROVE  NamesKnown'
  BY <1>14 DEF UploadInv, NamesKnown, SubmitKyb, Goto, bucketVars, invoiceVars
<1>15. ASSUME NEW f \in Session, KybFails(f)
      PROVE  NamesKnown'
  BY <1>15 DEF UploadInv, NamesKnown, KybFails, Goto, Fault, bucketVars,
    invoiceVars
<1>16. ASSUME NEW f \in Session, ReviewKyb(f)
      PROVE  NamesKnown'
  BY <1>16 DEF UploadInv, NamesKnown, ReviewKyb, sessionVars, bucketVars,
    invoiceVars
<1>17. ASSUME NEW f \in Session, NEW i \in Invoice, Confirm(f, i)
      PROVE  NamesKnown'
  BY <1>17 DEF UploadInv, NamesKnown, UploadTypeOK, Confirm, Goto, bucketVars,
    invoiceVars
<1>18. ASSUME NEW x \in extracts, ExtractionStarted(x)
      PROVE  NamesKnown'
  BY <1>18 DEF UploadInv, NamesKnown, ExtractionStarted, sessionVars,
    bucketVars
<1>19. ASSUME NEW x \in extracts, ExtractionDone(x)
      PROVE  NamesKnown'
  BY <1>19 DEF UploadInv, NamesKnown, ExtractionDone, Awaits, bucketVars
<1>20. ASSUME NEW x \in extracts, ReplicaLost(x)
      PROVE  NamesKnown'
  BY <1>20 DEF UploadInv, NamesKnown, ReplicaLost, Fault, Awaits, bucketVars,
    invoiceVars
<1>21. ASSUME NEW i \in Invoice, Cancel(i)
      PROVE  NamesKnown'
  BY <1>21 DEF UploadInv, NamesKnown, Cancel, Exists, sessionVars, bucketVars
<1>22. ASSUME NEW i \in Invoice, SubmitForApproval(i)
      PROVE  NamesKnown'
  BY <1>22 DEF UploadInv, NamesKnown, SubmitForApproval, sessionVars,
    bucketVars
<1>23. CASE UNCHANGED vars
  BY <1>23 DEF UploadInv, NamesKnown, vars, sessionVars, bucketVars,
    invoiceVars
<1>24. QED
  BY <1>1, <1>2, <1>3, <1>4, <1>5, <1>6, <1>7, <1>8, <1>9, <1>10, <1>11,
    <1>12, <1>13, <1>14, <1>15, <1>16, <1>17, <1>18, <1>19, <1>20, <1>21,
    <1>22, <1>23
  DEF Next, Begins, ServerStep, Fails, ExtractionStep, LambdaStep

(* Every step keeps the keys of stored objects only.                       *)
LEMMA KeysKept ==
  ASSUME UploadInv, [Next]_vars
  PROVE  KeysStored'
<1>1. ASSUME NEW f \in Session, Presign(f)
      PROVE  KeysStored'
  BY <1>1 DEF UploadInv, KeysStored, NoDanglingDocument, Presign, Exists,
    Goto, bucketVars, invoiceVars
<1>2. ASSUME NEW f \in Session, Put(f)
      PROVE  KeysStored'
  BY <1>2 DEF UploadInv, KeysStored, NoDanglingDocument, Put, Goto,
    invoiceVars
<1>3. ASSUME NEW f \in Session, Preview(f)
      PROVE  KeysStored'
  BY <1>3 DEF UploadInv, KeysStored, NoDanglingDocument, Preview, Goto,
    bucketVars, invoiceVars
<1>4. ASSUME NEW f \in Session, UploadFails(f)
      PROVE  KeysStored'
  BY <1>4 DEF UploadInv, KeysStored, NoDanglingDocument, UploadFails, Goto,
    Fault, bucketVars, invoiceVars
<1>5. ASSUME NEW f \in Session, CreatedBare(f)
      PROVE  KeysStored'
  BY <1>5 DEF UploadInv, KeysStored, NoDanglingDocument, CreatedBare, Goto,
    bucketVars, invoiceVars
<1>6. ASSUME NEW f \in Session, Create(f)
      PROVE  KeysStored'
  BY <1>6 DEF UploadInv, KeysStored, NoDanglingDocument, UploadTypeOK, Create,
    Exists, Goto, bucketVars
<1>7. ASSUME NEW f \in Session, Attach(f)
      PROVE  KeysStored'
  BY <1>7 DEF UploadInv, KeysStored, NoDanglingDocument, Attach, Goto,
    AddDocument, bucketVars
<1>8. ASSUME NEW f \in Session, Extract(f)
      PROVE  KeysStored'
  BY <1>8 DEF UploadInv, KeysStored, NoDanglingDocument, Extract, Goto,
    BeginExtraction, bucketVars, invoiceVars
<1>9. ASSUME NEW f \in Session, CallLost(f)
      PROVE  KeysStored'
  BY <1>9 DEF UploadInv, KeysStored, NoDanglingDocument, CallLost, Goto,
    Fault, bucketVars, invoiceVars
<1>10. ASSUME NEW f \in Session, ClientAttach(f)
      PROVE  KeysStored'
  BY <1>10 DEF UploadInv, KeysStored, NoDanglingDocument, ClientAttach, Goto,
    AddDocument, bucketVars
<1>11. ASSUME NEW f \in Session, LambdaRefused(f)
      PROVE  KeysStored'
  BY <1>11 DEF UploadInv, KeysStored, NoDanglingDocument, LambdaRefused,
    sessionVars, invoiceVars
<1>12. ASSUME NEW f \in Session, LambdaExtracts(f)
      PROVE  KeysStored'
  BY <1>12 DEF UploadInv, KeysStored, NoDanglingDocument, LambdaExtracts,
    BeginExtraction, sessionVars, invoiceVars
<1>13. ASSUME NEW f \in Session, LambdaTimesOut(f)
      PROVE  KeysStored'
  BY <1>13 DEF UploadInv, KeysStored, NoDanglingDocument, LambdaTimesOut,
    Fault, BeginExtraction, invoiceVars
<1>14. ASSUME NEW f \in Session, SubmitKyb(f)
      PROVE  KeysStored'
  BY <1>14 DEF UploadInv, KeysStored, NoDanglingDocument, SubmitKyb, Goto,
    bucketVars, invoiceVars
<1>15. ASSUME NEW f \in Session, KybFails(f)
      PROVE  KeysStored'
  BY <1>15 DEF UploadInv, KeysStored, NoDanglingDocument, KybFails, Goto,
    Fault, bucketVars, invoiceVars
<1>16. ASSUME NEW f \in Session, ReviewKyb(f)
      PROVE  KeysStored'
  BY <1>16 DEF UploadInv, KeysStored, NoDanglingDocument, ReviewKyb,
    sessionVars, bucketVars, invoiceVars
<1>17. ASSUME NEW f \in Session, NEW i \in Invoice, Confirm(f, i)
      PROVE  KeysStored'
  BY <1>17 DEF UploadInv, KeysStored, NoDanglingDocument, Confirm, Goto,
    bucketVars, invoiceVars
<1>18. ASSUME NEW x \in extracts, ExtractionStarted(x)
      PROVE  KeysStored'
  BY <1>18 DEF UploadInv, KeysStored, NoDanglingDocument, ExtractionStarted,
    sessionVars, bucketVars
<1>19. ASSUME NEW x \in extracts, ExtractionDone(x)
      PROVE  KeysStored'
  BY <1>19 DEF UploadInv, KeysStored, NoDanglingDocument, ExtractionDone,
    Awaits, bucketVars
<1>20. ASSUME NEW x \in extracts, ReplicaLost(x)
      PROVE  KeysStored'
  BY <1>20 DEF UploadInv, KeysStored, NoDanglingDocument, ReplicaLost, Fault,
    Awaits, bucketVars, invoiceVars
<1>21. ASSUME NEW i \in Invoice, Cancel(i)
      PROVE  KeysStored'
  BY <1>21 DEF UploadInv, KeysStored, NoDanglingDocument, Cancel, Exists,
    sessionVars, bucketVars
<1>22. ASSUME NEW i \in Invoice, SubmitForApproval(i)
      PROVE  KeysStored'
  BY <1>22 DEF UploadInv, KeysStored, NoDanglingDocument, SubmitForApproval,
    sessionVars, bucketVars
<1>23. CASE UNCHANGED vars
  BY <1>23 DEF UploadInv, KeysStored, NoDanglingDocument, vars, sessionVars,
    bucketVars, invoiceVars
<1>24. QED
  BY <1>1, <1>2, <1>3, <1>4, <1>5, <1>6, <1>7, <1>8, <1>9, <1>10, <1>11,
    <1>12, <1>13, <1>14, <1>15, <1>16, <1>17, <1>18, <1>19, <1>20, <1>21,
    <1>22, <1>23
  DEF Next, Begins, ServerStep, Fails, ExtractionStep, LambdaStep

(* Every step keeps an invoice with the one form that created it.          *)
LEMMA HeldKept ==
  ASSUME UploadInv, [Next]_vars
  PROVE  HeldOnce'
<1>1. ASSUME NEW f \in Session, Presign(f)
      PROVE  HeldOnce'
  BY <1>1 DEF UploadInv, HeldOnce, Held, Exists, UploadTypeOK, Session,
    Presign, Goto, bucketVars, invoiceVars
<1>2. ASSUME NEW f \in Session, Put(f)
      PROVE  HeldOnce'
  BY <1>2 DEF UploadInv, HeldOnce, Held, Exists, Put, Goto, invoiceVars
<1>3. ASSUME NEW f \in Session, Preview(f)
      PROVE  HeldOnce'
  BY <1>3 DEF UploadInv, HeldOnce, Held, Exists, Preview, Goto, bucketVars,
    invoiceVars
<1>4. ASSUME NEW f \in Session, UploadFails(f)
      PROVE  HeldOnce'
  BY <1>4 DEF UploadInv, HeldOnce, Held, Exists, UploadFails, Goto, Fault,
    bucketVars, invoiceVars
<1>5. ASSUME NEW f \in Session, CreatedBare(f)
      PROVE  HeldOnce'
  BY <1>5 DEF UploadInv, HeldOnce, Held, Exists, CreatedBare, Goto,
    bucketVars, invoiceVars
<1>6. ASSUME NEW f \in Session, Create(f)
      PROVE  HeldOnce'
  BY <1>6 DEF UploadInv, HeldOnce, Held, Exists, UploadTypeOK, NamesKnown,
    Session, Create, Goto, bucketVars
<1>7. ASSUME NEW f \in Session, Attach(f)
      PROVE  HeldOnce'
  BY <1>7 DEF UploadInv, HeldOnce, Held, Exists, UploadTypeOK, Attach, Goto,
    AddDocument, bucketVars
<1>8. ASSUME NEW f \in Session, Extract(f)
      PROVE  HeldOnce'
  BY <1>8 DEF UploadInv, HeldOnce, Held, Exists, Extract, Goto,
    BeginExtraction, bucketVars, invoiceVars
<1>9. ASSUME NEW f \in Session, CallLost(f)
      PROVE  HeldOnce'
  BY <1>9 DEF UploadInv, HeldOnce, Held, Exists, CallLost, Goto, Fault,
    bucketVars, invoiceVars
<1>10. ASSUME NEW f \in Session, ClientAttach(f)
      PROVE  HeldOnce'
  BY <1>10, UploadAssumption DEF UploadInv, UploadAssumption, HeldOnce, Held,
    Exists, UploadTypeOK, NamesKnown, Session, Extraction, ClientAttach, Goto,
    AddDocument, bucketVars
<1>11. ASSUME NEW f \in Session, LambdaRefused(f)
      PROVE  HeldOnce'
  BY <1>11 DEF UploadInv, HeldOnce, Held, Exists, LambdaRefused, sessionVars,
    invoiceVars
<1>12. ASSUME NEW f \in Session, LambdaExtracts(f)
      PROVE  HeldOnce'
  BY <1>12 DEF UploadInv, HeldOnce, Held, Exists, LambdaExtracts,
    BeginExtraction, sessionVars, invoiceVars
<1>13. ASSUME NEW f \in Session, LambdaTimesOut(f)
      PROVE  HeldOnce'
  BY <1>13 DEF UploadInv, HeldOnce, Held, Exists, LambdaTimesOut, Fault,
    BeginExtraction, invoiceVars
<1>14. ASSUME NEW f \in Session, SubmitKyb(f)
      PROVE  HeldOnce'
  BY <1>14, UploadAssumption DEF UploadInv, UploadAssumption, HeldOnce, Held,
    Exists, UploadTypeOK, NamesKnown, Session, Extraction, SubmitKyb, Goto,
    bucketVars, invoiceVars
<1>15. ASSUME NEW f \in Session, KybFails(f)
      PROVE  HeldOnce'
  BY <1>15 DEF UploadInv, HeldOnce, Held, Exists, KybFails, Goto, Fault,
    bucketVars, invoiceVars
<1>16. ASSUME NEW f \in Session, ReviewKyb(f)
      PROVE  HeldOnce'
  BY <1>16 DEF UploadInv, HeldOnce, Held, Exists, ReviewKyb, sessionVars,
    bucketVars, invoiceVars
<1>17. ASSUME NEW f \in Session, NEW i \in Invoice, Confirm(f, i)
      PROVE  HeldOnce'
  BY <1>17 DEF UploadInv, HeldOnce, Held, Exists, Confirm, Goto, bucketVars,
    invoiceVars
<1>18. ASSUME NEW x \in extracts, ExtractionStarted(x)
      PROVE  HeldOnce'
  BY <1>18 DEF UploadInv, HeldOnce, Held, Exists, ExtractionStarted,
    sessionVars, bucketVars
<1>19. ASSUME NEW x \in extracts, ExtractionDone(x)
      PROVE  HeldOnce'
  BY <1>19 DEF UploadInv, HeldOnce, Held, Exists, UploadTypeOK, Session,
    ExtractionDone, Awaits, bucketVars
<1>20. ASSUME NEW x \in extracts, ReplicaLost(x)
      PROVE  HeldOnce'
  BY <1>20 DEF UploadInv, HeldOnce, Held, Exists, UploadTypeOK, Session,
    ReplicaLost, Fault, Awaits, bucketVars, invoiceVars
<1>21. ASSUME NEW i \in Invoice, Cancel(i)
      PROVE  HeldOnce'
  BY <1>21 DEF UploadInv, HeldOnce, Held, Exists, Cancel, sessionVars,
    bucketVars
<1>22. ASSUME NEW i \in Invoice, SubmitForApproval(i)
      PROVE  HeldOnce'
  BY <1>22 DEF UploadInv, HeldOnce, Held, Exists, SubmitForApproval,
    sessionVars, bucketVars
<1>23. CASE UNCHANGED vars
  BY <1>23 DEF UploadInv, HeldOnce, Held, Exists, vars, sessionVars,
    bucketVars, invoiceVars
<1>24. QED
  BY <1>1, <1>2, <1>3, <1>4, <1>5, <1>6, <1>7, <1>8, <1>9, <1>10, <1>11,
    <1>12, <1>13, <1>14, <1>15, <1>16, <1>17, <1>18, <1>19, <1>20, <1>21,
    <1>22, <1>23
  DEF Next, Begins, ServerStep, Fails, ExtractionStep, LambdaStep

(* Every step keeps the document of an unhit form with its invoice.        *)
LEMMA OwnersKept ==
  ASSUME UploadInv, [Next]_vars
  PROVE  OwnInvoice'
<1>1. ASSUME NEW f \in Session, Presign(f)
      PROVE  OwnInvoice'
  BY <1>1 DEF UploadInv, OwnInvoice, Held, UploadTypeOK, Presign, Exists,
    Goto, bucketVars, invoiceVars
<1>2. ASSUME NEW f \in Session, Put(f)
      PROVE  OwnInvoice'
  BY <1>2 DEF UploadInv, OwnInvoice, Held, Put, Goto, invoiceVars
<1>3. ASSUME NEW f \in Session, Preview(f)
      PROVE  OwnInvoice'
  BY <1>3 DEF UploadInv, OwnInvoice, Held, Preview, Goto, bucketVars,
    invoiceVars
<1>4. ASSUME NEW f \in Session, UploadFails(f)
      PROVE  OwnInvoice'
  BY <1>4 DEF UploadInv, OwnInvoice, Held, UploadFails, Goto, Fault,
    bucketVars, invoiceVars
<1>5. ASSUME NEW f \in Session, CreatedBare(f)
      PROVE  OwnInvoice'
  BY <1>5 DEF UploadInv, OwnInvoice, Held, CreatedBare, Goto, bucketVars,
    invoiceVars
<1>6. ASSUME NEW f \in Session, Create(f)
      PROVE  OwnInvoice'
  BY <1>6 DEF UploadInv, OwnInvoice, Held, UploadTypeOK, Create, Exists, Goto,
    bucketVars
<1>7. ASSUME NEW f \in Session, Attach(f)
      PROVE  OwnInvoice'
  BY <1>7 DEF UploadInv, OwnInvoice, Held, UploadTypeOK, Attach, Goto,
    AddDocument, bucketVars
<1>8. ASSUME NEW f \in Session, Extract(f)
      PROVE  OwnInvoice'
  BY <1>8 DEF UploadInv, OwnInvoice, Held, Extract, Goto, BeginExtraction,
    bucketVars, invoiceVars
<1>9. ASSUME NEW f \in Session, CallLost(f)
      PROVE  OwnInvoice'
  BY <1>9 DEF UploadInv, OwnInvoice, Held, CallLost, Goto, Fault, bucketVars,
    invoiceVars
<1>10. ASSUME NEW f \in Session, ClientAttach(f)
      PROVE  OwnInvoice'
  BY <1>10 DEF UploadInv, OwnInvoice, Held, UploadTypeOK, ClientAttach, Goto,
    AddDocument, bucketVars
<1>11. ASSUME NEW f \in Session, LambdaRefused(f)
      PROVE  OwnInvoice'
  BY <1>11 DEF UploadInv, OwnInvoice, Held, LambdaRefused, sessionVars,
    invoiceVars
<1>12. ASSUME NEW f \in Session, LambdaExtracts(f)
      PROVE  OwnInvoice'
  BY <1>12 DEF UploadInv, OwnInvoice, Held, LambdaExtracts, BeginExtraction,
    sessionVars, invoiceVars
<1>13. ASSUME NEW f \in Session, LambdaTimesOut(f)
      PROVE  OwnInvoice'
  BY <1>13 DEF UploadInv, OwnInvoice, Held, LambdaTimesOut, Fault,
    BeginExtraction, invoiceVars
<1>14. ASSUME NEW f \in Session, SubmitKyb(f)
      PROVE  OwnInvoice'
  BY <1>14 DEF UploadInv, OwnInvoice, Held, SubmitKyb, Goto, bucketVars,
    invoiceVars
<1>15. ASSUME NEW f \in Session, KybFails(f)
      PROVE  OwnInvoice'
  BY <1>15 DEF UploadInv, OwnInvoice, Held, KybFails, Goto, Fault, bucketVars,
    invoiceVars
<1>16. ASSUME NEW f \in Session, ReviewKyb(f)
      PROVE  OwnInvoice'
  BY <1>16 DEF UploadInv, OwnInvoice, Held, ReviewKyb, sessionVars,
    bucketVars, invoiceVars
<1>17. ASSUME NEW f \in Session, NEW i \in Invoice, Confirm(f, i)
      PROVE  OwnInvoice'
  BY <1>17 DEF UploadInv, OwnInvoice, Held, Confirm, Goto, bucketVars,
    invoiceVars
<1>18. ASSUME NEW x \in extracts, ExtractionStarted(x)
      PROVE  OwnInvoice'
  BY <1>18 DEF UploadInv, OwnInvoice, Held, ExtractionStarted, sessionVars,
    bucketVars
<1>19. ASSUME NEW x \in extracts, ExtractionDone(x)
      PROVE  OwnInvoice'
  BY <1>19 DEF UploadInv, OwnInvoice, Held, UploadTypeOK, ExtractionDone,
    Awaits, bucketVars
<1>20. ASSUME NEW x \in extracts, ReplicaLost(x)
      PROVE  OwnInvoice'
  BY <1>20 DEF UploadInv, OwnInvoice, Held, UploadTypeOK, ReplicaLost, Fault,
    Awaits, bucketVars, invoiceVars
<1>21. ASSUME NEW i \in Invoice, Cancel(i)
      PROVE  OwnInvoice'
  BY <1>21 DEF UploadInv, OwnInvoice, Held, Cancel, Exists, sessionVars,
    bucketVars
<1>22. ASSUME NEW i \in Invoice, SubmitForApproval(i)
      PROVE  OwnInvoice'
  BY <1>22 DEF UploadInv, OwnInvoice, Held, SubmitForApproval, sessionVars,
    bucketVars
<1>23. CASE UNCHANGED vars
  BY <1>23 DEF UploadInv, OwnInvoice, Held, vars, sessionVars, bucketVars,
    invoiceVars
<1>24. QED
  BY <1>1, <1>2, <1>3, <1>4, <1>5, <1>6, <1>7, <1>8, <1>9, <1>10, <1>11,
    <1>12, <1>13, <1>14, <1>15, <1>16, <1>17, <1>18, <1>19, <1>20, <1>21,
    <1>22, <1>23
  DEF Next, Begins, ServerStep, Fails, ExtractionStep, LambdaStep
-----------------------------------------------------------------------------
LEMMA UploadInvariant == Spec => []UploadInv
<1>1. UploadInv /\ [Next]_vars => UploadInv'
  BY TypesKept, NamesKept, KeysKept, HeldKept, OwnersKept DEF UploadInv
<1>2. QED
  BY UploadInit, <1>1, PTL DEF Spec

(* Sessions, documents, invoices, extractions and reviews keep their       *)
(* types, whatever fails and whoever repeats what.                         *)
THEOREM UploadTypeCorrect == Spec => []UploadTypeOK
<1>1. UploadInv => UploadTypeOK
  BY DEF UploadInv
<1>2. QED
  BY <1>1, UploadInvariant, PTL

(* Every document row points to an object that was stored: attachDocument  *)
(* and the KYB pages get a key only after its PUT succeeded.               *)
THEOREM DocumentsAreStored == Spec => []NoDanglingDocument
<1>1. UploadInv => NoDanglingDocument
  BY DEF UploadInv, KeysStored
<1>2. QED
  BY <1>1, UploadInvariant, PTL

(* A form that reports success created its invoice, alone, and what it     *)
(* uploaded is attached and extracted, however many forms name one number. *)
THEOREM FormsTellTheTruth == Spec => []TellsTheTruth
<1>1. UploadInv => TellsTheTruth
  BY DEF UploadInv, HeldOnce, Held, TellsTheTruth
<1>2. QED
  BY <1>1, UploadInvariant, PTL

(* A document on two invoices means that a call of its form failed.        *)
THEOREM OneInvoiceEach == Spec => []OneInvoicePerDocument
<1>1. UploadInv => OneInvoicePerDocument
  BY DEF UploadInv, OwnInvoice, OneInvoicePerDocument
<1>2. QED
  BY <1>1, UploadInvariant, PTL
=============================================================================
