------------------------------- MODULE Upload -------------------------------
(***************************************************************************)
(* How a document gets to an invoice.  A Broker's upload form puts it into *)
(* the bucket, has it read for a preview, and on confirmation creates the  *)
(* invoice, attaches the document and has it extracted: five API calls and *)
(* a PUT, any of which may fail.  The onboarding pages put KYB documents   *)
(* into the same bucket.  A client of the API that uploads under           *)
(* invoices/{id}/ leaves the extraction to the S3 event and its Lambda.    *)
(*                                                                         *)
(* Every presigned key holds a fresh uuid and is asked for by one session, *)
(* so a document is named by the session that uploads it.  An invoice      *)
(* stands for a number the Broker may give it.                             *)
(***************************************************************************)
EXTENDS Integers, FiniteSets, InvoiceStatuses

CONSTANTS
  Invoice,      \* invoice numbers of one Broker
  InvoiceForm,  \* openings of the "upload invoice" page
  KybForm,      \* uploads from the onboarding pages
  Client,       \* uploads by a client of the API
  MaxSessions,  \* bound on the sessions that begin
  Deliveries,   \* how often AWS tries an S3 event: the first try and retries
  MaxFaults,    \* bound on failing, lost and timed out calls
  NoInvoice

Session == InvoiceForm \cup KybForm \cup Client

ASSUME UploadAssumption ==
  /\ NoInvoice \notin Invoice
  /\ InvoiceForm \cap KybForm = {} /\ (InvoiceForm \cup KybForm) \cap Client = {}
  /\ MaxSessions \in Nat /\ Deliveries \in Nat /\ MaxFaults \in Nat

VARIABLES
  at,        \* where a session is
  names,     \* the invoice it names
  staged,    \* forms whose hidden field holds the key of their document
  hit,       \* sessions a fault hit
  stored,    \* documents in the bucket
  events,    \* tries left of a document's S3 event
  status,    \* status of an invoice, NONE before it is created
  docs,      \* InvoiceDocument: the documents of an invoice
  results,   \* InvoiceExtractionResult: the documents that were extracted
  extracts,  \* calls of runExtractionCore in flight
  kyb,       \* review status of a KYB document, NONE before it is submitted
  faults     \* faults so far

sessionVars == <<at, names, staged, hit>>
bucketVars  == <<stored, events>>
invoiceVars == <<status, docs, results>>
vars == <<sessionVars, bucketVars, invoiceVars, extracts, kyb, faults>>

(* An upload goes from blank over signed and stored to the confirmation    *)
(* page; what follows is what createInvoice has had answered so far.       *)
Step == {"blank", "signed", "stored", "confirm", "creating", "created",
         "attached", "waiting", "done", "failed"}

(* try is 0 for a call of the portal, the try of the event for a Lambda's. *)
Extraction == [inv: Invoice, doc: Session, by: Session, try: 0..Deliveries,
               pc: {"begun", "ocr"}]

ReviewStatus == {"NONE", "PENDING", "APPROVED", "REJECTED"}

UploadTypeOK ==
  /\ at \in [Session -> Step]
  /\ names \in [Session -> Invoice \cup {NoInvoice}]
  /\ staged \subseteq InvoiceForm
  /\ hit \subseteq Session
  /\ stored \subseteq Session
  /\ events \in [Session -> 0..Deliveries]
  /\ status \in [Invoice -> InvoiceStatus \cup {"NONE"}]
  /\ docs \in [Invoice -> SUBSET Session]
  /\ results \in [Invoice -> SUBSET Session]
  /\ extracts \subseteq Extraction
  /\ kyb \in [Session -> ReviewStatus]
  /\ faults \in 0..MaxFaults

Init ==
  /\ at = [f \in Session |-> "blank"]
  /\ names = [f \in Session |-> NoInvoice]
  /\ staged = {} /\ hit = {} /\ stored = {}
  /\ events = [f \in Session |-> 0]
  /\ status = [i \in Invoice |-> "NONE"]
  /\ docs = [i \in Invoice |-> {}] /\ results = [i \in Invoice |-> {}]
  /\ extracts = {}
  /\ kyb = [f \in Session |-> "NONE"]
  /\ faults = 0

Exists(i) == status[i] # "NONE"

Goto(f, step) == at' = [at EXCEPT ![f] = step]

Fault(f) ==
  /\ faults < MaxFaults
  /\ faults' = faults + 1
  /\ hit' = hit \cup {f}

-----------------------------------------------------------------------------
(* The bucket: a presigned PUT each, for a key under staging/, kyb/, kyc/  *)
(* or, for a client, invoices/{id}/ of an invoice it knows.                *)

Presign(f) ==
  /\ at[f] = "blank"
  /\ Cardinality({g \in Session : at[g] # "blank"}) < MaxSessions
  /\ Goto(f, "signed")
  /\ IF f \in Client
     THEN \E i \in Invoice : Exists(i) /\ names' = [names EXCEPT ![f] = i]
     ELSE UNCHANGED names
  /\ UNCHANGED <<staged, hit, bucketVars, invoiceVars, extracts, kyb, faults>>

(* S3 notifies the Lambda of objects under invoices/ only.                 *)
Put(f) ==
  /\ at[f] = "signed"
  /\ Goto(f, "stored")
  /\ stored' = stored \cup {f}
  /\ events' = IF f \in Client THEN [events EXCEPT ![f] = Deliveries] ELSE events
  /\ UNCHANGED <<names, staged, hit, invoiceVars, extracts, kyb, faults>>

(* extract-preview writes nothing; a document the provider cannot read     *)
(* gives a preview without fields.                                         *)
Preview(f) ==
  /\ f \in InvoiceForm /\ at[f] = "stored"
  /\ Goto(f, "confirm")
  /\ staged' = staged \cup {f}
  /\ UNCHANGED <<names, hit, bucketVars, invoiceVars, extracts, kyb, faults>>

(* Mutant: the key of the failed upload stays in the form.                 *)
UploadFailsKeepingKey(f) ==
  /\ f \in InvoiceForm /\ at[f] \in {"signed", "stored"}
  /\ Fault(f)
  /\ Goto(f, "confirm")
  /\ staged' = staged \cup {f}
  /\ UNCHANGED <<names, bucketVars, invoiceVars, extracts, kyb>>

(* A call of uploadAndPreview fails: the form offers manual entry, with no *)
(* key, whether or not the object is there.                                *)
UploadFails(f) ==
  /\ f \in InvoiceForm /\ at[f] \in {"signed", "stored"}
  /\ Fault(f)
  /\ Goto(f, "confirm")
  /\ UNCHANGED <<names, staged, bucketVars, invoiceVars, extracts, kyb>>

-----------------------------------------------------------------------------
(* The confirmation page and createInvoice.                                *)

(* The Broker may edit the number before each confirmation; the button is  *)
(* disabled until the action has answered.                                 *)
Confirm(f, i) ==
  /\ at[f] = "confirm"
  /\ Goto(f, "creating")
  /\ names' = [names EXCEPT ![f] = i]
  /\ UNCHANGED <<staged, hit, bucketVars, invoiceVars, extracts, kyb, faults>>

(* Mutant: a number that is taken is created again.                        *)
CreateAgain(f) ==
  /\ at[f] = "creating"
  /\ Goto(f, "created")
  /\ status' = [status EXCEPT ![names[f]] = "UPLOADED"]
  /\ UNCHANGED <<names, staged, hit, bucketVars, docs, results, extracts, kyb,
                 faults>>

(* POST /invoices: refused when the number is taken.                       *)
Create(f) ==
  /\ at[f] = "creating"
  /\ IF Exists(names[f])
     THEN Goto(f, "confirm") /\ UNCHANGED status
     ELSE /\ Goto(f, "created")
          /\ status' = [status EXCEPT ![names[f]] = "UPLOADED"]
  /\ UNCHANGED <<names, staged, hit, bucketVars, docs, results, extracts, kyb,
                 faults>>

(* Without a key that was all: the page moves on to the invoice.           *)
CreatedBare(f) ==
  /\ at[f] = "created" /\ f \notin staged
  /\ Goto(f, "done")
  /\ UNCHANGED <<names, staged, hit, bucketVars, invoiceVars, extracts, kyb,
                 faults>>

AddDocument(f, i) == docs' = [docs EXCEPT ![i] = @ \cup {f}]

(* Mutant: the extraction is left to the S3 event.                         *)
AttachOnly(f) ==
  /\ at[f] = "created" /\ f \in staged
  /\ Goto(f, "done")
  /\ AddDocument(f, names[f])
  /\ UNCHANGED <<names, staged, hit, bucketVars, status, results, extracts, kyb,
                 faults>>

Attach(f) ==
  /\ at[f] = "created" /\ f \in staged
  /\ Goto(f, "attached")
  /\ AddDocument(f, names[f])
  /\ UNCHANGED <<names, staged, hit, bucketVars, status, results, extracts, kyb,
                 faults>>

(* runExtractionCore finds any one document of the invoice, or refuses.    *)
BeginExtraction(i, f, try) ==
  \E d \in docs[i] :
    extracts' = extracts \cup
      {[inv |-> i, doc |-> d, by |-> f, try |-> try, pc |-> "begun"]}

Extract(f) ==
  /\ at[f] = "attached"
  /\ Goto(f, "waiting")
  /\ BeginExtraction(names[f], f, 0)
  /\ UNCHANGED <<names, staged, hit, bucketVars, invoiceVars, kyb, faults>>

(* A call of createInvoice is lost on its way, or its answer is: the form  *)
(* shows an error and stays.  What the call set going goes on.             *)
CallLost(f) ==
  /\ at[f] \in {"creating", "created", "attached", "waiting"}
  /\ Fault(f)
  /\ Goto(f, "confirm")
  /\ UNCHANGED <<names, staged, bucketVars, invoiceVars, extracts, kyb>>

-----------------------------------------------------------------------------
(* The extraction.                                                         *)

(* First transaction, whatever has become of the invoice's status.         *)
ExtractionStarted(x) ==
  /\ x.pc = "begun"
  /\ status' = [status EXCEPT ![x.inv] = "EXTRACTING"]
  /\ extracts' = (extracts \ {x}) \cup {[x EXCEPT !.pc = "ocr"]}
  /\ UNCHANGED <<sessionVars, bucketVars, docs, results, kyb, faults>>

(* The form that waits for this extraction.                                *)
Awaits(f, x) == f = x.by /\ at[f] = "waiting" /\ names[f] = x.inv

(* The provider answers in the end.  A document it cannot fetch, or a      *)
(* reading it cannot parse, is an answer too, one without fields.          *)
OcrAnswers(x) == x.pc = "ocr"

(* Mutant: the form is not left when its invoice is there.                 *)
ExtractionDoneStaying(x) ==
  /\ OcrAnswers(x)
  /\ status' = [status EXCEPT ![x.inv] = "PENDING_BROKER_REVIEW"]
  /\ results' = [results EXCEPT ![x.inv] = @ \cup {x.doc}]
  /\ extracts' = extracts \ {x}
  /\ at' = [f \in Session |-> IF Awaits(f, x) THEN "confirm" ELSE at[f]]
  /\ UNCHANGED <<names, staged, hit, bucketVars, docs, kyb, faults>>

(* Second transaction, once the provider has answered.                     *)
ExtractionDone(x) ==
  /\ OcrAnswers(x)
  /\ status' = [status EXCEPT ![x.inv] = "PENDING_BROKER_REVIEW"]
  /\ results' = [results EXCEPT ![x.inv] = @ \cup {x.doc}]
  /\ extracts' = extracts \ {x}
  /\ at' = [f \in Session |-> IF Awaits(f, x) THEN "done" ELSE at[f]]
  /\ UNCHANGED <<names, staged, hit, bucketVars, docs, kyb, faults>>

(* The replica is lost between or before the transactions.                 *)
ReplicaLost(x) ==
  /\ Fault(x.by)
  /\ extracts' = extracts \ {x}
  /\ at' = [f \in Session |-> IF Awaits(f, x) THEN "confirm" ELSE at[f]]
  /\ UNCHANGED <<names, staged, bucketVars, invoiceVars, kyb>>

(* What the Broker may do meanwhile from the invoice's page.               *)
Cancel(i) ==
  /\ Exists(i) /\ IsLegalTransition(status[i], "CANCELLED")
  /\ status' = [status EXCEPT ![i] = "CANCELLED"]
  /\ UNCHANGED <<sessionVars, bucketVars, docs, results, extracts, kyb, faults>>

SubmitForApproval(i) ==
  /\ status[i] = "PENDING_BROKER_REVIEW"
  /\ status' = [status EXCEPT ![i] = "PENDING_MC_APPROVAL"]
  /\ UNCHANGED <<sessionVars, bucketVars, docs, results, extracts, kyb, faults>>

-----------------------------------------------------------------------------
(* Uploads by a client of the API, and the ocr-extraction-trigger Lambda.  *)

ClientAttach(f) ==
  /\ f \in Client /\ at[f] = "stored"
  /\ Goto(f, "done")
  /\ AddDocument(f, names[f])
  /\ UNCHANGED <<names, staged, hit, bucketVars, status, results, extracts, kyb,
                 faults>>

(* The call is refused while nothing is attached, and AWS retries.         *)
LambdaRefused(f) ==
  /\ events[f] > 0 /\ docs[names[f]] = {}
  /\ events' = [events EXCEPT ![f] = @ - 1]
  /\ UNCHANGED <<sessionVars, stored, invoiceVars, extracts, kyb, faults>>

LambdaExtracts(f) ==
  /\ events[f] > 0
  /\ BeginExtraction(names[f], f, events[f])
  /\ events' = [events EXCEPT ![f] = 0]
  /\ UNCHANGED <<sessionVars, stored, invoiceVars, kyb, faults>>

(* The Lambda times out over the OCR call, or S3 repeats the event: the    *)
(* extraction goes on, and AWS tries again.                                *)
LambdaTimesOut(f) ==
  /\ events[f] > 0
  /\ Fault(f)
  /\ BeginExtraction(names[f], f, events[f])
  /\ events' = [events EXCEPT ![f] = @ - 1]
  /\ UNCHANGED <<at, names, staged, stored, invoiceVars, kyb>>

-----------------------------------------------------------------------------
(* KYB and KYC documents.                                                  *)

SubmitKyb(f) ==
  /\ f \in KybForm /\ at[f] = "stored"
  /\ Goto(f, "done")
  /\ kyb' = [kyb EXCEPT ![f] = "PENDING"]
  /\ UNCHANGED <<names, staged, hit, bucketVars, invoiceVars, extracts, faults>>

(* The action throws, and the page shows its error.                        *)
KybFails(f) ==
  /\ f \in KybForm /\ at[f] \in {"signed", "stored"}
  /\ Fault(f)
  /\ Goto(f, "failed")
  /\ UNCHANGED <<names, staged, bucketVars, invoiceVars, extracts, kyb>>

(* Mutant: the update takes any string, as the request's check does.       *)
ReviewAnything(f) ==
  /\ kyb[f] # "NONE"
  /\ \E decision \in {"APPROVED", "REJECTED", "WAIVED"} :
       kyb' = [kyb EXCEPT ![f] = decision]
  /\ UNCHANGED <<sessionVars, bucketVars, invoiceVars, extracts, faults>>

(* The Admin's page offers a review of every document, reviewed or not.    *)
ReviewKyb(f) ==
  /\ kyb[f] # "NONE"
  /\ \E decision \in {"APPROVED", "REJECTED"} :
       kyb' = [kyb EXCEPT ![f] = decision]
  /\ UNCHANGED <<sessionVars, bucketVars, invoiceVars, extracts, faults>>

-----------------------------------------------------------------------------
(* What the portal's server does for a session without anybody's doing.    *)
ServerStep(f) ==
  \/ Put(f) \/ Preview(f) \/ SubmitKyb(f)
  \/ Create(f) \/ CreatedBare(f) \/ Attach(f) \/ Extract(f)

Begins(f) == Presign(f) \/ \E i \in Invoice : Confirm(f, i)

Fails(f) == UploadFails(f) \/ KybFails(f) \/ CallLost(f)

ExtractionStep(x) == ExtractionStarted(x) \/ ExtractionDone(x)

LambdaStep(f) == LambdaRefused(f) \/ LambdaExtracts(f)

Next ==
  \/ \E f \in Session :
       \/ Begins(f) \/ ServerStep(f) \/ Fails(f) \/ ReviewKyb(f)
       \/ ClientAttach(f) \/ LambdaStep(f) \/ LambdaTimesOut(f)
  \/ \E x \in extracts : ExtractionStep(x) \/ ReplicaLost(x)
  \/ \E i \in Invoice : Cancel(i) \/ SubmitForApproval(i)

(* Requests in flight get on, and AWS delivers its events.  Nothing is     *)
(* assumed of the Broker, the Admin or a client.                           *)
Spec ==
  /\ Init /\ [][Next]_vars
  /\ \A f \in Session : WF_vars(ServerStep(f)) /\ WF_vars(LambdaStep(f))
  /\ WF_vars(\E x \in extracts : ExtractionStep(x))

-----------------------------------------------------------------------------
(* An invoice or an account never points to a document that is not in the  *)
(* bucket: a key is only handed on after its PUT was answered, and a form  *)
(* whose upload failed forgets it.                                         *)
NoDanglingDocument ==
  /\ \A i \in Invoice : docs[i] \subseteq stored
  /\ \A f \in Session : kyb[f] # "NONE" => f \in stored

(* A form that tells its Broker the invoice is there tells the truth: this *)
(* form created it and no other did, and a document that was uploaded is   *)
(* attached and an extraction recorded.                                    *)
TellsTheTruth ==
  \A f \in InvoiceForm : at[f] = "done" =>
    /\ Exists(names[f])
    /\ \A g \in InvoiceForm : at[g] = "done" /\ names[g] = names[f] => g = f
    /\ f \in staged => f \in docs[names[f]] /\ results[names[f]] # {}

(* One document is not financed twice: it only comes to back two invoices  *)
(* of its Broker when a failed call left the form open to be confirmed     *)
(* again under another number.                                             *)
OneInvoicePerDocument ==
  \A f \in InvoiceForm, i, j \in Invoice :
    f \in docs[i] \cap docs[j] /\ i # j => f \in hit

(* A document the Broker uploaded and confirmed is extracted, unless a     *)
(* call of its form fails.                                                 *)
StagedUploadReviewed ==
  \A f \in InvoiceForm, i \in Invoice :
    (at[f] \in {"created", "attached", "waiting"} /\ f \in staged /\ names[f] = i)
      ~> (results[i] # {} \/ f \in hit)

(* An invoice whose form reported success leaves UPLOADED and EXTRACTING   *)
(* of itself, towards the Broker's review.                                 *)
LandsInReview ==
  \A f \in InvoiceForm, i \in Invoice :
    (at[f] = "done" /\ names[f] = i)
      ~> status[i] \notin {"UPLOADED", "EXTRACTING"}
=============================================================================
