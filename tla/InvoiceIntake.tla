---------------------------- MODULE InvoiceIntake ----------------------------
(***************************************************************************)
(* The handlers of InvoicesService that take an invoice from upload to     *)
(* APPROVED_FOR_FUNDING: create, attachDocument, runExtraction,            *)
(* submitForApproval, mcApprove, mcDispute, resolveDispute, underwrite,    *)
(* respondToInfoRequest and cancel.  None of them compares the status it   *)
(* is about to overwrite with the one its status change is written for.    *)
(***************************************************************************)
EXTENDS InvoiceStore

-----------------------------------------------------------------------------
(* Broker: upload.                                                         *)

(* Both parties onboarded, and no invoice with that number yet.            *)
CreateBegin(i) ==
  /\ {Owner[i], Debtor[i]} \subseteq onboarded
  /\ ~ Exists(i)
  /\ BeginPlain("create", i, "DRAFT", "UPLOADED")

(* Inserted as DRAFT and moved to UPLOADED in one transaction; the unique  *)
(* index on broker and number refuses a second insert.                     *)
Create(c) ==
  /\ At(c, "create", "begun")
  /\ ~ Exists(c.inv)
  /\ WriteStatusChange(c, 0)
  /\ Respond(c)
  /\ UNCHANGED <<documented, onboarded, disputes, holds, chargebacks, ledger,
                 creditLog, limit, matchedTo, notified>>

AttachDocument(i) ==
  /\ Exists(i)
  /\ Requested("attach", i)
  /\ documented' = documented \cup {i}
  /\ UNCHANGED <<invoice, onboarded, disputes, holds, chargebacks, ledger,
                 creditLog, limit, matchedTo, notified, calls>>

(* runExtraction and runExtractionAsSystem share one core.                 *)
RunExtraction(i) ==
  /\ Exists(i) /\ i \in documented
  /\ BeginPlain("extract", i, "UPLOADED", "EXTRACTING")

(* First transaction; the OCR provider is then called outside any.         *)
ExtractionStarted(c) ==
  /\ At(c, "extract", "begun")
  /\ ~ Locked(c.inv)
  /\ WriteStatusChange(c, invoice[c.inv].reserveAmount)
  /\ Become(c, [c EXCEPT !.pc = "ocr", !.from = "EXTRACTING",
                         !.to = "PENDING_BROKER_REVIEW"])
  /\ UNCHANGED <<documented, onboarded, disputes, holds, chargebacks, ledger,
                 creditLog, limit, matchedTo, notified>>

(* Second transaction, once the provider has answered.                     *)
ExtractionDone(c) ==
  /\ At(c, "extract", "ocr")
  /\ ~ Locked(c.inv)
  /\ WriteStatusChange(c, invoice[c.inv].reserveAmount)
  /\ Respond(c)
  /\ UNCHANGED <<documented, onboarded, disputes, holds, chargebacks, ledger,
                 creditLog, limit, matchedTo, notified>>

-----------------------------------------------------------------------------
(* The handlers that only change the status: what each one reads first.    *)

SubmitForApproval(i) ==
  /\ Exists(i)
  /\ BeginPlain("submit", i, "PENDING_BROKER_REVIEW", "PENDING_MC_APPROVAL")

McApprove(i) ==
  /\ Exists(i) /\ Debtor[i] \in onboarded
  /\ BeginPlain("mcApprove", i, "PENDING_MC_APPROVAL", "PENDING_UNDERWRITING")

Underwrite(i, decision) ==
  /\ Exists(i)
  /\ decision \in {"APPROVED_FOR_FUNDING", "REJECTED", "INFO_REQUESTED"}
  /\ BeginPlain("underwrite", i, "PENDING_UNDERWRITING", decision)

(* The credit gate of an APPROVE decision, read before the transaction.    *)
UnderwriteCheck(c) ==
  /\ At(c, "underwrite", "begun") /\ c.to = "APPROVED_FOR_FUNDING"
  /\ WithinCreditLimit(c.inv)
  /\ Become(c, [c EXCEPT !.pc = "checked"])
  /\ UNCHANGED tables

RespondToInfoRequest(i) ==
  /\ Exists(i)
  /\ BeginPlain("respond", i, "INFO_REQUESTED", "PENDING_UNDERWRITING")

(* The only handler that uses the status it read as the one it leaves.     *)
Cancel(i) ==
  /\ Exists(i)
  /\ BeginPlain("cancel", i, invoice[i].status, "CANCELLED")

ReadyToChangeStatus(c) ==
  \/ \E op \in {"submit", "mcApprove", "respond", "cancel"} : At(c, op, "begun")
  \/ At(c, "underwrite", "begun") /\ c.to # "APPROVED_FOR_FUNDING"
  \/ At(c, "underwrite", "checked")

(* Submission and the two refusing decisions notify after the commit.      *)
Notifies(c) ==
  \/ c.op = "submit"
  \/ c.op = "underwrite" /\ c.to # "APPROVED_FOR_FUNDING"

(* Mutant: the update carries a defaulted reserveAmount.                   *)
ChangeStatusResetting(c) ==
  /\ ReadyToChangeStatus(c)
  /\ ~ Locked(c.inv)
  /\ WriteStatusChange(c, 0)
  /\ IF Notifies(c) THEN RespondNotify(c) ELSE Respond(c)
  /\ UNCHANGED <<documented, onboarded, disputes, holds, chargebacks, ledger,
                 creditLog, limit, matchedTo, notified>>

(* The transaction those handlers end with.                                *)
ChangeStatus(c) ==
  /\ ReadyToChangeStatus(c)
  /\ ~ Locked(c.inv)
  /\ WriteStatusChange(c, invoice[c.inv].reserveAmount)
  /\ IF Notifies(c) THEN RespondNotify(c) ELSE Respond(c)
  /\ UNCHANGED <<documented, onboarded, disputes, holds, chargebacks, ledger,
                 creditLog, limit, matchedTo, notified>>

-----------------------------------------------------------------------------
(* Disputes.                                                               *)

McDisputeBegin(i) ==
  /\ Exists(i)
  /\ BeginPlain("mcDispute", i, "PENDING_MC_APPROVAL", "MC_DISPUTED")

McDispute(c) ==
  /\ At(c, "mcDispute", "begun")
  /\ ~ Locked(c.inv)
  /\ \E d \in FreshIn(disputes) :
       disputes' = disputes \cup {[id |-> d, inv |-> c.inv, status |-> "OPEN"]}
  /\ WriteStatusChange(c, invoice[c.inv].reserveAmount)
  /\ RespondNotify(c)
  /\ UNCHANGED <<documented, onboarded, holds, chargebacks, ledger, creditLog,
                 limit, matchedTo, notified>>

OpenDisputes(i) == {d \in disputes : d.inv = i /\ d.status = "OPEN"}

ResolveDisputeBegin(i, to) ==
  /\ Exists(i)
  /\ to \in {"PENDING_MC_APPROVAL", "CANCELLED"}
  /\ BeginPlain("resolve", i, "MC_DISPUTED", to)

(* Mutant: the dispute is resolved outside the transaction.                *)
ResolveDisputeEarly(c) ==
  /\ At(c, "resolve", "begun")
  /\ disputes' = {IF d \in OpenDisputes(c.inv)
                    THEN [d EXCEPT !.status = "RESOLVED"] ELSE d : d \in disputes}
  /\ Become(c, [c EXCEPT !.pc = "checked"])
  /\ UNCHANGED <<invoice, documented, onboarded, holds, chargebacks, ledger,
                 creditLog, limit, matchedTo, notified>>

(* findFirst over the invoice's open disputes, inside the transaction but  *)
(* without a lock: two calls may find the same row, or find none.          *)
ResolveDisputeFind(c) ==
  /\ At(c, "resolve", "begun")
  /\ \E row \in IF OpenDisputes(c.inv) = {} THEN {NoRow}
                ELSE {d.id : d \in OpenDisputes(c.inv)} :
       Become(c, [c EXCEPT !.pc = "checked", !.row = row])
  /\ UNCHANGED tables

ResolveDispute(c) ==
  /\ At(c, "resolve", "checked")
  /\ ~ Locked(c.inv)
  /\ disputes' = {IF d.id = c.row THEN [d EXCEPT !.status = "RESOLVED"] ELSE d :
                    d \in disputes}
  /\ WriteStatusChange(c, invoice[c.inv].reserveAmount)
  /\ Respond(c)
  /\ UNCHANGED <<documented, onboarded, holds, chargebacks, ledger, creditLog,
                 limit, matchedTo, notified>>

-----------------------------------------------------------------------------
IntakeNext ==
  \/ \E i \in Invoice :
       \/ CreateBegin(i) \/ AttachDocument(i) \/ RunExtraction(i)
       \/ SubmitForApproval(i) \/ McApprove(i) \/ McDisputeBegin(i)
       \/ RespondToInfoRequest(i) \/ Cancel(i)
       \/ \E to \in InvoiceStatus : Underwrite(i, to)
                                      \/ ResolveDisputeBegin(i, to)
  \/ \E c \in calls :
       \/ Create(c) \/ ExtractionStarted(c) \/ ExtractionDone(c)
       \/ UnderwriteCheck(c) \/ ChangeStatus(c) \/ McDispute(c)
       \/ ResolveDisputeFind(c) \/ ResolveDispute(c)
=============================================================================
