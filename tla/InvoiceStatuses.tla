--------------------------- MODULE InvoiceStatuses ---------------------------
(***************************************************************************)
(* The invoice lifecycle table shared by the API and the web portals       *)
(* (packages/shared).  Pure definitions: no state.                         *)
(***************************************************************************)

InvoiceStatus ==
  {"DRAFT", "UPLOADED", "EXTRACTING", "PENDING_BROKER_REVIEW",
   "PENDING_MC_APPROVAL", "MC_DISPUTED", "PENDING_UNDERWRITING",
   "INFO_REQUESTED", "REJECTED", "APPROVED_FOR_FUNDING", "FUNDED",
   "SETTLED", "CHARGED_BACK", "WRITTEN_OFF", "CANCELLED"}

(***************************************************************************)
(* The legal successors of a status; the four statuses not listed (and any *)
(* status the table does not know) have none.                              *)
(***************************************************************************)
Transitions(from) ==
  CASE from = "DRAFT"                 -> {"UPLOADED", "CANCELLED"}
    [] from = "UPLOADED"              -> {"EXTRACTING", "CANCELLED"}
    [] from = "EXTRACTING"            -> {"PENDING_BROKER_REVIEW"}
    [] from = "PENDING_BROKER_REVIEW" -> {"PENDING_MC_APPROVAL", "CANCELLED"}
    [] from = "PENDING_MC_APPROVAL"   ->
         {"MC_DISPUTED", "PENDING_UNDERWRITING", "CANCELLED"}
    [] from = "MC_DISPUTED"           -> {"PENDING_MC_APPROVAL", "CANCELLED"}
    [] from = "PENDING_UNDERWRITING"  ->
         {"APPROVED_FOR_FUNDING", "REJECTED", "INFO_REQUESTED"}
    [] from = "INFO_REQUESTED"        -> {"PENDING_UNDERWRITING"}
    [] from = "APPROVED_FOR_FUNDING"  -> {"FUNDED"}
    [] from = "FUNDED"                -> {"SETTLED", "CHARGED_BACK"}
    [] from = "CHARGED_BACK"          -> {"WRITTEN_OFF"}
    [] OTHER                          -> {}

IsLegalTransition(from, to) == to \in Transitions(from)

(* "States prior to FUNDED where an invoice can still be withdrawn": the   *)
(* statuses in which the Broker page shows its Cancel button.              *)
PreFundingStatuses ==
  {"DRAFT", "UPLOADED", "EXTRACTING", "PENDING_BROKER_REVIEW",
   "PENDING_MC_APPROVAL", "MC_DISPUTED", "PENDING_UNDERWRITING",
   "INFO_REQUESTED"}

(* The statuses in which an invoice counts against the debtor's limit.     *)
CreditExposedStatuses == {"FUNDED"}
=============================================================================
