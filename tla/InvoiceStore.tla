---------------------------- MODULE InvoiceStore ----------------------------
(***************************************************************************)
(* The tables the invoice handlers share, the calls in flight, and the     *)
(* helpers every handler goes through: writeStatusChange, LedgerService's  *)
(* record and CreditLimitsService's applyDelta and wouldExceed.            *)
(*                                                                         *)
(* A call is one HTTP request inside one of the API's replicas.  Its       *)
(* handler reads the database outside any transaction, checks what it      *)
(* read, and then runs one READ COMMITTED transaction.  Between two reads  *)
(* any other call may commit, so a call carries what it read with it.      *)
(***************************************************************************)
EXTENDS Cents, FiniteSets, InvoiceStatuses

CONSTANTS
  Invoice,       \* the (Broker, invoice number) pairs that may be uploaded
  MC,            \* Machinery Companies: the debtors
  Broker,        \* Brokers: the parties that upload invoices
  Debtor,        \* the Machinery Company of an invoice
  Owner,         \* the Broker of an invoice
  Amount,        \* totalAmount of an invoice, in cents
  AdvancePct,    \* DEFAULT_ADVANCE_PCT
  Request,       \* slots for calls in flight, over all API replicas
  ClientKeys,    \* values clients send in the idempotency-key header
  RowId,         \* ids of dispute, hold-event and chargeback rows
  LimitValues,   \* totals an Admin may set as an account's credit limit
  OpeningLimit,  \* the total an account starts with, NoLimit when not set
  Preapproved,   \* invoices that start out APPROVED_FOR_FUNDING
  Ops,           \* the handlers clients call in this instance
  PortalOnly,    \* clients call a handler only while its button is shown
  Serialised,    \* which calls do not overlap: "nothing", "invoice", "account"
  Volatile,      \* accounts whose onboarding is suspended and restored
  NoRow, NoLimit

AllOps ==
  {"create", "attach", "extract", "submit", "mcApprove", "mcDispute",
   "resolve", "underwrite", "respond", "cancel", "fund", "settle",
   "placeHold", "releaseHold", "chargeback", "writeOff"}

ASSUME StoreAssumption ==
  /\ Debtor \in [Invoice -> MC]
  /\ Owner \in [Invoice -> Broker]
  /\ Amount \in [Invoice -> Int]
  /\ AdvancePct \in 0..100
  /\ LimitValues \subseteq Nat
  /\ OpeningLimit \in [MC -> LimitValues \cup {NoLimit}]
  /\ NoLimit \notin Nat /\ NoLimit \notin [total: Nat, used: Int]
  /\ NoRow \notin RowId
  /\ Preapproved \subseteq Invoice
  /\ Ops \subseteq AllOps
  /\ PortalOnly \in BOOLEAN
  /\ Serialised \in {"nothing", "invoice", "account"}
  /\ Volatile \subseteq MC \cup Broker
  /\ ClientKeys \cap (AllOps \X Invoice) = {}

VARIABLES
  invoice,       \* the Invoice table: status, reserveAmount, reserveHold
  documented,    \* invoices with at least one InvoiceDocument
  onboarded,     \* accounts whose onboardingStatus is APPROVED
  disputes,      \* the Dispute table
  holds,         \* the ReserveHoldEvent table
  chargebacks,   \* the Chargeback table
  ledger,        \* the LedgerEntry table
  creditLog,     \* the CreditLimitChangeLog table
  limit,         \* the MachineryCompanyCreditLimit table
  matchedTo,     \* sum of the PaymentInvoiceMatch rows of an invoice
  notified,      \* the Notification table: <<invoice, status entered>>
  calls          \* the calls in flight

tables == <<invoice, documented, onboarded, disputes, holds, chargebacks,
            ledger, creditLog, limit, matchedTo, notified>>
storeVars == <<tables, calls>>

-----------------------------------------------------------------------------
(* Rows and types.  An invoice that has not been created has status NONE;  *)
(* a reserveAmount that is still null is 0, which is what settle makes of  *)
(* it.                                                                     *)

Advance(i) == Rounded(Amount[i] * AdvancePct, 100)
Reserve(i) == Rounded(Amount[i] * (100 - AdvancePct), 100)

InvoiceRow == [status: InvoiceStatus \cup {"NONE"}, reserveAmount: Int,
               reserveHold: BOOLEAN]

EntryType == {"FUNDING_DISBURSEMENT", "RESERVE_HOLD", "RESERVE_RELEASE",
              "CHARGEBACK", "WRITE_OFF"}
LogPart   == {"credit-limit", "credit-limit-restore"}
Reason    == {"INVOICE_FUNDED", "INVOICE_SETTLED", "CHARGEBACK"}

(* The default idempotency key of a money-moving call, e.g. fund:${id}.    *)
DefaultKey(op, i) == <<op, i>>
Key == (AllOps \X Invoice) \cup ClientKeys

Dispute    == [id: RowId, inv: Invoice, status: {"OPEN", "RESOLVED"}]
HoldEvent  == [id: RowId, inv: Invoice, active: BOOLEAN]
Chargeback == [id: RowId, inv: Invoice, amount: Int, entry: Key,
               status: {"COMPLETED", "WRITTEN_OFF"}]
Entry      == [key: Key, type: EntryType, inv: Invoice, amount: Int]
LogRow     == [key: Key, part: LogPart, inv: Invoice, reason: Reason,
               delta: Int]
LimitRow   == [total: Nat, used: Int]

(***************************************************************************)
(* A call: where it stands (pc), the status change it is going to write    *)
(* (from is hard-coded in every handler but cancel, which uses the status  *)
(* it read), an amount it was given or read, a row it found, and, inside a *)
(* money transaction, the idempotency keys it found taken and the          *)
(* currentUsed it read.                                                    *)
(***************************************************************************)
Call == [req: Request, op: AllOps,
         pc: {"begun", "checked", "tx", "ocr", "notify"},
         inv: Invoice, key: Key,
         from: InvoiceStatus, to: InvoiceStatus,
         amount: Int, row: RowId \cup {NoRow},
         found: SUBSET (EntryType \cup LogPart), used: Int]

Exists(i) == invoice[i].status # "NONE"

FreshIn(table) == {r \in RowId : \A x \in table : x.id # r}

-----------------------------------------------------------------------------
(* Requests and calls.                                                     *)

(* The statuses in which the portals show the button of a handler.         *)
OfferedIn(op) ==
  CASE op = "create"                       -> {"NONE"}
    [] op \in {"attach", "extract"}        -> {"UPLOADED"}
    [] op = "submit"                       -> {"PENDING_BROKER_REVIEW"}
    [] op \in {"mcApprove", "mcDispute"}   -> {"PENDING_MC_APPROVAL"}
    [] op = "resolve"                      -> {"MC_DISPUTED"}
    [] op = "underwrite"                   -> {"PENDING_UNDERWRITING"}
    [] op = "respond"                      -> {"INFO_REQUESTED"}
    [] op = "cancel"                       -> PreFundingStatuses
    [] op = "fund"                         -> {"APPROVED_FOR_FUNDING"}
    [] op = "writeOff"                     -> {"CHARGED_BACK"}
    [] OTHER                               -> {"FUNDED"}

(* Which calls an instance keeps from overlapping (the code: none).        *)
Apart(i, j) ==
  CASE Serialised = "nothing" -> TRUE
    [] Serialised = "invoice" -> i # j
    [] Serialised = "account" -> Debtor[i] # Debtor[j]

Requested(op, i) ==
  /\ op \in Ops
  /\ PortalOnly => invoice[i].status \in OfferedIn(op)
  /\ \A c \in calls : Apart(c.inv, i)

(* A request arrives and passes the handler's first guards.                *)
Begin(op, i, key, from, to, amount) ==
  /\ Requested(op, i)
  /\ \E r \in Request :
       /\ \A c \in calls : c.req # r
       /\ calls' = calls \cup
            {[req |-> r, op |-> op, pc |-> "begun", inv |-> i, key |-> key,
              from |-> from, to |-> to, amount |-> amount, row |-> NoRow,
              found |-> {}, used |-> 0]}
  /\ UNCHANGED tables

(* A call that moves no money carries no idempotency key of a client.      *)
BeginPlain(op, i, from, to) == Begin(op, i, DefaultKey(op, i), from, to, 0)

At(c, op, pc)    == c \in calls /\ c.op = op /\ c.pc = pc
Become(c, d)     == calls' = (calls \ {c}) \cup {d}
Respond(c)       == calls' = calls \ {c}
RespondNotify(c) == Become(c, [c EXCEPT !.pc = "notify", !.amount = 0,
                                        !.row = NoRow, !.found = {},
                                        !.used = 0])

(* The row lock taken by a money transaction's update of its invoice.      *)
Locked(i) == \E c \in calls : c.inv = i /\ c.pc = "tx"

(* Mutant: the pair is not checked against the table.                      *)
WriteStatusUnchecked(c, reserveAmount) ==
  invoice' = [invoice EXCEPT ![c.inv].status = c.to,
                             ![c.inv].reserveAmount = reserveAmount]

(***************************************************************************)
(* writeStatusChange: only the pair it was handed is checked; the update   *)
(* selects the invoice by id and overwrites whatever status it now has.    *)
(* The status-history and audit rows written beside it are not kept.       *)
(***************************************************************************)
WriteStatusChange(c, reserveAmount) ==
  /\ IsLegalTransition(c.from, c.to)
  /\ invoice' = [invoice EXCEPT ![c.inv].status = c.to,
                                ![c.inv].reserveAmount = reserveAmount]

-----------------------------------------------------------------------------
(* LedgerService.record and CreditLimitsService.                           *)

Recorded(key, type) == \E e \in ledger : e.key = key /\ e.type = type
Logged(key, part)   == \E l \in creditLog : l.key = key /\ l.part = part

KeysFound(key) == {t \in EntryType : Recorded(key, t)}
                    \cup {p \in LogPart : Logged(key, p)}

EntryOf(c, type, amount) ==
  [key |-> c.key, type |-> type, inv |-> c.inv, amount |-> amount]

(* An entry whose key was found is returned untouched; one whose key was   *)
(* taken since by another transaction violates the unique index.           *)
Record(c, entries) ==
  /\ \A e \in entries : e.type \in c.found \/ ~ Recorded(e.key, e.type)
  /\ ledger' = ledger \cup {e \in entries : e.type \notin c.found}

(* applyDelta writes the absolute value computed from the used it read.    *)
ApplyDelta(c, part, reason, delta) ==
  IF part \in c.found
  THEN UNCHANGED <<limit, creditLog>>
  ELSE /\ limit[Debtor[c.inv]] # NoLimit
       /\ ~ Logged(c.key, part)
       /\ limit' = [limit EXCEPT ![Debtor[c.inv]].used = c.used + delta]
       /\ creditLog' = creditLog \cup
            {[key |-> c.key, part |-> part, inv |-> c.inv,
              reason |-> reason, delta |-> delta]}

(* assertWithinCreditLimit, from the negation of wouldExceed.              *)
WithinCreditLimit(i) ==
  LET row == limit[Debtor[i]]
  IN  row # NoLimit /\ row.used + Amount[i] <= row.total

(* Mutant: a new total starts a new count.                                 *)
SetLimitAfresh(m, t) ==
  /\ \A c \in calls : Serialised = "account" => Debtor[c.inv] # m
  /\ limit' = [limit EXCEPT ![m] = [total |-> t, used |-> 0]]
  /\ UNCHANGED <<invoice, documented, onboarded, disputes, holds,
                 chargebacks, ledger, creditLog, matchedTo, notified, calls>>

(* Admin sets the total: an upsert that never touches currentUsed.         *)
SetLimit(m, t) ==
  /\ \A c \in calls : Serialised = "account" => Debtor[c.inv] # m
  /\ limit' = [limit EXCEPT ![m] =
       IF @ = NoLimit THEN [total |-> t, used |-> 0]
                      ELSE [@ EXCEPT !.total = t]]
  /\ UNCHANGED <<invoice, documented, onboarded, disputes, holds,
                 chargebacks, ledger, creditLog, matchedTo, notified, calls>>

(* Onboarding moves an account between APPROVED and SUSPENDED.             *)
OnboardingMove(a) ==
  /\ a \in Volatile
  /\ onboarded' = IF a \in onboarded THEN onboarded \ {a}
                                     ELSE onboarded \cup {a}
  /\ UNCHANGED <<invoice, documented, disputes, holds, chargebacks, ledger,
                 creditLog, limit, matchedTo, notified, calls>>

(* The rows notify() writes after the transaction has committed.           *)
Notify(c) ==
  /\ c \in calls /\ c.pc = "notify"
  /\ notified' = notified \cup {<<c.inv, c.to>>}
  /\ Respond(c)
  /\ UNCHANGED <<invoice, documented, onboarded, disputes, holds,
                 chargebacks, ledger, creditLog, limit, matchedTo>>

(* A later guard refuses, a query or the OCR call throws, a transaction is *)
(* rolled back (unique index, timeout), or the replica dies.               *)
Abandon(c) == c \in calls /\ Respond(c) /\ UNCHANGED tables

StoreInit ==
  /\ invoice = [i \in Invoice |->
       [status |-> IF i \in Preapproved THEN "APPROVED_FOR_FUNDING"
                                        ELSE "NONE",
        reserveAmount |-> 0, reserveHold |-> FALSE]]
  /\ documented = Preapproved
  /\ onboarded = MC \cup Broker
  /\ disputes = {} /\ holds = {} /\ chargebacks = {}
  /\ ledger = {} /\ creditLog = {}
  /\ limit = [m \in MC |-> IF OpeningLimit[m] = NoLimit THEN NoLimit
                           ELSE [total |-> OpeningLimit[m], used |-> 0]]
  /\ matchedTo = [i \in Invoice |-> 0]
  /\ notified = {}
  /\ calls = {}
=============================================================================
