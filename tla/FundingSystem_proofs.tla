------------------------- MODULE FundingSystem_proofs -------------------------
(***************************************************************************)
(* Proofs about FundingSystem for every value of its constants, whatever   *)
(* calls overlap and whatever keys clients send: the types first, then     *)
(* what the dispute and hold tables promise and that an invoice is not     *)
(* uploaded twice.                                                         *)
(***************************************************************************)
EXTENDS FundingSystem, TLAPS

(* The type invariant with the part of it that belongs to Payments.        *)
TypeInv == TypeOK /\ Pay!PaymentsTypeOK

-----------------------------------------------------------------------------
(* The helpers every handler goes through keep the types.                  *)

(* Replacing a call in flight by a well-typed one.                         *)
LEMMA BecomeTyped ==
  ASSUME calls \subseteq Call, NEW c, NEW d \in Call, Become(c, d)
  PROVE  calls' \subseteq Call
  BY DEF Become

(* A response only ever removes calls.                                     *)
LEMMA RespondTyped ==
  ASSUME calls \subseteq Call, NEW c, Respond(c)
  PROVE  calls' \subseteq Call
  BY DEF Respond

(* A call keeps its type whatever a step makes of these five fields.       *)
LEMMA CallUpdateTyped ==
  ASSUME NEW c \in Call, NEW pc \in {"begun", "checked", "tx", "ocr", "notify"},
         NEW amount \in Int, NEW row \in RowId \cup {NoRow},
         NEW found \in SUBSET (EntryType \cup LogPart), NEW used \in Int
  PROVE  [c EXCEPT !.pc = pc, !.amount = amount, !.row = row,
                   !.found = found, !.used = used] \in Call
  BY DEF Call

(* A call that is about to notify has dropped what it read.                *)
LEMMA RespondNotifyTyped ==
  ASSUME calls \subseteq Call, NEW c \in Call, RespondNotify(c)
  PROVE  calls' \subseteq Call
<1> DEFINE zero == 0
           none == {}
<1>1. zero \in Int /\ none \in SUBSET (EntryType \cup LogPart)
      /\ NoRow \in RowId \cup {NoRow}
  OBVIOUS
<1>2. Become(c, [c EXCEPT !.pc = "notify", !.amount = zero, !.row = NoRow,
                          !.found = none, !.used = zero])
  BY DEF RespondNotify
<1> HIDE DEF zero, none
<1>3. [c EXCEPT !.pc = "notify", !.amount = zero, !.row = NoRow,
                !.found = none, !.used = zero] \in Call
  BY <1>1, CallUpdateTyped
<1> QED BY <1>2, <1>3, BecomeTyped

(* A request that arrives adds one well-typed call and touches no table.   *)
LEMMA BeginTyped ==
  ASSUME calls \subseteq Call,
         NEW op \in AllOps, NEW i \in Invoice, NEW key \in Key,
         NEW from \in InvoiceStatus, NEW to \in InvoiceStatus,
         NEW amount \in Int, Begin(op, i, key, from, to, amount)
  PROVE  calls' \subseteq Call /\ UNCHANGED tables
<1>1. PICK r \in Request :
        calls' = calls \cup
          {[req |-> r, op |-> op, pc |-> "begun", inv |-> i, key |-> key,
            from |-> from, to |-> to, amount |-> amount, row |-> NoRow,
            found |-> {}, used |-> 0]}
  BY DEF Begin
<1>2. [req |-> r, op |-> op, pc |-> "begun", inv |-> i, key |-> key,
       from |-> from, to |-> to, amount |-> amount, row |-> NoRow,
       found |-> {}, used |-> 0] \in Call
  BY DEF Call
<1> QED BY <1>1, <1>2 DEF Begin

(* A status change writes a known status into the row of one invoice.      *)
LEMMA WriteStatusChangeTyped ==
  ASSUME invoice \in [Invoice -> InvoiceRow], NEW c \in Call,
         NEW reserveAmount \in Int, WriteStatusChange(c, reserveAmount)
  PROVE  invoice' \in [Invoice -> InvoiceRow]
  BY DEF WriteStatusChange, InvoiceRow, Call

(* New ledger entries carry the call's key and invoice.                    *)
LEMMA RecordTyped ==
  ASSUME ledger \subseteq Entry, NEW c, NEW entries \in SUBSET Entry,
         Record(c, entries)
  PROVE  ledger' \subseteq Entry
  BY DEF Record

(* The counter moves by an integer, in the row of the call's debtor.       *)
LEMMA ApplyDeltaTyped ==
  ASSUME limit \in [MC -> LimitRow \cup {NoLimit}], creditLog \subseteq LogRow,
         NEW c \in Call, NEW part \in LogPart, NEW reason \in Reason,
         NEW delta \in Int, ApplyDelta(c, part, reason, delta)
  PROVE  /\ limit' \in [MC -> LimitRow \cup {NoLimit}]
         /\ creditLog' \subseteq LogRow
<1>1. CASE part \in c.found
  BY <1>1 DEF ApplyDelta
<1>2. CASE part \notin c.found
  <2> DEFINE m == Debtor[c.inv]
  <2>1. m \in MC /\ c.inv \in Invoice /\ c.key \in Key /\ c.used \in Int
    BY StoreAssumption DEF Call, StoreAssumption
  <2>2. limit[m] # NoLimit
    BY <1>2 DEF ApplyDelta
  <2>3. limit[m] \in LimitRow
    BY <2>1, <2>2
  <2>4. [limit[m] EXCEPT !.used = c.used + delta] \in LimitRow
    BY <2>1, <2>3 DEF LimitRow
  <2>5. limit' = [limit EXCEPT ![m] = [limit[m] EXCEPT !.used = c.used + delta]]
    BY <1>2 DEF ApplyDelta
  <2>6. limit' \in [MC -> LimitRow \cup {NoLimit}]
    BY <2>1, <2>4, <2>5
  <2>7. [key |-> c.key, part |-> part, inv |-> c.inv, reason |-> reason,
         delta |-> delta] \in LogRow
    BY <2>1 DEF LogRow
  <2>8. creditLog' \subseteq LogRow
    BY <1>2, <2>7 DEF ApplyDelta
  <2> QED BY <2>6, <2>8
<1> QED BY <1>1, <1>2

(* The amounts of a funding are integers of cents.                         *)
LEMMA SplitTyped ==
  ASSUME NEW i \in Invoice
  PROVE  Advance(i) \in Int /\ Reserve(i) \in Int /\ Amount[i] \in Int
<1>1. Amount[i] \in Int /\ AdvancePct \in Int
  BY StoreAssumption DEF StoreAssumption
<1>2. \A n \in Int : Rounded(n, 100) \in Int
  BY DEF Rounded
<1>3. Amount[i] * AdvancePct \in Int /\ Amount[i] * (100 - AdvancePct) \in Int
  BY <1>1
<1> QED BY <1>1, <1>2, <1>3 DEF Advance, Reserve

(* A call that moves no money arrives.                                     *)
LEMMA BeginPlainTyped ==
  ASSUME TypeOK, NEW op \in AllOps, NEW i \in Invoice,
         NEW from \in InvoiceStatus, NEW to \in InvoiceStatus,
         BeginPlain(op, i, from, to)
  PROVE  TypeOK'
<1>1. DefaultKey(op, i) \in Key
  BY DEF DefaultKey, Key
<1>2. calls' \subseteq Call /\ UNCHANGED tables
  BY <1>1, BeginTyped DEF BeginPlain, TypeOK
<1> QED BY <1>2 DEF TypeOK, tables

(* A call that moves money arrives, with the client's key or the default.  *)
LEMMA BeginMoneyTyped ==
  ASSUME TypeOK, NEW op \in AllOps, NEW i \in Invoice,
         NEW from \in InvoiceStatus, NEW to \in InvoiceStatus,
         NEW amount \in Int, BeginMoney(op, i, from, to, amount)
  PROVE  TypeOK'
<1>1. PICK key \in KeysFor(op, i) : Begin(op, i, key, from, to, amount)
  BY DEF BeginMoney
<1>2. key \in Key
  BY <1>1 DEF KeysFor, DefaultKey, Key
<1>3. calls' \subseteq Call /\ UNCHANGED tables
  BY <1>1, <1>2, BeginTyped DEF TypeOK
<1> QED BY <1>3 DEF TypeOK, tables

(* A step that only moves a call on, leaving every table alone.            *)
LEMMA MoveOnTyped ==
  ASSUME TypeOK, NEW c \in calls, NEW d \in Call, Become(c, d),
         UNCHANGED tables
  PROVE  TypeOK'
<1>1. calls' \subseteq Call
  BY BecomeTyped DEF TypeOK
<1> QED BY <1>1 DEF TypeOK, tables

-----------------------------------------------------------------------------
(* Every handler keeps the types.                                          *)

(* What the rows of an invoice and of a call in flight hold.               *)
LEMMA RowsTyped ==
  ASSUME TypeOK
  PROVE  /\ \A i \in Invoice : /\ invoice[i].reserveAmount \in Int
                               /\ Exists(i) => invoice[i].status \in InvoiceStatus
         /\ \A c \in calls : c \in Call /\ c.inv \in Invoice
  BY DEF TypeOK, InvoiceRow, Call, Exists

(* A transaction that writes one status change and ends, or ends with a    *)
(* notification: submission, approvals, decisions, cancellation, uploads.  *)
LEMMA StatusStepTyped ==
  ASSUME TypeOK, NEW c \in calls, NEW reserveAmount \in Int,
         WriteStatusChange(c, reserveAmount), calls' \subseteq Call,
         UNCHANGED <<documented, onboarded, holds, chargebacks, ledger,
                     creditLog, limit, matchedTo, notified>>,
         disputes' \subseteq Dispute
  PROVE  TypeOK'
<1>1. invoice' \in [Invoice -> InvoiceRow]
  BY RowsTyped, WriteStatusChangeTyped DEF TypeOK
<1> QED BY <1>1 DEF TypeOK

(* No handler before funding breaks the types.                             *)
LEMMA IntakeTyped == TypeOK /\ IntakeNext => TypeOK'
<1> SUFFICES ASSUME TypeOK, IntakeNext PROVE TypeOK'
  OBVIOUS
<1>1. ASSUME NEW i \in Invoice, CreateBegin(i) PROVE TypeOK'
  BY <1>1, BeginPlainTyped DEF CreateBegin, AllOps, InvoiceStatus
<1>2. ASSUME NEW i \in Invoice, AttachDocument(i) PROVE TypeOK'
  BY <1>2 DEF AttachDocument, TypeOK
<1>3. ASSUME NEW i \in Invoice, RunExtraction(i) PROVE TypeOK'
  BY <1>3, BeginPlainTyped DEF RunExtraction, AllOps, InvoiceStatus
<1>4. ASSUME NEW i \in Invoice, SubmitForApproval(i) PROVE TypeOK'
  BY <1>4, BeginPlainTyped DEF SubmitForApproval, AllOps, InvoiceStatus
<1>5. ASSUME NEW i \in Invoice, McApprove(i) PROVE TypeOK'
  BY <1>5, BeginPlainTyped DEF McApprove, AllOps, InvoiceStatus
<1>6. ASSUME NEW i \in Invoice, McDisputeBegin(i) PROVE TypeOK'
  BY <1>6, BeginPlainTyped DEF McDisputeBegin, AllOps, InvoiceStatus
<1>7. ASSUME NEW i \in Invoice, RespondToInfoRequest(i) PROVE TypeOK'
  BY <1>7, BeginPlainTyped DEF RespondToInfoRequest, AllOps, InvoiceStatus
<1>8. ASSUME NEW i \in Invoice, Cancel(i) PROVE TypeOK'
  <2>1. invoice[i].status \in InvoiceStatus
    BY <1>8, RowsTyped DEF Cancel
  <2> QED BY <1>8, <2>1, BeginPlainTyped DEF Cancel, AllOps, InvoiceStatus
<1>9. ASSUME NEW i \in Invoice, NEW to \in InvoiceStatus, Underwrite(i, to)
      PROVE  TypeOK'
  BY <1>9, BeginPlainTyped DEF Underwrite, AllOps, InvoiceStatus
<1>10. ASSUME NEW i \in Invoice, NEW to \in InvoiceStatus,
              ResolveDisputeBegin(i, to)
       PROVE  TypeOK'
  BY <1>10, BeginPlainTyped DEF ResolveDisputeBegin, AllOps, InvoiceStatus
<1>11. ASSUME NEW c \in calls, Create(c) PROVE TypeOK'
  <2>1. calls' \subseteq Call
    BY <1>11, RespondTyped DEF Create, TypeOK
  <2> QED BY <1>11, <2>1, StatusStepTyped DEF Create, TypeOK
<1>12. ASSUME NEW c \in calls, ExtractionStarted(c) PROVE TypeOK'
  <2>1. [c EXCEPT !.pc = "ocr", !.from = "EXTRACTING",
                  !.to = "PENDING_BROKER_REVIEW"] \in Call
    BY RowsTyped DEF Call, InvoiceStatus
  <2>2. calls' \subseteq Call
    BY <1>12, <2>1, BecomeTyped DEF ExtractionStarted, TypeOK
  <2> QED BY <1>12, <2>2, RowsTyped, StatusStepTyped DEF ExtractionStarted, TypeOK
<1>13. ASSUME NEW c \in calls, ExtractionDone(c) PROVE TypeOK'
  <2>1. calls' \subseteq Call
    BY <1>13, RespondTyped DEF ExtractionDone, TypeOK
  <2> QED BY <1>13, <2>1, RowsTyped, StatusStepTyped DEF ExtractionDone, TypeOK
<1>14. ASSUME NEW c \in calls, UnderwriteCheck(c) PROVE TypeOK'
  <2>1. [c EXCEPT !.pc = "checked"] \in Call
    BY RowsTyped DEF Call
  <2> QED BY <1>14, <2>1, MoveOnTyped DEF UnderwriteCheck
<1>15. ASSUME NEW c \in calls, ChangeStatus(c) PROVE TypeOK'
  <2>1. calls' \subseteq Call
    BY <1>15, RowsTyped, RespondTyped, RespondNotifyTyped
       DEF ChangeStatus, TypeOK
  <2> QED BY <1>15, <2>1, RowsTyped, StatusStepTyped DEF ChangeStatus, TypeOK
<1>16. ASSUME NEW c \in calls, McDispute(c) PROVE TypeOK'
  <2>1. calls' \subseteq Call
    BY <1>16, RowsTyped, RespondNotifyTyped DEF McDispute, TypeOK
  <2>2. disputes' \subseteq Dispute
    BY <1>16, RowsTyped DEF McDispute, Dispute, FreshIn, TypeOK
  <2> QED BY <1>16, <2>1, <2>2, RowsTyped, StatusStepTyped DEF McDispute
<1>17. ASSUME NEW c \in calls, ResolveDisputeFind(c) PROVE TypeOK'
  <2>1. PICK row \in RowId \cup {NoRow} :
          Become(c, [c EXCEPT !.pc = "checked", !.row = row])
    BY <1>17 DEF ResolveDisputeFind, OpenDisputes, Dispute, TypeOK
  <2>2. [c EXCEPT !.pc = "checked", !.row = row] \in Call
    BY RowsTyped DEF Call
  <2> QED BY <1>17, <2>1, <2>2, MoveOnTyped DEF ResolveDisputeFind
<1>18. ASSUME NEW c \in calls, ResolveDispute(c) PROVE TypeOK'
  <2>1. calls' \subseteq Call
    BY <1>18, RespondTyped DEF ResolveDispute, TypeOK
  <2>2. disputes' \subseteq Dispute
    BY <1>18 DEF ResolveDispute, Dispute, TypeOK
  <2> QED BY <1>18, <2>1, <2>2, RowsTyped, StatusStepTyped DEF ResolveDispute
<1> QED
  BY <1>1, <1>2, <1>3, <1>4, <1>5, <1>6, <1>7, <1>8, <1>9, <1>10, <1>11,
     <1>12, <1>13, <1>14, <1>15, <1>16, <1>17, <1>18 DEF IntakeNext

(* No handler that moves money breaks the types.                           *)
LEMMA ServicingTyped == TypeOK /\ ServicingNext => TypeOK'
<1> SUFFICES ASSUME TypeOK, ServicingNext PROVE TypeOK'
  OBVIOUS
<1>1. ASSUME NEW i \in Invoice, FundBegin(i) PROVE TypeOK'
  BY <1>1, BeginMoneyTyped DEF FundBegin, AllOps, InvoiceStatus
<1>2. ASSUME NEW i \in Invoice, SettleBegin(i) PROVE TypeOK'
  BY <1>2, RowsTyped, BeginMoneyTyped DEF SettleBegin, AllOps, InvoiceStatus
<1>3. ASSUME NEW i \in Invoice, PlaceHoldBegin(i) PROVE TypeOK'
  BY <1>3, BeginPlainTyped DEF PlaceHoldBegin, AllOps, InvoiceStatus
<1>4. ASSUME NEW i \in Invoice, ReleaseHoldBegin(i) PROVE TypeOK'
  BY <1>4, BeginPlainTyped DEF ReleaseHoldBegin, AllOps, InvoiceStatus
<1>5. ASSUME NEW i \in Invoice, WriteOffBegin(i) PROVE TypeOK'
  BY <1>5, BeginMoneyTyped DEF WriteOffBegin, AllOps, InvoiceStatus
<1>6. ASSUME NEW i \in Invoice, NEW a \in ChargebackAmounts, ChargebackBegin(i, a)
      PROVE  TypeOK'
  <2>1. a \in Int
    BY ServicingAssumption DEF ServicingAssumption
  <2> QED BY <1>6, <2>1, BeginMoneyTyped DEF ChargebackBegin, AllOps, InvoiceStatus
<1>7. ASSUME NEW c \in calls, OpenTx(c) PROVE TypeOK'
  <2> DEFINE row == limit[Debtor[c.inv]]
             n == IF row = NoLimit THEN 0 ELSE row.used
             found == KeysFound(c.key)
  <2>1. c \in Call /\ Debtor[c.inv] \in MC
    BY RowsTyped, StoreAssumption DEF StoreAssumption
  <2>2. n \in Int
    BY <2>1 DEF TypeOK, LimitRow
  <2>3. found \in SUBSET (EntryType \cup LogPart)
    BY DEF KeysFound
  <2>4. Become(c, [c EXCEPT !.pc = "tx", !.found = found, !.used = n])
        /\ UNCHANGED tables
    BY <1>7 DEF OpenTx
  <2> HIDE DEF n, found
  <2>5. [c EXCEPT !.pc = "tx", !.found = found, !.used = n] \in Call
    BY <2>1, <2>2, <2>3 DEF Call
  <2> QED BY <2>4, <2>5, MoveOnTyped
<1>8. ASSUME NEW c \in calls, FundCheck(c) PROVE TypeOK'
  <2>1. [c EXCEPT !.pc = "checked"] \in Call
    BY RowsTyped DEF Call
  <2> QED BY <1>8, <2>1, MoveOnTyped DEF FundCheck
<1>9. ASSUME NEW c \in calls, SettleCheck(c) PROVE TypeOK'
  <2>1. [c EXCEPT !.pc = "checked"] \in Call
    BY RowsTyped DEF Call
  <2> QED BY <1>9, <2>1, MoveOnTyped DEF SettleCheck
<1>10. ASSUME NEW c \in calls, Fund(c) PROVE TypeOK'
  <2>1. c \in Call /\ c.inv \in Invoice /\ c.key \in Key
    BY RowsTyped DEF Call
  <2>2. /\ Advance(c.inv) \in Int /\ Reserve(c.inv) \in Int
        /\ Amount[c.inv] \in Int
    BY <2>1, SplitTyped
  <2>3. invoice' \in [Invoice -> InvoiceRow]
    BY <1>10, <2>1, <2>2, WriteStatusChangeTyped DEF Fund, TypeOK
  <2>4. {EntryOf(c, "FUNDING_DISBURSEMENT", Advance(c.inv)),
         EntryOf(c, "RESERVE_HOLD", Reserve(c.inv))} \in SUBSET Entry
    BY <2>1, <2>2 DEF EntryOf, Entry, EntryType
  <2>5. ledger' \subseteq Entry
    BY <1>10, <2>4, RecordTyped DEF Fund, TypeOK
  <2>6. /\ limit' \in [MC -> LimitRow \cup {NoLimit}]
        /\ creditLog' \subseteq LogRow
    BY <1>10, <2>1, <2>2, ApplyDeltaTyped DEF Fund, TypeOK, LogPart, Reason
  <2>7. calls' \subseteq Call
    BY <1>10, <2>1, RespondNotifyTyped DEF Fund, TypeOK
  <2> QED BY <1>10, <2>3, <2>5, <2>6, <2>7 DEF Fund, TypeOK
<1>11. ASSUME NEW c \in calls, Settle(c) PROVE TypeOK'
  <2>1. /\ c \in Call /\ c.inv \in Invoice /\ c.key \in Key /\ c.amount \in Int
        /\ Amount[c.inv] \in Int /\ - Amount[c.inv] \in Int
    BY RowsTyped, SplitTyped DEF Call
  <2>2. invoice' \in [Invoice -> InvoiceRow]
    BY <1>11, <2>1, RowsTyped, WriteStatusChangeTyped DEF Settle, TypeOK
  <2>3. {EntryOf(c, "RESERVE_RELEASE", c.amount)} \in SUBSET Entry
    BY <2>1 DEF EntryOf, Entry, EntryType
  <2>4. ledger' \subseteq Entry
    BY <1>11, <2>3, RecordTyped DEF Settle, TypeOK
  <2>5. /\ limit' \in [MC -> LimitRow \cup {NoLimit}]
        /\ creditLog' \subseteq LogRow
    BY <1>11, <2>1, ApplyDeltaTyped DEF Settle, TypeOK, LogPart, Reason
  <2>6. calls' \subseteq Call
    BY <1>11, RespondTyped DEF Settle, TypeOK
  <2> QED BY <1>11, <2>2, <2>4, <2>5, <2>6 DEF Settle, TypeOK
<1>12. ASSUME NEW c \in calls, PlaceReserveHold(c) PROVE TypeOK'
  <2>1. calls' \subseteq Call
    BY <1>12, RespondTyped DEF PlaceReserveHold, TypeOK
  <2>2. holds' \subseteq HoldEvent
    <3>1. PICK h \in FreshIn(holds) :
            holds' = holds \cup {[id |-> h, inv |-> c.inv, active |-> TRUE]}
      BY <1>12 DEF PlaceReserveHold
    <3>2. h \in RowId /\ c.inv \in Invoice
      BY <3>1, RowsTyped DEF FreshIn
    <3>3. [id |-> h, inv |-> c.inv, active |-> TRUE] \in HoldEvent
      BY <3>2 DEF HoldEvent
    <3> QED BY <3>1, <3>3 DEF TypeOK
  <2>3. invoice' \in [Invoice -> InvoiceRow]
    <3>1. c.inv \in Invoice /\ invoice[c.inv] \in InvoiceRow
      BY RowsTyped DEF TypeOK
    <3>2. [invoice[c.inv] EXCEPT !.reserveHold = TRUE] \in InvoiceRow
      BY <3>1 DEF InvoiceRow
    <3>3. invoice' = [invoice EXCEPT ![c.inv] =
                        [invoice[c.inv] EXCEPT !.reserveHold = TRUE]]
      BY <1>12 DEF PlaceReserveHold
    <3> QED BY <3>1, <3>2, <3>3 DEF TypeOK
  <2> QED BY <1>12, <2>1, <2>2, <2>3 DEF PlaceReserveHold, TypeOK
<1>13. ASSUME NEW c \in calls, ReleaseHoldFind(c) PROVE TypeOK'
  <2>1. PICK row \in RowId \cup {NoRow} :
          Become(c, [c EXCEPT !.pc = "checked", !.row = row])
    BY <1>13 DEF ReleaseHoldFind, ActiveHolds, HoldEvent, TypeOK
  <2>2. [c EXCEPT !.pc = "checked", !.row = row] \in Call
    BY RowsTyped DEF Call
  <2> QED BY <1>13, <2>1, <2>2, MoveOnTyped DEF ReleaseHoldFind
<1>14. ASSUME NEW c \in calls, ReleaseReserveHold(c) PROVE TypeOK'
  <2>1. calls' \subseteq Call
    BY <1>14, RespondTyped DEF ReleaseReserveHold, TypeOK
  <2>2. holds' \subseteq HoldEvent
    BY <1>14 DEF ReleaseReserveHold, HoldEvent, TypeOK
  <2>3. invoice' \in [Invoice -> InvoiceRow]
    BY <1>14, RowsTyped DEF ReleaseReserveHold, InvoiceRow, TypeOK
  <2> QED BY <1>14, <2>1, <2>2, <2>3 DEF ReleaseReserveHold, TypeOK
<1>15. ASSUME NEW c \in calls, ChargeBack(c) PROVE TypeOK'
  <2>1. /\ c \in Call /\ c.inv \in Invoice /\ c.key \in Key /\ c.amount \in Int
        /\ Amount[c.inv] \in Int /\ - Amount[c.inv] \in Int
    BY RowsTyped, SplitTyped DEF Call
  <2>2. invoice' \in [Invoice -> InvoiceRow]
    BY <1>15, <2>1, RowsTyped, WriteStatusChangeTyped DEF ChargeBack, TypeOK
  <2>3. {EntryOf(c, "CHARGEBACK", c.amount)} \in SUBSET Entry
    BY <2>1 DEF EntryOf, Entry, EntryType
  <2>4. ledger' \subseteq Entry
    BY <1>15, <2>3, RecordTyped DEF ChargeBack, TypeOK
  <2>5. /\ limit' \in [MC -> LimitRow \cup {NoLimit}]
        /\ creditLog' \subseteq LogRow
    BY <1>15, <2>1, ApplyDeltaTyped DEF ChargeBack, TypeOK, LogPart, Reason
  <2>6. calls' \subseteq Call
    BY <1>15, <2>1, RespondNotifyTyped DEF ChargeBack, TypeOK
  <2>7. chargebacks' \subseteq Chargeback
    BY <1>15, <2>1 DEF ChargeBack, Chargeback, FreshIn, TypeOK
  <2> QED BY <1>15, <2>2, <2>4, <2>5, <2>6, <2>7 DEF ChargeBack, TypeOK
<1>16. ASSUME NEW c \in calls, WriteOffFind(c) PROVE TypeOK'
  <2>1. PICK row \in RowId \cup {NoRow}, amount \in Int :
          Become(c, [c EXCEPT !.pc = "checked", !.row = row, !.amount = amount])
    <3>1. c.inv \in Invoice /\ Amount[c.inv] \in Int
      BY RowsTyped, SplitTyped
    <3>2. \A b \in chargebacks : b.id \in RowId /\ b.amount \in Int
      BY DEF TypeOK, Chargeback
    <3>3. PICK b \in IF ChargebacksOf(c.inv) = {}
                     THEN {[id |-> NoRow, amount |-> Amount[c.inv]]}
                     ELSE ChargebacksOf(c.inv) :
            Become(c, [c EXCEPT !.pc = "checked", !.row = b.id,
                                !.amount = b.amount])
      BY <1>16 DEF WriteOffFind
    <3>4. b.id \in RowId \cup {NoRow} /\ b.amount \in Int
      BY <3>1, <3>2, <3>3 DEF ChargebacksOf
    <3> QED BY <3>3, <3>4
  <2>2. [c EXCEPT !.pc = "checked", !.row = row, !.amount = amount] \in Call
    BY RowsTyped DEF Call
  <2> QED BY <1>16, <2>1, <2>2, MoveOnTyped DEF WriteOffFind
<1>17. ASSUME NEW c \in calls, WriteOff(c) PROVE TypeOK'
  <2>1. c \in Call /\ c.inv \in Invoice /\ c.key \in Key /\ c.amount \in Int
    BY RowsTyped DEF Call
  <2>2. invoice' \in [Invoice -> InvoiceRow]
    BY <1>17, <2>1, RowsTyped, WriteStatusChangeTyped DEF WriteOff, TypeOK
  <2>3. {EntryOf(c, "WRITE_OFF", c.amount)} \in SUBSET Entry
    BY <2>1 DEF EntryOf, Entry, EntryType
  <2>4. ledger' \subseteq Entry
    BY <1>17, <2>3, RecordTyped DEF WriteOff, TypeOK
  <2>5. calls' \subseteq Call
    BY <1>17, RespondTyped DEF WriteOff, TypeOK
  <2>6. chargebacks' \subseteq Chargeback
    BY <1>17 DEF WriteOff, Chargeback, TypeOK
  <2> QED BY <1>17, <2>2, <2>4, <2>5, <2>6 DEF WriteOff, TypeOK
<1> QED
  BY <1>1, <1>2, <1>3, <1>4, <1>5, <1>6, <1>7, <1>8, <1>9, <1>10, <1>11,
     <1>12, <1>13, <1>14, <1>15, <1>16, <1>17 DEF ServicingNext

(* Payment matching keeps its own types and the sums it shares.            *)
LEMMA PaymentStepTyped ==
  ASSUME TypeInv, PaymentStep
  PROVE  TypeInv'
<1>1. Pay!PaymentsTypeOK
  BY DEF TypeInv
<1>2. ASSUME NEW p \in Payment, Pay!RecordPayment(p) PROVE Pay!PaymentsTypeOK'
  BY <1>1, <1>2 DEF Pay!RecordPayment, Pay!PaymentsTypeOK, Pay!PaymentStatus
<1>3. ASSUME NEW p \in Payment, NEW i \in Invoice, NEW x \in MatchAmounts,
             Pay!MatchOpen(p, i, x)
      PROVE  Pay!PaymentsTypeOK'
  <2>1. x \in Nat /\ Pay!TotalMatched(p, x) \in Nat
    BY <1>1, FundingAssumption
       DEF Pay!PaymentsAssumption, Pay!PaymentsTypeOK, Pay!TotalMatched
  <2>2. PICK s \in Matcher :
          matching' = matching \cup
            {[slot |-> s, payment |-> p, invoice |-> i, amount |-> x,
              total |-> Pay!TotalMatched(p, x)]}
    BY <1>3 DEF Pay!MatchOpen
  <2>3. matching' \subseteq Pay!MatchCall
    BY <1>1, <2>1, <2>2 DEF Pay!PaymentsTypeOK, Pay!MatchCall
  <2> QED BY <1>1, <1>3, <2>3 DEF Pay!MatchOpen, Pay!PaymentsTypeOK
<1>4. ASSUME NEW m \in matching, Pay!MatchCommit(m) PROVE Pay!PaymentsTypeOK'
  BY <1>1, <1>4 DEF Pay!MatchCommit, Pay!PaymentsTypeOK, Pay!MatchCall,
                    Pay!StatusFor, Pay!PaymentStatus
<1>5. ASSUME NEW m \in matching, Pay!MatchAbandon(m) PROVE Pay!PaymentsTypeOK'
  BY <1>1, <1>5 DEF Pay!MatchAbandon, Pay!PaymentsTypeOK
<1>6. Pay!PaymentsTypeOK'
  BY <1>2, <1>3, <1>4, <1>5 DEF PaymentStep
<1>7. TypeOK'
  BY <1>6 DEF TypeInv, TypeOK, PaymentStep, Pay!PaymentsTypeOK
<1> QED BY <1>6, <1>7 DEF TypeInv

(* Neither an Admin's new total, nor onboarding, nor a notification, nor a *)
(* call cut off breaks the types.                                          *)
LEMMA OtherStepsTyped ==
  ASSUME TypeOK,
         \/ \E m \in MC, t \in LimitValues : SetLimit(m, t)
         \/ \E a \in MC \cup Broker : OnboardingMove(a)
         \/ \E c \in calls : Notify(c) \/ Abandon(c)
  PROVE  TypeOK'
<1>1. ASSUME NEW m \in MC, NEW t \in LimitValues, SetLimit(m, t) PROVE TypeOK'
  <2> DEFINE row == IF limit[m] = NoLimit THEN [total |-> t, used |-> 0]
                                          ELSE [limit[m] EXCEPT !.total = t]
  <2>1. t \in Nat
    BY StoreAssumption DEF StoreAssumption
  <2>2. row \in LimitRow
    BY <2>1 DEF TypeOK, LimitRow
  <2>3. limit' = [limit EXCEPT ![m] = row]
    BY <1>1 DEF SetLimit
  <2>4. limit' \in [MC -> LimitRow \cup {NoLimit}]
    BY <2>2, <2>3 DEF TypeOK
  <2> QED BY <1>1, <2>4 DEF SetLimit, TypeOK
<1>2. ASSUME NEW a \in MC \cup Broker, OnboardingMove(a) PROVE TypeOK'
  BY <1>2 DEF OnboardingMove, TypeOK
<1>3. ASSUME NEW c \in calls, Notify(c) PROVE TypeOK'
  <2>1. calls' \subseteq Call
    BY <1>3, RespondTyped DEF Notify, TypeOK
  <2>2. c.inv \in Invoice /\ c.to \in InvoiceStatus
    BY DEF TypeOK, Call
  <2> QED BY <1>3, <2>1, <2>2 DEF Notify, TypeOK
<1>4. ASSUME NEW c \in calls, Abandon(c) PROVE TypeOK'
  <2>1. calls' \subseteq Call
    BY <1>4, RespondTyped DEF Abandon, TypeOK
  <2> QED BY <1>4, <2>1 DEF Abandon, TypeOK, tables
<1> QED BY <1>1, <1>2, <1>3, <1>4

(* Only a committed match changes what is matched to an invoice.           *)
LEMMA StoreStepKeepsMatches ==
  ASSUME StoreStep
  PROVE  UNCHANGED matchedTo
<1>1. IntakeNext => UNCHANGED matchedTo
  BY DEF IntakeNext, CreateBegin, AttachDocument, RunExtraction,
         SubmitForApproval, McApprove, McDisputeBegin, RespondToInfoRequest,
         Cancel, Underwrite, ResolveDisputeBegin, Create, ExtractionStarted,
         ExtractionDone, UnderwriteCheck, ChangeStatus, McDispute,
         ResolveDisputeFind, ResolveDispute, BeginPlain, Begin, tables
<1>2. ServicingNext => UNCHANGED matchedTo
  BY DEF ServicingNext, FundBegin, SettleBegin, PlaceHoldBegin,
         ReleaseHoldBegin, WriteOffBegin, ChargebackBegin, OpenTx, FundCheck,
         Fund, SettleCheck, Settle, PlaceReserveHold, ReleaseHoldFind,
         ReleaseReserveHold, ChargeBack, WriteOffFind, WriteOff, BeginPlain,
         BeginMoney, Begin, tables
<1> QED
  BY <1>1, <1>2 DEF StoreStep, SetLimit, OnboardingMove, Notify, Abandon, tables

(* Every step keeps every row, payment and call well-typed.                *)
LEMMA TypeStep == TypeInv /\ [Next]_vars => TypeInv'
<1> SUFFICES ASSUME TypeInv, [Next]_vars PROVE TypeInv'
  OBVIOUS
<1>1. CASE StoreStep /\ UNCHANGED paymentOnly
  <2>1. TypeOK'
    BY <1>1, IntakeTyped, ServicingTyped, OtherStepsTyped DEF StoreStep, TypeInv
  <2>2. Pay!PaymentsTypeOK'
    BY <1>1, StoreStepKeepsMatches DEF paymentOnly, TypeInv, Pay!PaymentsTypeOK
  <2> QED BY <2>1, <2>2 DEF TypeInv
<1>2. CASE PaymentStep
  BY <1>2, PaymentStepTyped
<1>3. CASE UNCHANGED vars
  BY <1>3 DEF vars, storeVars, tables, paymentOnly, TypeInv, TypeOK,
              Pay!PaymentsTypeOK, Exists
<1> QED BY <1>1, <1>2, <1>3 DEF Next

(* The tables start out well-typed.                                        *)
LEMMA TypeInit == Init => TypeInv
<1> SUFFICES ASSUME Init PROVE TypeInv
  OBVIOUS
<1>1. invoice \in [Invoice -> InvoiceRow]
  BY DEF Init, StoreInit, InvoiceRow, InvoiceStatus
<1>2. limit \in [MC -> LimitRow \cup {NoLimit}]
  <2>1. \A m \in MC : OpeningLimit[m] # NoLimit => OpeningLimit[m] \in Nat
    BY StoreAssumption DEF StoreAssumption
  <2>2. \A n \in Nat : [total |-> n, used |-> 0] \in LimitRow
    BY DEF LimitRow
  <2>3. limit = [m \in MC |-> IF OpeningLimit[m] = NoLimit THEN NoLimit
                              ELSE [total |-> OpeningLimit[m], used |-> 0]]
    BY DEF Init, StoreInit
  <2> QED BY <2>1, <2>2, <2>3
<1>3. TypeOK
  BY <1>1, <1>2, StoreAssumption DEF Init, StoreInit, TypeOK, StoreAssumption
<1>4. Pay!PaymentsTypeOK
  BY DEF Init, Pay!PaymentsInit, Pay!PaymentsTypeOK
<1> QED BY <1>3, <1>4 DEF TypeInv

(* Type correctness: every table row, payment and call in flight has its   *)
(* type in every reachable state, for any number of invoices, replicas,    *)
(* keys and amounts.                                                       *)
THEOREM TypeCorrect == Spec => []TypeOK
<1>1. TypeInv => TypeOK
  BY DEF TypeInv
<1> QED BY TypeInit, TypeStep, <1>1, PTL DEF Spec

-----------------------------------------------------------------------------
(* The side tables.                                                        *)

(* Row ids are primary keys.                                               *)
UniqueIds ==
  /\ \A d, e \in disputes : d.id = e.id => d = e
  /\ \A g, h \in holds : g.id = h.id => g = h

(* A call that found a row will update a row of its own invoice, and only  *)
(* mcDispute and create write the statuses these properties are about.     *)
RowFacts(c) ==
  /\ c.to = "MC_DISPUTED" => c.op = "mcDispute"
  /\ c.to = "UPLOADED" => c.op = "create"
  /\ c.op = "resolve" /\ c.pc = "checked" =>
       c.row = NoRow \/ \E d \in disputes : d.id = c.row /\ d.inv = c.inv
  /\ c.op = "releaseHold" /\ c.pc = "checked" =>
       c.row = NoRow \/ \E h \in holds : h.id = c.row /\ h.inv = c.inv

SideInv ==
  /\ TypeInv /\ UniqueIds
  /\ HoldHasEvent /\ DisputedHasDispute
  /\ \A c \in calls : RowFacts(c)

-----------------------------------------------------------------------------
(* Rows are added and updated, never removed or moved to another invoice.  *)
RowsStay ==
  /\ \A d \in disputes : \E x \in disputes' : x.id = d.id /\ x.inv = d.inv
  /\ \A h \in holds : \E x \in holds' : x.id = h.id /\ x.inv = h.inv

(* A step that touches neither table, nor a hold flag, nor disputes.       *)
Aside ==
  /\ UNCHANGED <<disputes, holds>>
  /\ \A i \in Invoice :
       /\ invoice'[i].reserveHold = invoice[i].reserveHold
       /\ \/ invoice'[i].status = invoice[i].status
          \/ invoice'[i].status # "MC_DISPUTED"

(* What a call knows of its row stays true.                                *)
LEMMA RowFactsKept ==
  ASSUME RowsStay, NEW c, RowFacts(c)
  PROVE  RowFacts(c)'
  BY DEF RowsStay, RowFacts

(* A step aside that only answers calls.                                   *)
LEMMA AsideAnswer ==
  ASSUME SideInv, TypeInv', Aside, calls' \subseteq calls
  PROVE  SideInv'
<1>1. RowsStay
  BY DEF Aside, RowsStay
<1>2. UniqueIds'
  BY DEF SideInv, UniqueIds, Aside
<1>3. HoldHasEvent' /\ DisputedHasDispute'
  BY DEF SideInv, HoldHasEvent, DisputedHasDispute, ActiveHolds, OpenDisputes, Aside
<1>4. \A c \in calls' : RowFacts(c)'
  BY <1>1, RowFactsKept DEF SideInv
<1> QED BY <1>2, <1>3, <1>4 DEF SideInv

(* A step aside that leaves one more call d in flight.                     *)
LEMMA AsideStep ==
  ASSUME SideInv, TypeInv', Aside,
         NEW d, calls' \subseteq calls \cup {d}, RowFacts(d)
  PROVE  SideInv'
<1>1. RowsStay
  BY DEF Aside, RowsStay
<1>2. UniqueIds'
  BY DEF SideInv, UniqueIds, Aside
<1>3. HoldHasEvent' /\ DisputedHasDispute'
  BY DEF SideInv, HoldHasEvent, DisputedHasDispute, ActiveHolds, OpenDisputes, Aside
<1>4. RowFacts(d)'
  BY <1>1, RowFactsKept
<1>5. \A c \in calls : RowFacts(c)'
  BY <1>1, RowFactsKept DEF SideInv
<1> QED BY <1>2, <1>3, <1>4, <1>5 DEF SideInv

(* A step that leaves every table alone and moves one call on.             *)
LEMMA AsideMove ==
  ASSUME SideInv, TypeInv', NEW c, NEW d, Become(c, d), UNCHANGED tables, RowFacts(d)
  PROVE  SideInv'
<1>1. Aside
  BY DEF Aside, tables
<1>2. calls' \subseteq calls \cup {d}
  BY DEF Become
<1> QED BY <1>1, <1>2, AsideStep

(* A request that arrives has found no row yet.                            *)
LEMMA AsideBegin ==
  ASSUME SideInv, TypeInv',
         NEW op, NEW i, NEW key, NEW from, NEW to, NEW amount,
         Begin(op, i, key, from, to, amount),
         to = "MC_DISPUTED" => op = "mcDispute", to = "UPLOADED" => op = "create"
  PROVE  SideInv'
<1>1. PICK r \in Request :
        calls' = calls \cup
          {[req |-> r, op |-> op, pc |-> "begun", inv |-> i, key |-> key,
            from |-> from, to |-> to, amount |-> amount, row |-> NoRow,
            found |-> {}, used |-> 0]}
  BY DEF Begin
<1> DEFINE d == [req |-> r, op |-> op, pc |-> "begun", inv |-> i, key |-> key,
                 from |-> from, to |-> to, amount |-> amount, row |-> NoRow,
                 found |-> {}, used |-> 0]
<1>2. RowFacts(d)
  BY DEF RowFacts
<1>3. Aside
  BY DEF Begin, Aside, tables
<1> HIDE DEF d
<1> QED BY <1>1, <1>2, <1>3, AsideStep DEF d

(* The same for a money handler, whatever key it is given.                 *)
LEMMA AsideBeginMoney ==
  ASSUME SideInv, TypeInv', NEW op, NEW i, NEW from, NEW to, NEW amount,
         BeginMoney(op, i, from, to, amount), to \notin {"MC_DISPUTED", "UPLOADED"}
  PROVE  SideInv'
<1>1. PICK key \in KeysFor(op, i) : Begin(op, i, key, from, to, amount)
  BY DEF BeginMoney
<1> QED BY <1>1, AsideBegin

(* A status change other than mcDispute's is a step aside.                 *)
LEMMA StatusAside ==
  ASSUME SideInv, NEW c \in calls, NEW r, WriteStatusChange(c, r),
         c.op # "mcDispute", UNCHANGED <<disputes, holds>>
  PROVE  Aside
<1>1. c.to # "MC_DISPUTED" /\ invoice \in [Invoice -> InvoiceRow]
  BY DEF SideInv, TypeInv, TypeOK, RowFacts
<1> QED BY <1>1 DEF Aside, WriteStatusChange, InvoiceRow

(* A call about to notify has no row in mind.                              *)
LEMMA NotifyingCall ==
  ASSUME SideInv, NEW c \in calls, RespondNotify(c)
  PROVE  \E d : calls' \subseteq calls \cup {d} /\ RowFacts(d)
<1> DEFINE zero == 0
           none == {}
           d == [c EXCEPT !.pc = "notify", !.amount = zero, !.row = NoRow,
                          !.found = none, !.used = zero]
<1>1. calls' \subseteq calls \cup {d}
  BY DEF RespondNotify, Become
<1>2. c \in Call /\ RowFacts(c)
  BY DEF SideInv, TypeInv, TypeOK
<1> HIDE DEF zero, none
<1>3. d.to = c.to /\ d.op = c.op /\ d.pc = "notify"
  BY <1>2 DEF Call
<1> HIDE DEF d
<1>4. RowFacts(d)
  BY <1>2, <1>3 DEF RowFacts
<1> QED BY <1>1, <1>4

-----------------------------------------------------------------------------
(* The four transactions that write disputes or holds.                     *)

(* Raising a dispute leaves one open for the invoice it stops.             *)
LEMMA McDisputeSide ==
  ASSUME SideInv, TypeInv', NEW c \in calls, McDispute(c)
  PROVE  SideInv'
<1>1. PICK n \in FreshIn(disputes) :
        disputes' = disputes \cup {[id |-> n, inv |-> c.inv, status |-> "OPEN"]}
  BY DEF McDispute
<1> DEFINE row == [id |-> n, inv |-> c.inv, status |-> "OPEN"]
<1>2. row.id = n /\ row.inv = c.inv /\ row.status = "OPEN"
  OBVIOUS
<1>3. disputes' = disputes \cup {row}
  BY <1>1
<1> HIDE DEF row
<1>4. UNCHANGED holds
  BY DEF McDispute
<1>5. \A d \in disputes : d.id # n
  BY DEF FreshIn
<1>6. UniqueIds'
  BY <1>2, <1>3, <1>4, <1>5 DEF SideInv, UniqueIds
<1>7. RowsStay
  BY <1>3, <1>4 DEF RowsStay
<1>8. /\ \A i \in Invoice : invoice'[i].reserveHold = invoice[i].reserveHold
      /\ \A i \in Invoice \ {c.inv} : invoice'[i] = invoice[i]
  BY DEF McDispute, WriteStatusChange, SideInv, TypeInv, TypeOK, InvoiceRow
<1>9. HoldHasEvent'
  BY <1>4, <1>8 DEF SideInv, HoldHasEvent, ActiveHolds
<1>10. DisputedHasDispute'
  <2> SUFFICES ASSUME NEW i \in Invoice, invoice'[i].status = "MC_DISPUTED"
               PROVE  \E d \in disputes' : d.inv = i /\ d.status = "OPEN"
    BY DEF DisputedHasDispute, OpenDisputes
  <2>1. CASE i = c.inv
    BY <1>2, <1>3, <2>1
  <2>2. CASE i # c.inv
    <3>1. OpenDisputes(i) # {}
      BY <1>8, <2>2 DEF SideInv, DisputedHasDispute
    <3> QED BY <1>3, <3>1 DEF OpenDisputes
  <2> QED BY <2>1, <2>2
<1>11. PICK d : calls' \subseteq calls \cup {d} /\ RowFacts(d)
  BY NotifyingCall DEF McDispute
<1>12. \A x \in calls : RowFacts(x)'
  BY <1>7, RowFactsKept DEF SideInv
<1>13. RowFacts(d)'
  BY <1>7, <1>11, RowFactsKept
<1> QED BY <1>6, <1>9, <1>10, <1>11, <1>12, <1>13 DEF SideInv

(* Resolving closes at most a dispute of the invoice it moves on.          *)
LEMMA ResolveDisputeSide ==
  ASSUME SideInv, TypeInv', NEW c \in calls, ResolveDispute(c)
  PROVE  SideInv'
<1> DEFINE After(d) == IF d.id = c.row THEN [d EXCEPT !.status = "RESOLVED"] ELSE d
<1>1. /\ disputes \subseteq Dispute /\ c \in Call /\ RowFacts(c)
      /\ c.op = "resolve" /\ c.pc = "checked"
  BY DEF SideInv, TypeInv, TypeOK, ResolveDispute, At
<1>2. disputes' = {After(d) : d \in disputes}
  BY DEF ResolveDispute
<1>3. \A d \in disputes : /\ After(d).id = d.id /\ After(d).inv = d.inv
                          /\ d.id # c.row => After(d) = d
  BY <1>1 DEF Dispute
<1> HIDE DEF After
<1>4. UNCHANGED holds
  BY DEF ResolveDispute
<1>5. UniqueIds'
  BY <1>2, <1>3, <1>4 DEF SideInv, UniqueIds
<1>6. RowsStay
  BY <1>2, <1>3, <1>4 DEF RowsStay
<1>7. /\ \A i \in Invoice : invoice'[i].reserveHold = invoice[i].reserveHold
      /\ \A i \in Invoice \ {c.inv} : invoice'[i] = invoice[i]
      /\ invoice'[c.inv].status # "MC_DISPUTED"
  BY <1>1 DEF ResolveDispute, WriteStatusChange, SideInv, TypeInv, TypeOK,
              InvoiceRow, Call, RowFacts
<1>8. HoldHasEvent'
  BY <1>4, <1>7 DEF SideInv, HoldHasEvent, ActiveHolds
<1>9. DisputedHasDispute'
  <2> SUFFICES ASSUME NEW i \in Invoice, invoice'[i].status = "MC_DISPUTED"
               PROVE  \E d \in disputes' : d.inv = i /\ d.status = "OPEN"
    BY DEF DisputedHasDispute, OpenDisputes
  <2>1. i # c.inv /\ invoice[i].status = "MC_DISPUTED"
    BY <1>7
  <2>2. PICK d \in disputes : d.inv = i /\ d.status = "OPEN"
    BY <2>1 DEF SideInv, DisputedHasDispute, OpenDisputes
  <2>3. d.id # c.row
    <3>1. CASE c.row = NoRow
      BY <1>1, <3>1, StoreAssumption DEF StoreAssumption, Dispute
    <3>2. CASE \E e \in disputes : e.id = c.row /\ e.inv = c.inv
      BY <2>1, <2>2, <3>2 DEF SideInv, UniqueIds
    <3> QED BY <1>1, <3>1, <3>2 DEF RowFacts
  <2>4. d \in disputes'
    BY <1>2, <1>3, <2>3
  <2> QED BY <2>2, <2>4
<1>10. \A x \in calls : RowFacts(x)'
  BY <1>6, RowFactsKept DEF SideInv
<1>11. calls' \subseteq calls
  BY DEF ResolveDispute, Respond
<1> QED BY <1>5, <1>8, <1>9, <1>10, <1>11 DEF SideInv

(* A hold that is placed has its event.                                    *)
LEMMA PlaceReserveHoldSide ==
  ASSUME SideInv, TypeInv', NEW c \in calls, PlaceReserveHold(c)
  PROVE  SideInv'
<1>1. PICK n \in FreshIn(holds) :
        holds' = holds \cup {[id |-> n, inv |-> c.inv, active |-> TRUE]}
  BY DEF PlaceReserveHold
<1> DEFINE row == [id |-> n, inv |-> c.inv, active |-> TRUE]
<1>2. row.id = n /\ row.inv = c.inv /\ row.active
  OBVIOUS
<1>3. holds' = holds \cup {row}
  BY <1>1
<1> HIDE DEF row
<1>4. UNCHANGED disputes
  BY DEF PlaceReserveHold
<1>5. \A h \in holds : h.id # n
  BY DEF FreshIn
<1>6. UniqueIds'
  BY <1>2, <1>3, <1>4, <1>5 DEF SideInv, UniqueIds
<1>7. RowsStay
  BY <1>3, <1>4 DEF RowsStay
<1>8. /\ \A i \in Invoice : invoice'[i].status = invoice[i].status
      /\ \A i \in Invoice \ {c.inv} : invoice'[i] = invoice[i]
  BY DEF PlaceReserveHold, SideInv, TypeInv, TypeOK, InvoiceRow
<1>9. DisputedHasDispute'
  BY <1>4, <1>8 DEF SideInv, DisputedHasDispute, OpenDisputes
<1>10. HoldHasEvent'
  <2> SUFFICES ASSUME NEW i \in Invoice, invoice'[i].reserveHold
               PROVE  \E h \in holds' : h.inv = i /\ h.active
    BY DEF HoldHasEvent, ActiveHolds
  <2>1. CASE i = c.inv
    BY <1>2, <1>3, <2>1
  <2>2. CASE i # c.inv
    <3>1. ActiveHolds(i) # {}
      BY <1>8, <2>2 DEF SideInv, HoldHasEvent
    <3> QED BY <1>3, <3>1 DEF ActiveHolds
  <2> QED BY <2>1, <2>2
<1>11. \A x \in calls : RowFacts(x)'
  BY <1>7, RowFactsKept DEF SideInv
<1>12. calls' \subseteq calls
  BY DEF PlaceReserveHold, Respond
<1> QED BY <1>6, <1>9, <1>10, <1>11, <1>12 DEF SideInv

(* A release ends at most an event of the invoice whose flag it clears.    *)
LEMMA ReleaseReserveHoldSide ==
  ASSUME SideInv, TypeInv', NEW c \in calls, ReleaseReserveHold(c)
  PROVE  SideInv'
<1> DEFINE After(h) == IF h.id = c.row THEN [h EXCEPT !.active = FALSE] ELSE h
<1>1. /\ holds \subseteq HoldEvent /\ c \in Call /\ RowFacts(c)
      /\ c.op = "releaseHold" /\ c.pc = "checked" /\ c.inv \in Invoice
  BY DEF SideInv, TypeInv, TypeOK, ReleaseReserveHold, At, Call
<1>2. holds' = {After(h) : h \in holds}
  BY DEF ReleaseReserveHold
<1>3. \A h \in holds : /\ After(h).id = h.id /\ After(h).inv = h.inv
                       /\ h.id # c.row => After(h) = h
  BY <1>1 DEF HoldEvent
<1> HIDE DEF After
<1>4. UNCHANGED disputes
  BY DEF ReleaseReserveHold
<1>5. UniqueIds'
  BY <1>2, <1>3, <1>4 DEF SideInv, UniqueIds
<1>6. RowsStay
  BY <1>2, <1>3, <1>4 DEF RowsStay
<1>7. /\ \A i \in Invoice : invoice'[i].status = invoice[i].status
      /\ \A i \in Invoice \ {c.inv} : invoice'[i] = invoice[i]
  BY DEF ReleaseReserveHold, SideInv, TypeInv, TypeOK, InvoiceRow
<1>8. ~ invoice'[c.inv].reserveHold
  BY <1>1 DEF ReleaseReserveHold, SideInv, TypeInv, TypeOK, InvoiceRow
<1>9. DisputedHasDispute'
  BY <1>4, <1>7 DEF SideInv, DisputedHasDispute, OpenDisputes
<1>10. HoldHasEvent'
  <2> SUFFICES ASSUME NEW i \in Invoice, invoice'[i].reserveHold
               PROVE  \E h \in holds' : h.inv = i /\ h.active
    BY DEF HoldHasEvent, ActiveHolds
  <2>1. i # c.inv /\ invoice[i].reserveHold
    BY <1>7, <1>8
  <2>2. PICK h \in holds : h.inv = i /\ h.active
    BY <2>1 DEF SideInv, HoldHasEvent, ActiveHolds
  <2>3. h.id # c.row
    <3>1. CASE c.row = NoRow
      BY <1>1, <3>1, StoreAssumption DEF StoreAssumption, HoldEvent
    <3>2. CASE \E g \in holds : g.id = c.row /\ g.inv = c.inv
      BY <2>1, <2>2, <3>2 DEF SideInv, UniqueIds
    <3> QED BY <1>1, <3>1, <3>2 DEF RowFacts
  <2>4. h \in holds'
    BY <1>2, <1>3, <2>3
  <2> QED BY <2>2, <2>4
<1>11. \A x \in calls : RowFacts(x)'
  BY <1>6, RowFactsKept DEF SideInv
<1>12. calls' \subseteq calls
  BY DEF ReleaseReserveHold, Respond
<1> QED BY <1>5, <1>9, <1>10, <1>11, <1>12 DEF SideInv

-----------------------------------------------------------------------------
(* All the handlers together.                                              *)

(* Every handler up to funding keeps the side tables in order.             *)
LEMMA IntakeSide ==
  ASSUME SideInv, TypeInv', IntakeNext
  PROVE  SideInv'
<1>1. ASSUME NEW i \in Invoice, CreateBegin(i) PROVE SideInv'
  BY <1>1, AsideBegin DEF CreateBegin, BeginPlain
<1>2. ASSUME NEW i \in Invoice, RunExtraction(i) PROVE SideInv'
  BY <1>2, AsideBegin DEF RunExtraction, BeginPlain
<1>3. ASSUME NEW i \in Invoice, SubmitForApproval(i) PROVE SideInv'
  BY <1>3, AsideBegin DEF SubmitForApproval, BeginPlain
<1>4. ASSUME NEW i \in Invoice, McApprove(i) PROVE SideInv'
  BY <1>4, AsideBegin DEF McApprove, BeginPlain
<1>5. ASSUME NEW i \in Invoice, McDisputeBegin(i) PROVE SideInv'
  BY <1>5, AsideBegin DEF McDisputeBegin, BeginPlain
<1>6. ASSUME NEW i \in Invoice, RespondToInfoRequest(i) PROVE SideInv'
  BY <1>6, AsideBegin DEF RespondToInfoRequest, BeginPlain
<1>7. ASSUME NEW i \in Invoice, Cancel(i) PROVE SideInv'
  BY <1>7, AsideBegin DEF Cancel, BeginPlain
<1>8. ASSUME NEW i \in Invoice, NEW to \in InvoiceStatus, Underwrite(i, to)
      PROVE  SideInv'
  BY <1>8, AsideBegin DEF Underwrite, BeginPlain
<1>9. ASSUME NEW i \in Invoice, NEW to \in InvoiceStatus, ResolveDisputeBegin(i, to)
      PROVE  SideInv'
  BY <1>9, AsideBegin DEF ResolveDisputeBegin, BeginPlain
<1>10. ASSUME NEW i \in Invoice, AttachDocument(i) PROVE SideInv'
  BY <1>10, AsideAnswer DEF AttachDocument, Aside
<1>11. ASSUME NEW c \in calls, Create(c) PROVE SideInv'
  <2>1. Aside
    BY <1>11, StatusAside DEF Create, At
  <2> QED BY <1>11, <2>1, AsideAnswer DEF Create, Respond
<1>12. ASSUME NEW c \in calls, ExtractionStarted(c) PROVE SideInv'
  <2> DEFINE d == [c EXCEPT !.pc = "ocr", !.from = "EXTRACTING",
                            !.to = "PENDING_BROKER_REVIEW"]
  <2>1. Aside
    BY <1>12, StatusAside DEF ExtractionStarted, At
  <2>2. c \in Call /\ RowFacts(c) /\ c.op = "extract"
    BY <1>12 DEF SideInv, TypeInv, TypeOK, ExtractionStarted, At
  <2>3. RowFacts(d)
    BY <2>2 DEF RowFacts, Call
  <2>4. calls' \subseteq calls \cup {d}
    BY <1>12 DEF ExtractionStarted, Become
  <2> QED BY <2>1, <2>3, <2>4, AsideStep
<1>13. ASSUME NEW c \in calls, ExtractionDone(c) PROVE SideInv'
  <2>1. Aside
    BY <1>13, StatusAside DEF ExtractionDone, At
  <2> QED BY <1>13, <2>1, AsideAnswer DEF ExtractionDone, Respond
<1>14. ASSUME NEW c \in calls, UnderwriteCheck(c) PROVE SideInv'
  <2>1. c \in Call /\ RowFacts(c) /\ c.op = "underwrite"
    BY <1>14 DEF SideInv, TypeInv, TypeOK, UnderwriteCheck, At
  <2>2. RowFacts([c EXCEPT !.pc = "checked"])
    BY <2>1 DEF RowFacts, Call
  <2> QED BY <1>14, <2>2, AsideMove DEF UnderwriteCheck
<1>15. ASSUME NEW c \in calls, ChangeStatus(c) PROVE SideInv'
  <2>1. Aside
    BY <1>15, StatusAside DEF ChangeStatus, ReadyToChangeStatus, At
  <2>2. CASE Notifies(c)
    <3>1. PICK d : calls' \subseteq calls \cup {d} /\ RowFacts(d)
      BY <1>15, <2>2, NotifyingCall DEF ChangeStatus
    <3> QED BY <2>1, <3>1, AsideStep
  <2>3. CASE ~ Notifies(c)
    BY <1>15, <2>1, <2>3, AsideAnswer DEF ChangeStatus, Respond
  <2> QED BY <2>2, <2>3
<1>16. ASSUME NEW c \in calls, ResolveDisputeFind(c) PROVE SideInv'
  <2>1. c \in Call /\ RowFacts(c) /\ c.op = "resolve"
    BY <1>16 DEF SideInv, TypeInv, TypeOK, ResolveDisputeFind, At
  <2>2. PICK row : /\ row = NoRow \/ \E x \in disputes : x.id = row /\ x.inv = c.inv
                   /\ Become(c, [c EXCEPT !.pc = "checked", !.row = row])
    BY <1>16 DEF ResolveDisputeFind, OpenDisputes
  <2>3. RowFacts([c EXCEPT !.pc = "checked", !.row = row])
    BY <2>1, <2>2 DEF RowFacts, Call
  <2> QED BY <1>16, <2>2, <2>3, AsideMove DEF ResolveDisputeFind
<1> QED
  BY <1>1, <1>2, <1>3, <1>4, <1>5, <1>6, <1>7, <1>8, <1>9, <1>10, <1>11, <1>12, <1>13, <1>14, <1>15, <1>16,
     McDisputeSide, ResolveDisputeSide DEF IntakeNext

(* Every handler after it does.                                            *)
LEMMA ServicingSide ==
  ASSUME SideInv, TypeInv', ServicingNext
  PROVE  SideInv'
<1>1. ASSUME NEW i \in Invoice, FundBegin(i) PROVE SideInv'
  BY <1>1, AsideBeginMoney DEF FundBegin
<1>2. ASSUME NEW i \in Invoice, SettleBegin(i) PROVE SideInv'
  BY <1>2, AsideBeginMoney DEF SettleBegin
<1>3. ASSUME NEW i \in Invoice, WriteOffBegin(i) PROVE SideInv'
  BY <1>3, AsideBeginMoney DEF WriteOffBegin
<1>4. ASSUME NEW i \in Invoice, NEW a \in ChargebackAmounts, ChargebackBegin(i, a)
      PROVE  SideInv'
  BY <1>4, AsideBeginMoney DEF ChargebackBegin
<1>5. ASSUME NEW i \in Invoice, PlaceHoldBegin(i) PROVE SideInv'
  BY <1>5, AsideBegin DEF PlaceHoldBegin, BeginPlain
<1>6. ASSUME NEW i \in Invoice, ReleaseHoldBegin(i) PROVE SideInv'
  BY <1>6, AsideBegin DEF ReleaseHoldBegin, BeginPlain
<1>7. ASSUME NEW c \in calls, OpenTx(c) PROVE SideInv'
  <2> DEFINE found == KeysFound(c.key)
             row == limit[Debtor[c.inv]]
             used == IF row = NoLimit THEN 0 ELSE row.used
             d == [c EXCEPT !.pc = "tx", !.found = found, !.used = used]
  <2>1. Become(c, d) /\ UNCHANGED tables
    BY <1>7 DEF OpenTx
  <2>2. c \in Call /\ RowFacts(c)
    BY DEF SideInv, TypeInv, TypeOK
  <2> HIDE DEF found, used
  <2>3. d.to = c.to /\ d.op = c.op /\ d.pc = "tx"
    BY <2>2 DEF Call
  <2> HIDE DEF d
  <2>4. RowFacts(d)
    BY <2>2, <2>3 DEF RowFacts
  <2> QED BY <2>1, <2>4, AsideMove
<1>8. ASSUME NEW c \in calls, FundCheck(c) PROVE SideInv'
  <2>1. c \in Call /\ RowFacts(c) /\ c.op = "fund"
    BY <1>8 DEF SideInv, TypeInv, TypeOK, FundCheck, At
  <2>2. RowFacts([c EXCEPT !.pc = "checked"])
    BY <2>1 DEF RowFacts, Call
  <2> QED BY <1>8, <2>2, AsideMove DEF FundCheck
<1>9. ASSUME NEW c \in calls, SettleCheck(c) PROVE SideInv'
  <2>1. c \in Call /\ RowFacts(c) /\ c.op = "settle"
    BY <1>9 DEF SideInv, TypeInv, TypeOK, SettleCheck, At
  <2>2. RowFacts([c EXCEPT !.pc = "checked"])
    BY <2>1 DEF RowFacts, Call
  <2> QED BY <1>9, <2>2, AsideMove DEF SettleCheck
<1>10. ASSUME NEW c \in calls, Fund(c) PROVE SideInv'
  <2>1. Aside
    BY <1>10, StatusAside DEF Fund, At
  <2>2. PICK d : calls' \subseteq calls \cup {d} /\ RowFacts(d)
    BY <1>10, NotifyingCall DEF Fund
  <2> QED BY <2>1, <2>2, AsideStep
<1>11. ASSUME NEW c \in calls, Settle(c) PROVE SideInv'
  <2>1. Aside
    BY <1>11, StatusAside DEF Settle, At
  <2> QED BY <1>11, <2>1, AsideAnswer DEF Settle, Respond
<1>12. ASSUME NEW c \in calls, ChargeBack(c) PROVE SideInv'
  <2>1. Aside
    BY <1>12, StatusAside DEF ChargeBack, At
  <2>2. PICK d : calls' \subseteq calls \cup {d} /\ RowFacts(d)
    BY <1>12, NotifyingCall DEF ChargeBack
  <2> QED BY <2>1, <2>2, AsideStep
<1>13. ASSUME NEW c \in calls, WriteOff(c) PROVE SideInv'
  <2>1. Aside
    BY <1>13, StatusAside DEF WriteOff, At
  <2> QED BY <1>13, <2>1, AsideAnswer DEF WriteOff, Respond
<1>14. ASSUME NEW c \in calls, ReleaseHoldFind(c) PROVE SideInv'
  <2>1. c \in Call /\ RowFacts(c) /\ c.op = "releaseHold"
    BY <1>14 DEF SideInv, TypeInv, TypeOK, ReleaseHoldFind, At
  <2>2. PICK row : /\ row = NoRow \/ \E x \in holds : x.id = row /\ x.inv = c.inv
                   /\ Become(c, [c EXCEPT !.pc = "checked", !.row = row])
    BY <1>14 DEF ReleaseHoldFind, ActiveHolds
  <2>3. RowFacts([c EXCEPT !.pc = "checked", !.row = row])
    BY <2>1, <2>2 DEF RowFacts, Call
  <2> QED BY <1>14, <2>2, <2>3, AsideMove DEF ReleaseHoldFind
<1>15. ASSUME NEW c \in calls, WriteOffFind(c) PROVE SideInv'
  <2>1. c \in Call /\ RowFacts(c) /\ c.op = "writeOff"
    BY <1>15 DEF SideInv, TypeInv, TypeOK, WriteOffFind, At
  <2>2. PICK row, amount :
          Become(c, [c EXCEPT !.pc = "checked", !.row = row, !.amount = amount])
    BY <1>15 DEF WriteOffFind
  <2>3. RowFacts([c EXCEPT !.pc = "checked", !.row = row, !.amount = amount])
    BY <2>1 DEF RowFacts, Call
  <2> QED BY <1>15, <2>2, <2>3, AsideMove DEF WriteOffFind
<1> QED
  BY <1>1, <1>2, <1>3, <1>4, <1>5, <1>6, <1>7, <1>8, <1>9, <1>10, <1>11, <1>12, <1>13, <1>14, <1>15,
     PlaceReserveHoldSide, ReleaseReserveHoldSide DEF ServicingNext

(* So does every step of the system.                                       *)
LEMMA SideStep == SideInv /\ [Next]_vars => SideInv'
<1> SUFFICES ASSUME SideInv, [Next]_vars PROVE SideInv'
  OBVIOUS
<1>1. TypeInv'
  BY TypeStep DEF SideInv
<1>2. CASE StoreStep
  <2>1. ASSUME NEW m \in MC, NEW t \in LimitValues, SetLimit(m, t) PROVE SideInv'
    BY <1>1, <2>1, AsideAnswer DEF SetLimit, Aside
  <2>2. ASSUME NEW a \in MC \cup Broker, OnboardingMove(a) PROVE SideInv'
    BY <1>1, <2>2, AsideAnswer DEF OnboardingMove, Aside
  <2>3. ASSUME NEW c \in calls, Notify(c) PROVE SideInv'
    BY <1>1, <2>3, AsideAnswer DEF Notify, Respond, Aside
  <2>4. ASSUME NEW c \in calls, Abandon(c) PROVE SideInv'
    BY <1>1, <2>4, AsideAnswer DEF Abandon, Respond, Aside, tables
  <2> QED BY <1>1, <1>2, <2>1, <2>2, <2>3, <2>4, IntakeSide, ServicingSide
          DEF StoreStep
<1>3. CASE PaymentStep
  BY <1>1, <1>3, AsideAnswer DEF PaymentStep, Aside
<1>4. CASE UNCHANGED vars
  BY <1>1, <1>4, AsideAnswer DEF vars, storeVars, tables, Aside
<1> QED BY <1>2, <1>3, <1>4 DEF Next

(* No holds, no disputes and no calls to begin with.                       *)
LEMMA SideInit == Init => SideInv
<1> SUFFICES ASSUME Init PROVE SideInv
  OBVIOUS
<1>1. /\ disputes = {} /\ holds = {} /\ calls = {}
      /\ \A i \in Invoice : ~ invoice[i].reserveHold
                            /\ invoice[i].status # "MC_DISPUTED"
  BY DEF Init, StoreInit
<1> QED BY <1>1, TypeInit DEF SideInv, UniqueIds, HoldHasEvent, DisputedHasDispute

(* An invoice blocked from settlement always has an active hold event to   *)
(* explain it, however placing and releasing calls overlap.                *)
THEOREM HoldsHaveEvents == Spec => []HoldHasEvent
<1>1. SideInv => HoldHasEvent
  BY DEF SideInv
<1> QED BY SideInit, SideStep, <1>1, PTL DEF Spec

(* A disputed invoice always has an open dispute to resolve, however       *)
(* disputes, resolutions and cancellations overlap.                        *)
THEOREM DisputesAreOpen == Spec => []DisputedHasDispute
<1>1. SideInv => DisputedHasDispute
  BY DEF SideInv
<1> QED BY SideInit, SideStep, <1>1, PTL DEF Spec

-----------------------------------------------------------------------------
(* No second upload.                                                       *)

(* Any status write but the first of create leaves other statuses behind.  *)
LEMMA StatusWriteKeeps ==
  ASSUME SideInv, NEW c \in calls, NEW r, WriteStatusChange(c, r),
         c.op = "create" => ~ Exists(c.inv), NEW i \in Invoice, Exists(i),
         invoice'[i].status = "UPLOADED"
  PROVE  invoice[i].status = "UPLOADED"
<1>1. invoice \in [Invoice -> InvoiceRow] /\ RowFacts(c)
  BY DEF SideInv, TypeInv, TypeOK
<1>2. c.to = "UPLOADED" => c.op = "create"
  BY <1>1 DEF RowFacts
<1> QED BY <1>1, <1>2 DEF WriteStatusChange, InvoiceRow

(* Every step either writes a status that way or writes none.              *)
LEMMA StatusWriters ==
  ASSUME SideInv, Next
  PROVE  \/ \A i \in Invoice : invoice'[i].status = invoice[i].status
         \/ \E c \in calls : \E r :
              /\ WriteStatusChange(c, r) /\ (c.op = "create" => ~ Exists(c.inv))
              /\ c.pc # "notify" /\ c.op # "releaseHold"
<1> DEFINE Kept == \A i \in Invoice : invoice'[i].status = invoice[i].status
           Written == \E c \in calls : \E r :
             /\ WriteStatusChange(c, r) /\ (c.op = "create" => ~ Exists(c.inv))
             /\ c.pc # "notify" /\ c.op # "releaseHold"
<1> SUFFICES Kept \/ Written
  OBVIOUS
<1>t. invoice \in [Invoice -> InvoiceRow]
  BY DEF SideInv, TypeInv, TypeOK
<1>1. CASE IntakeNext
  <2>1. ASSUME NEW c \in calls,
               \/ Create(c) \/ ExtractionStarted(c) \/ ExtractionDone(c)
               \/ ChangeStatus(c) \/ McDispute(c) \/ ResolveDispute(c)
        PROVE  Written
    BY <2>1 DEF Create, ExtractionStarted, ExtractionDone, ChangeStatus,
                ReadyToChangeStatus, McDispute, ResolveDispute, At
  <2>2. CASE UNCHANGED invoice
    BY <2>2
  <2> QED BY <1>1, <2>1, <2>2
          DEF IntakeNext, CreateBegin, AttachDocument, RunExtraction,
              SubmitForApproval, McApprove, Underwrite, UnderwriteCheck,
              RespondToInfoRequest, Cancel, McDisputeBegin, ResolveDisputeBegin,
              ResolveDisputeFind, BeginPlain, Begin, tables
<1>2. CASE ServicingNext
  <2>1. ASSUME NEW c \in calls,
               Fund(c) \/ Settle(c) \/ ChargeBack(c) \/ WriteOff(c)
        PROVE  Written
    BY <2>1 DEF Fund, Settle, ChargeBack, WriteOff, At
  <2>2. ASSUME NEW c \in calls, PlaceReserveHold(c) \/ ReleaseReserveHold(c)
        PROVE  Kept
    BY <1>t, <2>2 DEF PlaceReserveHold, ReleaseReserveHold, InvoiceRow
  <2>3. CASE UNCHANGED invoice
    BY <2>3
  <2> QED BY <1>2, <2>1, <2>2, <2>3
          DEF ServicingNext, FundBegin, FundCheck, OpenTx, SettleBegin, SettleCheck,
              ChargebackBegin, WriteOffBegin, WriteOffFind, PlaceHoldBegin,
              ReleaseHoldBegin, ReleaseHoldFind, BeginMoney, BeginPlain, Begin, tables
<1>3. CASE UNCHANGED invoice
  BY <1>3
<1> QED BY <1>1, <1>2, <1>3
        DEF Next, PaymentStep, StoreStep, SetLimit, OnboardingMove, Notify, Abandon, tables

(* Two uploads of one number create one invoice, and no call, however      *)
(* stale, brings an invoice back to UPLOADED, where it could be extracted  *)
(* and submitted a second time.                                            *)
THEOREM UploadedOnce == Spec => NeverReuploaded
<1>1. SideInv /\ [Next]_vars =>
        [\A i \in Invoice : Exists(i) /\ invoice'[i].status = "UPLOADED"
           => invoice[i].status = "UPLOADED"]_vars
  BY StatusWriters, StatusWriteKeeps
<1> QED BY SideInit, SideStep, <1>1, PTL DEF Spec, NeverReuploaded

-----------------------------------------------------------------------------
(* Payment matching within the whole.                                      *)
Matching == INSTANCE Payments_proofs

(* Every step of the system is one of payment matching or leaves payments, *)
(* receipts and matches alone.                                             *)
LEMMA FundingMatches == [Next]_vars => [Matching!PaymentsNext]_(Matching!paymentVars)
<1>1. CASE PaymentStep
  BY <1>1 DEF PaymentStep, Pay!RecordPayment, Pay!MatchOpen, Pay!MatchCommit,
     Pay!MatchAbandon, Pay!TotalMatched, Pay!StatusFor, Matching!PaymentsNext,
     Matching!RecordPayment, Matching!MatchOpen, Matching!MatchCommit,
     Matching!MatchAbandon, Matching!TotalMatched, Matching!StatusFor
<1>2. CASE StoreStep /\ UNCHANGED paymentOnly
  BY <1>2, StoreStepKeepsMatches DEF paymentOnly, Matching!paymentVars
<1>3. CASE UNCHANGED vars
  BY <1>3 DEF vars, storeVars, tables, paymentOnly, Matching!paymentVars
<1> QED BY <1>1, <1>2, <1>3 DEF Next

(* An Admin may rely on FULLY_MATCHED in the whole system, whatever match  *)
(* calls and handlers overlap: its payment steps are those of Payments.    *)
THEOREM StatusesBacked == Spec => []NeverOverstated
<1>1. Matching!PaymentsAssumption
  BY FundingAssumption DEF Pay!PaymentsAssumption, Matching!PaymentsAssumption
<1>2. Init => Matching!MatchInv
  BY Matching!MatchInit DEF Init, Pay!PaymentsInit, Matching!PaymentsInit
<1>3. Matching!MatchInv /\ [Next]_vars => Matching!MatchInv'
  BY <1>1, FundingMatches, Matching!MatchStep
<1>4. Matching!MatchInv => NeverOverstated
  BY DEF Matching!MatchInv, Matching!NeverOverstated, NeverOverstated,
     Pay!NeverOverstated
<1> QED BY <1>2, <1>3, <1>4, PTL DEF Spec
=============================================================================
