--------------------------- MODULE InvoiceServicing ---------------------------
(***************************************************************************)
(* The handlers of InvoicesService that move money: fund, settle, the      *)
(* reserve holds, chargeback and writeOff.  Each reads and checks outside  *)
(* any transaction.  fund, settle and chargeback then run a transaction    *)
(* with a read in the middle (the keys taken, currentUsed): OpenTx takes   *)
(* the invoice's row lock and reads, the commit step writes.               *)
(***************************************************************************)
EXTENDS InvoiceStore

CONSTANT ChargebackAmounts  \* amounts an Admin may charge back

ASSUME ServicingAssumption == ChargebackAmounts \subseteq Nat \ {0}

(* Mutant: the default key is not deterministic.                           *)
KeysForRandom(op, i) ==
  ClientKeys \cup {DefaultKey(op, i), DefaultKey("attach", i)}

(* The header a client sent, or the handler's deterministic default.       *)
KeysFor(op, i) == ClientKeys \cup {DefaultKey(op, i)}

BeginMoney(op, i, from, to, amount) ==
  \E key \in KeysFor(op, i) : Begin(op, i, key, from, to, amount)

OpenTx(c) ==
  /\ \/ At(c, "fund", "checked") \/ At(c, "settle", "checked")
     \/ At(c, "chargeback", "begun")
  /\ ~ Locked(c.inv)
  /\ LET found == KeysFound(c.key)
         row   == limit[Debtor[c.inv]]
     IN  Become(c, [c EXCEPT !.pc = "tx", !.found = found,
                             !.used = IF row = NoLimit THEN 0 ELSE row.used])
  /\ UNCHANGED tables

-----------------------------------------------------------------------------
(* Funding.                                                                *)

FundBegin(i) ==
  /\ invoice[i].status = "APPROVED_FOR_FUNDING"
  /\ BeginMoney("fund", i, "APPROVED_FOR_FUNDING", "FUNDED", 0)

(* Mutant: funding trusts the check made when it was underwritten.         *)
FundUnchecked(c) ==
  /\ At(c, "fund", "begun")
  /\ limit[Debtor[c.inv]] # NoLimit
  /\ Become(c, [c EXCEPT !.pc = "checked"])
  /\ UNCHANGED tables

(* The limit is read again at funding, still before the transaction.       *)
FundCheck(c) ==
  /\ At(c, "fund", "begun")
  /\ WithinCreditLimit(c.inv)
  /\ Become(c, [c EXCEPT !.pc = "checked"])
  /\ UNCHANGED tables

(* Mutant: reserveAmount is left null.                                     *)
FundWithoutReserve(c) ==
  /\ At(c, "fund", "tx")
  /\ WriteStatusChange(c, NoRow)
  /\ Record(c, {EntryOf(c, "FUNDING_DISBURSEMENT", Advance(c.inv)),
                EntryOf(c, "RESERVE_HOLD", Reserve(c.inv))})
  /\ ApplyDelta(c, "credit-limit", "INVOICE_FUNDED", Amount[c.inv])
  /\ RespondNotify(c)
  /\ UNCHANGED <<documented, onboarded, disputes, holds, chargebacks,
                 matchedTo, notified>>

(* Mutant: the reserve is stored on the invoice but not held in ledger.     *)
FundForgetsHold(c) ==
  /\ At(c, "fund", "tx")
  /\ WriteStatusChange(c, Reserve(c.inv))
  /\ Record(c, {EntryOf(c, "FUNDING_DISBURSEMENT", Advance(c.inv))})
  /\ ApplyDelta(c, "credit-limit", "INVOICE_FUNDED", Amount[c.inv])
  /\ RespondNotify(c)
  /\ UNCHANGED <<documented, onboarded, disputes, holds, chargebacks,
                 matchedTo, notified>>

Fund(c) ==
  /\ At(c, "fund", "tx")
  /\ WriteStatusChange(c, Reserve(c.inv))
  /\ Record(c, {EntryOf(c, "FUNDING_DISBURSEMENT", Advance(c.inv)),
                EntryOf(c, "RESERVE_HOLD", Reserve(c.inv))})
  /\ ApplyDelta(c, "credit-limit", "INVOICE_FUNDED", Amount[c.inv])
  /\ RespondNotify(c)
  /\ UNCHANGED <<documented, onboarded, disputes, holds, chargebacks,
                 matchedTo, notified>>

-----------------------------------------------------------------------------
(* Settlement.                                                             *)

(* Mutants: the status guard, or the hold guard, is dropped.               *)
SettleAnyStatus(i) ==
  /\ ~ invoice[i].reserveHold
  /\ BeginMoney("settle", i, "FUNDED", "SETTLED", invoice[i].reserveAmount)

SettleDespiteHold(i) ==
  /\ invoice[i].status = "FUNDED"
  /\ BeginMoney("settle", i, "FUNDED", "SETTLED", invoice[i].reserveAmount)

SettleBegin(i) ==
  /\ invoice[i].status = "FUNDED" /\ ~ invoice[i].reserveHold
  /\ BeginMoney("settle", i, "FUNDED", "SETTLED", invoice[i].reserveAmount)

(* Mutant: any reconciliation at all will do.                              *)
SettleUnreconciled(c) ==
  /\ At(c, "settle", "begun")
  /\ matchedTo[c.inv] >= 0
  /\ Become(c, [c EXCEPT !.pc = "checked"])
  /\ UNCHANGED tables

(* Reconciliation: the matches must cover the invoice.                     *)
SettleCheck(c) ==
  /\ At(c, "settle", "begun")
  /\ matchedTo[c.inv] >= Amount[c.inv]
  /\ Become(c, [c EXCEPT !.pc = "checked"])
  /\ UNCHANGED tables

(* Mutant: only the cash exposure is restored.                             *)
SettleRestoresAdvance(c) ==
  /\ At(c, "settle", "tx")
  /\ WriteStatusChange(c, invoice[c.inv].reserveAmount)
  /\ Record(c, {EntryOf(c, "RESERVE_RELEASE", c.amount)})
  /\ ApplyDelta(c, "credit-limit-restore", "INVOICE_SETTLED", - Advance(c.inv))
  /\ Respond(c)
  /\ UNCHANGED <<documented, onboarded, disputes, holds, chargebacks,
                 matchedTo, notified>>

Settle(c) ==
  /\ At(c, "settle", "tx")
  /\ WriteStatusChange(c, invoice[c.inv].reserveAmount)
  /\ Record(c, {EntryOf(c, "RESERVE_RELEASE", c.amount)})
  /\ ApplyDelta(c, "credit-limit-restore", "INVOICE_SETTLED", - Amount[c.inv])
  /\ Respond(c)
  /\ UNCHANGED <<documented, onboarded, disputes, holds, chargebacks,
                 matchedTo, notified>>

-----------------------------------------------------------------------------
(* Reserve holds.                                                          *)

(* Mutant: a hold may be placed over an active one.                        *)
PlaceHoldAgain(i) ==
  /\ invoice[i].status = "FUNDED"
  /\ BeginPlain("placeHold", i, "FUNDED", "FUNDED")

PlaceHoldBegin(i) ==
  /\ invoice[i].status = "FUNDED" /\ ~ invoice[i].reserveHold
  /\ BeginPlain("placeHold", i, "FUNDED", "FUNDED")

PlaceReserveHold(c) ==
  /\ At(c, "placeHold", "begun")
  /\ ~ Locked(c.inv)
  /\ \E h \in FreshIn(holds) :
       holds' = holds \cup {[id |-> h, inv |-> c.inv, active |-> TRUE]}
  /\ invoice' = [invoice EXCEPT ![c.inv].reserveHold = TRUE]
  /\ Respond(c)
  /\ UNCHANGED <<documented, onboarded, disputes, chargebacks, ledger,
                 creditLog, limit, matchedTo, notified>>

ActiveHolds(i) == {h \in holds : h.inv = i /\ h.active}

(* Guarded by the flag alone, whatever the invoice's status is.            *)
ReleaseHoldBegin(i) ==
  /\ invoice[i].reserveHold
  /\ BeginPlain("releaseHold", i, "FUNDED", "FUNDED")

ReleaseHoldFind(c) ==
  /\ At(c, "releaseHold", "begun")
  /\ \E row \in IF ActiveHolds(c.inv) = {} THEN {NoRow}
                ELSE {h.id : h \in ActiveHolds(c.inv)} :
       Become(c, [c EXCEPT !.pc = "checked", !.row = row])
  /\ UNCHANGED tables

(* Mutant: the flag is not cleared with the event.                         *)
ReleaseKeepsFlag(c) ==
  /\ At(c, "releaseHold", "checked")
  /\ ~ Locked(c.inv)
  /\ holds' = {IF h.id = c.row THEN [h EXCEPT !.active = FALSE] ELSE h :
                 h \in holds}
  /\ Respond(c)
  /\ UNCHANGED <<invoice, documented, onboarded, disputes, chargebacks, ledger,
                 creditLog, limit, matchedTo, notified>>

ReleaseReserveHold(c) ==
  /\ At(c, "releaseHold", "checked")
  /\ ~ Locked(c.inv)
  /\ holds' = {IF h.id = c.row THEN [h EXCEPT !.active = FALSE] ELSE h :
                 h \in holds}
  /\ invoice' = [invoice EXCEPT ![c.inv].reserveHold = FALSE]
  /\ Respond(c)
  /\ UNCHANGED <<documented, onboarded, disputes, chargebacks, ledger,
                 creditLog, limit, matchedTo, notified>>

-----------------------------------------------------------------------------
(* Chargeback and write-off.                                               *)

(* Mutant: an approved invoice may be charged back before it is funded.    *)
ChargebackUnfunded(i, amount) ==
  /\ invoice[i].status \in {"APPROVED_FOR_FUNDING", "FUNDED"}
  /\ BeginMoney("chargeback", i, "FUNDED", "CHARGED_BACK", amount)

ChargebackBegin(i, amount) ==
  /\ invoice[i].status = "FUNDED"
  /\ BeginMoney("chargeback", i, "FUNDED", "CHARGED_BACK", amount)

(* Mutant: exposure is restored by the charged-back amount only.           *)
ChargeBackPartly(c) ==
  /\ At(c, "chargeback", "tx")
  /\ \E b \in FreshIn(chargebacks) :
       chargebacks' = chargebacks \cup
         {[id |-> b, inv |-> c.inv, amount |-> c.amount, entry |-> c.key,
           status |-> "COMPLETED"]}
  /\ WriteStatusChange(c, invoice[c.inv].reserveAmount)
  /\ Record(c, {EntryOf(c, "CHARGEBACK", c.amount)})
  /\ ApplyDelta(c, "credit-limit-restore", "CHARGEBACK", - c.amount)
  /\ RespondNotify(c)
  /\ UNCHANGED <<documented, onboarded, disputes, holds, matchedTo, notified>>

(* Mutant: the ledger gets the full invoice amount.                        *)
ChargeBackInFull(c) ==
  /\ At(c, "chargeback", "tx")
  /\ \E b \in FreshIn(chargebacks) :
       chargebacks' = chargebacks \cup
         {[id |-> b, inv |-> c.inv, amount |-> c.amount, entry |-> c.key,
           status |-> "COMPLETED"]}
  /\ WriteStatusChange(c, invoice[c.inv].reserveAmount)
  /\ Record(c, {EntryOf(c, "CHARGEBACK", Amount[c.inv])})
  /\ ApplyDelta(c, "credit-limit-restore", "CHARGEBACK", - Amount[c.inv])
  /\ RespondNotify(c)
  /\ UNCHANGED <<documented, onboarded, disputes, holds, matchedTo, notified>>

(* The row carries the id of the ledger entry record() returned, which is  *)
(* an older one when the key had been used.                                *)
ChargeBack(c) ==
  /\ At(c, "chargeback", "tx")
  /\ \E b \in FreshIn(chargebacks) :
       chargebacks' = chargebacks \cup
         {[id |-> b, inv |-> c.inv, amount |-> c.amount, entry |-> c.key,
           status |-> "COMPLETED"]}
  /\ WriteStatusChange(c, invoice[c.inv].reserveAmount)
  /\ Record(c, {EntryOf(c, "CHARGEBACK", c.amount)})
  /\ ApplyDelta(c, "credit-limit-restore", "CHARGEBACK", - Amount[c.inv])
  /\ RespondNotify(c)
  /\ UNCHANGED <<documented, onboarded, disputes, holds, matchedTo, notified>>

ChargebacksOf(i) == {b \in chargebacks : b.inv = i}

WriteOffBegin(i) ==
  /\ invoice[i].status = "CHARGED_BACK"
  /\ BeginMoney("writeOff", i, "CHARGED_BACK", "WRITTEN_OFF", 0)

(* Mutant: the full invoice amount is written off in any case.             *)
WriteOffInFull(c) ==
  /\ At(c, "writeOff", "begun")
  /\ Become(c, [c EXCEPT !.pc = "checked", !.amount = Amount[c.inv]])
  /\ UNCHANGED tables

(* findFirst before the transaction: any of the rows, the full invoice     *)
(* amount when there is none.                                              *)
WriteOffFind(c) ==
  /\ At(c, "writeOff", "begun")
  /\ \E b \in IF ChargebacksOf(c.inv) = {}
              THEN {[id |-> NoRow, amount |-> Amount[c.inv]]}
              ELSE ChargebacksOf(c.inv) :
       Become(c, [c EXCEPT !.pc = "checked", !.row = b.id,
                           !.amount = b.amount])
  /\ UNCHANGED tables

(* Its ledger key is looked up at the end of one short transaction.        *)
WriteOff(c) ==
  /\ At(c, "writeOff", "checked")
  /\ ~ Locked(c.inv)
  /\ WriteStatusChange(c, invoice[c.inv].reserveAmount)
  /\ chargebacks' = {IF b.id = c.row THEN [b EXCEPT !.status = "WRITTEN_OFF"]
                     ELSE b : b \in chargebacks}
  /\ Record([c EXCEPT !.found = KeysFound(c.key)],
            {EntryOf(c, "WRITE_OFF", c.amount)})
  /\ Respond(c)
  /\ UNCHANGED <<documented, onboarded, disputes, holds, creditLog, limit,
                 matchedTo, notified>>

-----------------------------------------------------------------------------
ServicingNext ==
  \/ \E i \in Invoice :
       \/ FundBegin(i) \/ SettleBegin(i) \/ PlaceHoldBegin(i)
       \/ ReleaseHoldBegin(i) \/ WriteOffBegin(i)
       \/ \E a \in ChargebackAmounts : ChargebackBegin(i, a)
  \/ \E c \in calls :
       \/ OpenTx(c) \/ FundCheck(c) \/ Fund(c) \/ SettleCheck(c) \/ Settle(c)
       \/ PlaceReserveHold(c) \/ ReleaseHoldFind(c) \/ ReleaseReserveHold(c)
       \/ ChargeBack(c) \/ WriteOffFind(c) \/ WriteOff(c)
=============================================================================
