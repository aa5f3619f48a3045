---------------------------- MODULE Servicing_proofs ----------------------------
(***************************************************************************)
(* What holds while calls on one invoice, or on one account, do not        *)
(* overlap: the lifecycle table, the reserve holds, the chargebacks, the   *)
(* credit limit, the credit log, that the handlers implement the credit    *)
(* facility, and what its counters add up to.                              *)
(***************************************************************************)
EXTENDS Money_proofs, Sums

(* The handlers that write their status change without having looked at    *)
(* the invoice's status.                                                   *)
Trusting == {"extract", "submit", "mcApprove", "mcDispute", "resolve",
             "underwrite", "respond"}

(* One call at a time on an invoice, and those handlers are only called    *)
(* where the portals offer them.                                           *)
Orderly ==
  /\ Serialised # "nothing"
  /\ PortalOnly \/ Ops \cap Trusting = {}

MoneyStatuses == {"FUNDED", "SETTLED", "CHARGED_BACK", "WRITTEN_OFF"}

(* The status change of a handler.                                         *)
FromTo(op, from, to) ==
  /\ op = "fund"       => from = "APPROVED_FOR_FUNDING" /\ to = "FUNDED"
  /\ op = "settle"     => from = "FUNDED" /\ to = "SETTLED"
  /\ op = "chargeback" => from = "FUNDED" /\ to = "CHARGED_BACK"
  /\ op = "writeOff"   => from = "CHARGED_BACK" /\ to = "WRITTEN_OFF"
  /\ op \in {"placeHold", "releaseHold"} => from = "FUNDED" /\ to = "FUNDED"
  /\ to \in MoneyStatuses =>
       op \in {"fund", "settle", "chargeback", "writeOff", "placeHold",
               "releaseHold"}

(* While a call is in flight its invoice keeps the status, and the hold    *)
(* flag, the call has seen.                                                *)
OrderFacts(c) ==
  /\ FromTo(c.op, c.from, c.to)
  /\ c.op = "extract" /\ c.pc = "begun" => c.to = "EXTRACTING"
  /\ c.pc # "notify" /\ c.op \notin {"create", "releaseHold"} =>
       invoice[c.inv].status = c.from
  /\ c.pc # "notify" /\ c.op \in {"settle", "placeHold"} =>
       ~ invoice[c.inv].reserveHold
  /\ c.op = "releaseHold" /\ c.pc = "checked" =>
       \A h \in ActiveHolds(c.inv) : h.id = c.row

(* The flag stands for one active event, and a settled invoice has none.   *)
HoldOrder(i) ==
  /\ ~ invoice[i].reserveHold => ActiveHolds(i) = {}
  /\ \A g, h \in ActiveHolds(i) : g = h
  /\ invoice[i].status = "SETTLED" => ~ invoice[i].reserveHold

Alone == \A c, d \in calls : c.inv = d.inv => c = d

OrderInv ==
  /\ SideInv /\ Alone
  /\ \A c \in calls : OrderFacts(c)
  /\ \A i \in Invoice : HoldOrder(i)

-----------------------------------------------------------------------------
(* A step that changes no invoice's row and no hold event but this one's.  *)
Only(i) ==
  \A j \in Invoice \ {i} :
    invoice'[j] = invoice[j] /\ ActiveHolds(j)' = ActiveHolds(j)

(* What concerns other invoices stays as it is.                            *)
LEMMA OthersKept ==
  ASSUME OrderInv, NEW i \in Invoice, Only(i)
  PROVE  /\ \A c \in calls : c.inv # i => OrderFacts(c)'
         /\ \A j \in Invoice \ {i} : HoldOrder(j)'
<1>1. ASSUME NEW c \in calls, c.inv # i PROVE OrderFacts(c)'
  <2>1. OrderFacts(c) /\ c.inv \in Invoice \ {i}
    BY <1>1 DEF OrderInv, SideInv, TypeInv, TypeOK, Call
  <2>2. /\ invoice'[c.inv] = invoice[c.inv]
        /\ ActiveHolds(c.inv)' = ActiveHolds(c.inv)
    BY <2>1 DEF Only
  <2> QED BY <2>1, <2>2 DEF OrderFacts
<1>2. ASSUME NEW j \in Invoice \ {i} PROVE HoldOrder(j)'
  BY <1>2 DEF OrderInv, HoldOrder, Only
<1> QED BY <1>1, <1>2

(* A call goes on as d.                                                    *)
LEMMA OrderStep ==
  ASSUME OrderInv, SideInv', NEW c \in calls, NEW d,
         calls' \subseteq (calls \ {c}) \cup {d}, d.inv = c.inv,
         Only(c.inv), OrderFacts(d)', HoldOrder(c.inv)'
  PROVE  OrderInv'
<1>1. c.inv \in Invoice
  BY DEF OrderInv, SideInv, TypeInv, TypeOK, Call
<1>2. \A x \in calls \ {c} : x.inv # c.inv
  BY DEF OrderInv, Alone
<1>3. Alone'
  BY <1>2 DEF OrderInv, Alone
<1>4. \A x \in calls' : OrderFacts(x)'
  BY <1>1, <1>2, OthersKept
<1>5. \A j \in Invoice : HoldOrder(j)'
  BY <1>1, OthersKept
<1> QED BY <1>3, <1>4, <1>5 DEF OrderInv

(* A call returns.                                                         *)
LEMMA OrderAnswer ==
  ASSUME OrderInv, SideInv', NEW c \in calls, calls' = calls \ {c},
         Only(c.inv), HoldOrder(c.inv)'
  PROVE  OrderInv'
<1>1. c.inv \in Invoice
  BY DEF OrderInv, SideInv, TypeInv, TypeOK, Call
<1>2. \A x \in calls' : x \in calls /\ x.inv # c.inv
  BY DEF OrderInv, Alone
<1>3. Alone'
  BY <1>2 DEF OrderInv, Alone
<1>4. \A x \in calls' : OrderFacts(x)'
  BY <1>1, <1>2, OthersKept
<1>5. \A j \in Invoice : HoldOrder(j)'
  BY <1>1, OthersKept
<1> QED BY <1>3, <1>4, <1>5 DEF OrderInv

(* Neither invoices nor hold events change, and at most calls return.      *)
LEMMA OrderIdle ==
  ASSUME OrderInv, SideInv', UNCHANGED <<invoice, holds>>, calls' \subseteq calls
  PROVE  OrderInv'
<1>1. \A c \in calls' : OrderFacts(c)'
  BY DEF OrderInv, OrderFacts, ActiveHolds
<1>2. \A i \in Invoice : HoldOrder(i)'
  BY DEF OrderInv, HoldOrder, ActiveHolds
<1>3. Alone'
  BY DEF OrderInv, Alone
<1> QED BY <1>1, <1>2, <1>3 DEF OrderInv

(* A call moves on without touching a table.                               *)
LEMMA OrderMove ==
  ASSUME OrderInv, SideInv', NEW c \in calls, NEW d, Become(c, d),
         UNCHANGED tables, d.inv = c.inv, OrderFacts(d)
  PROVE  OrderInv'
<1>1. calls' \subseteq (calls \ {c}) \cup {d}
  BY DEF Become
<1>2. Only(c.inv)
  BY DEF Only, ActiveHolds, tables
<1>3. OrderFacts(d)'
  BY DEF OrderFacts, ActiveHolds, tables
<1>4. c.inv \in Invoice
  BY DEF OrderInv, SideInv, TypeInv, TypeOK, Call
<1>5. HoldOrder(c.inv)'
  BY <1>4 DEF OrderInv, HoldOrder, ActiveHolds, tables
<1> QED BY <1>1, <1>2, <1>3, <1>5, OrderStep

(* A request that arrives finds its invoice without another call.          *)
LEMMA OrderBegin ==
  ASSUME Orderly, OrderInv, SideInv', NEW op, NEW i \in Invoice,
         NEW key, NEW from, NEW to, NEW amount,
         Begin(op, i, key, from, to, amount), FromTo(op, from, to),
         op = "extract" => to = "EXTRACTING",
         op \notin {"create", "releaseHold"} => invoice[i].status = from,
         op \in {"settle", "placeHold"} => ~ invoice[i].reserveHold
  PROVE  OrderInv'
<1>1. PICK r \in Request :
        calls' = calls \cup
          {[req |-> r, op |-> op, pc |-> "begun", inv |-> i, key |-> key,
            from |-> from, to |-> to, amount |-> amount, row |-> NoRow,
            found |-> {}, used |-> 0]}
  BY DEF Begin
<1> DEFINE d == [req |-> r, op |-> op, pc |-> "begun", inv |-> i, key |-> key,
                 from |-> from, to |-> to, amount |-> amount, row |-> NoRow,
                 found |-> {}, used |-> 0]
<1>2. d.op = op /\ d.pc = "begun" /\ d.inv = i /\ d.from = from /\ d.to = to
  OBVIOUS
<1>3. calls' = calls \cup {d}
  BY <1>1
<1> HIDE DEF d
<1>4. UNCHANGED <<invoice, holds>>
  BY DEF Begin, tables
<1>5. \A c \in calls : c.inv # i
  BY StoreAssumption DEF Begin, Requested, Apart, Orderly, StoreAssumption
<1>6. Alone'
  BY <1>2, <1>3, <1>5 DEF OrderInv, Alone
<1>7. OrderFacts(d)'
  BY <1>2, <1>4 DEF OrderFacts
<1>8. \A c \in calls : OrderFacts(c)'
  BY <1>4 DEF OrderInv, OrderFacts, ActiveHolds
<1>9. \A j \in Invoice : HoldOrder(j)'
  BY <1>4 DEF OrderInv, HoldOrder, ActiveHolds
<1> QED BY <1>3, <1>6, <1>7, <1>8, <1>9 DEF OrderInv

(* The same for a handler that does not look at the status: the portal     *)
(* offers it in the one it leaves.                                         *)
LEMMA OrderBeginTrusting ==
  ASSUME Orderly, OrderInv, SideInv', NEW op \in Trusting, NEW i \in Invoice,
         NEW from, NEW to, BeginPlain(op, i, from, to),
         OfferedIn(op) = {from}, to \notin MoneyStatuses,
         op = "extract" => to = "EXTRACTING"
  PROVE  OrderInv'
<1>1. op \in Ops /\ (PortalOnly => invoice[i].status \in OfferedIn(op))
  BY DEF BeginPlain, Begin, Requested
<1>2. invoice[i].status = from
  BY <1>1 DEF Orderly
<1>3. FromTo(op, from, to)
  BY DEF FromTo, Trusting
<1> QED BY <1>2, <1>3, OrderBegin DEF BeginPlain, Trusting

LEMMA OrderBeginMoney ==
  ASSUME Orderly, OrderInv, SideInv', NEW op, NEW i \in Invoice,
         NEW from, NEW to, NEW amount,
         BeginMoney(op, i, from, to, amount), FromTo(op, from, to),
         op # "extract",
         invoice[i].status = from,
         op \in {"settle", "placeHold"} => ~ invoice[i].reserveHold
  PROVE  OrderInv'
<1>1. PICK key \in KeysFor(op, i) : Begin(op, i, key, from, to, amount)
  BY DEF BeginMoney
<1> QED BY <1>1, OrderBegin

-----------------------------------------------------------------------------
(* The transactions.                                                       *)

(* A status change leaves the hold flag alone.                             *)
LEMMA StatusWritten ==
  ASSUME OrderInv, NEW c \in calls, NEW r, WriteStatusChange(c, r),
         UNCHANGED holds, c.pc # "notify"
  PROVE  /\ Only(c.inv) /\ HoldOrder(c.inv)'
         /\ invoice'[c.inv].status = c.to
         /\ invoice'[c.inv].reserveHold = invoice[c.inv].reserveHold
<1>1. invoice \in [Invoice -> InvoiceRow] /\ c \in Call /\ c.inv \in Invoice
  BY DEF OrderInv, SideInv, TypeInv, TypeOK, Call
<1>2. \A j \in Invoice \ {c.inv} : invoice'[j] = invoice[j]
  BY <1>1 DEF WriteStatusChange
<1>3. /\ invoice'[c.inv].status = c.to
      /\ invoice'[c.inv].reserveHold = invoice[c.inv].reserveHold
  BY <1>1 DEF WriteStatusChange, InvoiceRow
<1>4. OrderFacts(c) /\ HoldOrder(c.inv)
  BY <1>1 DEF OrderInv
<1>5. c.to = "SETTLED" => ~ invoice[c.inv].reserveHold
  BY <1>4 DEF OrderFacts, FromTo, MoneyStatuses
<1>6. HoldOrder(c.inv)'
  BY <1>3, <1>4, <1>5 DEF HoldOrder, ActiveHolds
<1> QED BY <1>2, <1>3, <1>6 DEF Only, ActiveHolds

(* A call that returns after its status change.                            *)
LEMMA OrderWritten ==
  ASSUME OrderInv, SideInv', NEW c \in calls, NEW r, WriteStatusChange(c, r),
         UNCHANGED holds, c.pc # "notify", Respond(c)
  PROVE  OrderInv'
  BY StatusWritten, OrderAnswer DEF Respond

(* One that goes on to notify.                                             *)
LEMMA OrderWrittenNotifies ==
  ASSUME OrderInv, SideInv', NEW c \in calls, NEW r, WriteStatusChange(c, r),
         UNCHANGED holds, c.pc # "notify", RespondNotify(c)
  PROVE  OrderInv'
<1> DEFINE zero == 0
           none == {}
           d == [c EXCEPT !.pc = "notify", !.amount = zero, !.row = NoRow,
                          !.found = none, !.used = zero]
<1>1. calls' \subseteq (calls \ {c}) \cup {d}
  BY DEF RespondNotify, Become
<1>2. c \in Call /\ OrderFacts(c)
  BY DEF OrderInv, SideInv, TypeInv, TypeOK
<1> HIDE DEF zero, none
<1>3. /\ d.to = c.to /\ d.op = c.op /\ d.pc = "notify" /\ d.inv = c.inv
      /\ d.from = c.from
  BY <1>2 DEF Call
<1> HIDE DEF d
<1>4. OrderFacts(d)'
  BY <1>2, <1>3 DEF OrderFacts
<1> QED BY <1>1, <1>3, <1>4, StatusWritten, OrderStep

(* A hold is placed where there was none.                                  *)
LEMMA PlaceReserveHoldOrder ==
  ASSUME OrderInv, SideInv', NEW c \in calls, PlaceReserveHold(c)
  PROVE  OrderInv'
<1>1. /\ invoice \in [Invoice -> InvoiceRow] /\ c \in Call /\ c.inv \in Invoice
      /\ OrderFacts(c) /\ HoldOrder(c.inv)
  BY DEF OrderInv, SideInv, TypeInv, TypeOK, Call
<1>2. c.op = "placeHold" /\ c.pc = "begun"
  BY DEF PlaceReserveHold, At
<1>3. PICK n : holds' = holds \cup {[id |-> n, inv |-> c.inv, active |-> TRUE]}
  BY DEF PlaceReserveHold
<1> DEFINE row == [id |-> n, inv |-> c.inv, active |-> TRUE]
<1>4. row.inv = c.inv /\ row.active
  OBVIOUS
<1>5. holds' = holds \cup {row}
  BY <1>3
<1> HIDE DEF row
<1>6. /\ \A j \in Invoice \ {c.inv} : invoice'[j] = invoice[j]
      /\ invoice'[c.inv].reserveHold
      /\ invoice'[c.inv].status = invoice[c.inv].status
  BY <1>1 DEF PlaceReserveHold, InvoiceRow
<1>7. Only(c.inv)
  BY <1>4, <1>5, <1>6 DEF Only, ActiveHolds
<1>8. ActiveHolds(c.inv) = {} /\ invoice[c.inv].status # "SETTLED"
  BY <1>1, <1>2 DEF OrderFacts, HoldOrder, FromTo
<1>9. \A h \in ActiveHolds(c.inv)' : h = row
  BY <1>5, <1>8 DEF ActiveHolds
<1>10. HoldOrder(c.inv)'
  BY <1>6, <1>8, <1>9 DEF HoldOrder
<1> QED BY <1>7, <1>10, OrderAnswer DEF PlaceReserveHold, Respond

(* A release finds the one active event and closes it with the flag.       *)
LEMMA ReleaseReserveHoldOrder ==
  ASSUME OrderInv, SideInv', NEW c \in calls, ReleaseReserveHold(c)
  PROVE  OrderInv'
<1> DEFINE After(h) == IF h.id = c.row THEN [h EXCEPT !.active = FALSE] ELSE h
<1>1. /\ invoice \in [Invoice -> InvoiceRow] /\ c \in Call /\ c.inv \in Invoice
      /\ OrderFacts(c) /\ HoldOrder(c.inv) /\ RowFacts(c)
      /\ c.op = "releaseHold" /\ c.pc = "checked" /\ holds \subseteq HoldEvent
  BY DEF OrderInv, SideInv, TypeInv, TypeOK, Call, ReleaseReserveHold, At
<1>2. holds' = {After(h) : h \in holds}
  BY DEF ReleaseReserveHold
<1>3. \A h \in holds : /\ After(h).inv = h.inv
                       /\ h.id # c.row => After(h) = h
                       /\ h.id = c.row => ~ After(h).active
  BY <1>1 DEF HoldEvent
<1> HIDE DEF After
<1>4. /\ \A j \in Invoice \ {c.inv} : invoice'[j] = invoice[j]
      /\ ~ invoice'[c.inv].reserveHold
  BY <1>1 DEF ReleaseReserveHold, InvoiceRow
<1>5. \A h \in holds : h.id = c.row => h.inv = c.inv
  <2>1. CASE c.row = NoRow
    BY <1>1, <2>1, StoreAssumption DEF StoreAssumption, HoldEvent
  <2>2. CASE \E g \in holds : g.id = c.row /\ g.inv = c.inv
    BY <2>2 DEF OrderInv, SideInv, UniqueIds
  <2> QED BY <1>1, <2>1, <2>2 DEF RowFacts
<1>6. Only(c.inv)
  <2> SUFFICES ASSUME NEW j \in Invoice \ {c.inv}
               PROVE  ActiveHolds(j)' = ActiveHolds(j)
    BY <1>4 DEF Only
  <2>1. \A h \in holds : h.inv = j => After(h) = h
    BY <1>3, <1>5
  <2>2. \A h \in holds : After(h).inv = h.inv
    BY <1>3
  <2> QED BY <1>2, <2>1, <2>2 DEF ActiveHolds
<1>7. ActiveHolds(c.inv)' = {}
  <2>1. \A h \in holds : h.inv = c.inv /\ h.active => h.id = c.row
    BY <1>1 DEF OrderFacts, ActiveHolds
  <2>2. \A h \in holds : After(h).inv = c.inv => ~ After(h).active
    BY <1>3, <2>1
  <2> QED BY <1>2, <2>2 DEF ActiveHolds
<1>8. HoldOrder(c.inv)'
  BY <1>4, <1>7 DEF HoldOrder
<1> QED BY <1>6, <1>8, OrderAnswer DEF ReleaseReserveHold, Respond

(* The event a release finds is the only active one.                       *)
LEMMA ReleaseHoldFindOrder ==
  ASSUME OrderInv, SideInv', NEW c \in calls, ReleaseHoldFind(c)
  PROVE  OrderInv'
<1>1. /\ c \in Call /\ c.inv \in Invoice /\ OrderFacts(c) /\ HoldOrder(c.inv)
      /\ c.op = "releaseHold"
  BY DEF OrderInv, SideInv, TypeInv, TypeOK, Call, ReleaseHoldFind, At
<1>2. PICK row : /\ ActiveHolds(c.inv) = {} \/ \E h \in ActiveHolds(c.inv) : h.id = row
                 /\ Become(c, [c EXCEPT !.pc = "checked", !.row = row])
  BY DEF ReleaseHoldFind
<1> DEFINE d == [c EXCEPT !.pc = "checked", !.row = row]
<1>3. /\ d.to = c.to /\ d.op = c.op /\ d.inv = c.inv /\ d.from = c.from
      /\ d.row = row /\ d.pc = "checked"
  BY <1>1 DEF Call
<1>4. Become(c, d) /\ UNCHANGED tables
  BY <1>2 DEF ReleaseHoldFind
<1> HIDE DEF d
<1>5. \A h \in ActiveHolds(c.inv) : h.id = row
  BY <1>1, <1>2 DEF HoldOrder
<1>6. OrderFacts(d)
  BY <1>1, <1>3, <1>5 DEF OrderFacts
<1> QED BY <1>3, <1>4, <1>6, OrderMove

-----------------------------------------------------------------------------
(* All the handlers.                                                       *)

LEMMA IntakeOrder ==
  ASSUME Orderly, OrderInv, SideInv', IntakeNext
  PROVE  OrderInv'
<1>1. ASSUME NEW i \in Invoice, CreateBegin(i) PROVE OrderInv'
  <2>1. FromTo("create", "DRAFT", "UPLOADED")
    BY DEF FromTo, MoneyStatuses
  <2> QED BY <1>1, <2>1, OrderBegin DEF CreateBegin, BeginPlain
<1>2. ASSUME NEW i \in Invoice, AttachDocument(i) PROVE OrderInv'
  BY <1>2, OrderIdle DEF AttachDocument
<1>3. ASSUME NEW i \in Invoice, RunExtraction(i) PROVE OrderInv'
  BY <1>3, OrderBeginTrusting DEF RunExtraction, Trusting, OfferedIn, MoneyStatuses
<1>4. ASSUME NEW i \in Invoice, SubmitForApproval(i) PROVE OrderInv'
  BY <1>4, OrderBeginTrusting DEF SubmitForApproval, Trusting, OfferedIn, MoneyStatuses
<1>5. ASSUME NEW i \in Invoice, McApprove(i) PROVE OrderInv'
  BY <1>5, OrderBeginTrusting DEF McApprove, Trusting, OfferedIn, MoneyStatuses
<1>6. ASSUME NEW i \in Invoice, McDisputeBegin(i) PROVE OrderInv'
  BY <1>6, OrderBeginTrusting DEF McDisputeBegin, Trusting, OfferedIn, MoneyStatuses
<1>7. ASSUME NEW i \in Invoice, RespondToInfoRequest(i) PROVE OrderInv'
  BY <1>7, OrderBeginTrusting DEF RespondToInfoRequest, Trusting, OfferedIn, MoneyStatuses
<1>8. ASSUME NEW i \in Invoice, Cancel(i) PROVE OrderInv'
  <2>1. FromTo("cancel", invoice[i].status, "CANCELLED")
    BY DEF FromTo, MoneyStatuses
  <2> QED BY <1>8, <2>1, OrderBegin DEF Cancel, BeginPlain
<1>9. ASSUME NEW i \in Invoice, NEW to \in InvoiceStatus, Underwrite(i, to)
      PROVE  OrderInv'
  BY <1>9, OrderBeginTrusting DEF Underwrite, Trusting, OfferedIn, MoneyStatuses
<1>10. ASSUME NEW i \in Invoice, NEW to \in InvoiceStatus, ResolveDisputeBegin(i, to)
       PROVE  OrderInv'
  BY <1>10, OrderBeginTrusting DEF ResolveDisputeBegin, Trusting, OfferedIn, MoneyStatuses
<1>11. ASSUME NEW c \in calls, Create(c) PROVE OrderInv'
  BY <1>11, OrderWritten DEF Create, At
<1>12. ASSUME NEW c \in calls, ExtractionStarted(c) PROVE OrderInv'
  <2> DEFINE d == [c EXCEPT !.pc = "ocr", !.from = "EXTRACTING",
                            !.to = "PENDING_BROKER_REVIEW"]
  <2>1. c \in Call /\ c.op = "extract" /\ c.pc = "begun" /\ OrderFacts(c)
    BY <1>12 DEF OrderInv, SideInv, TypeInv, TypeOK, ExtractionStarted, At
  <2>2. /\ d.op = "extract" /\ d.pc = "ocr" /\ d.inv = c.inv /\ d.from = "EXTRACTING"
        /\ d.to = "PENDING_BROKER_REVIEW"
    BY <2>1 DEF Call
  <2>3. calls' \subseteq (calls \ {c}) \cup {d}
    BY <1>12 DEF ExtractionStarted, Become
  <2> HIDE DEF d
  <2>4. /\ Only(c.inv) /\ HoldOrder(c.inv)'
        /\ invoice'[c.inv].status = c.to
    BY <1>12, <2>1, StatusWritten DEF ExtractionStarted
  <2>5. c.to = "EXTRACTING"
    BY <2>1 DEF OrderFacts
  <2>6. OrderFacts(d)'
    BY <2>2, <2>4, <2>5 DEF OrderFacts, FromTo, MoneyStatuses
  <2> QED BY <2>2, <2>3, <2>4, <2>6, OrderStep
<1>13. ASSUME NEW c \in calls, ExtractionDone(c) PROVE OrderInv'
  BY <1>13, OrderWritten DEF ExtractionDone, At
<1>14. ASSUME NEW c \in calls, UnderwriteCheck(c) PROVE OrderInv'
  <2>1. c \in Call /\ OrderFacts(c) /\ c.op = "underwrite" /\ c.pc = "begun"
    BY <1>14 DEF OrderInv, SideInv, TypeInv, TypeOK, UnderwriteCheck, At
  <2>2. OrderFacts([c EXCEPT !.pc = "checked"])
    BY <2>1 DEF OrderFacts, Call
  <2> QED BY <1>14, <2>1, <2>2, OrderMove DEF UnderwriteCheck, Call
<1>15. ASSUME NEW c \in calls, ChangeStatus(c) PROVE OrderInv'
  <2>1. c.pc # "notify"
    BY <1>15 DEF ChangeStatus, ReadyToChangeStatus, At
  <2> QED BY <1>15, <2>1, OrderWritten, OrderWrittenNotifies DEF ChangeStatus
<1>16. ASSUME NEW c \in calls, McDispute(c) PROVE OrderInv'
  BY <1>16, OrderWrittenNotifies DEF McDispute, At
<1>17. ASSUME NEW c \in calls, ResolveDisputeFind(c) PROVE OrderInv'
  <2>1. c \in Call /\ OrderFacts(c) /\ c.op = "resolve" /\ c.pc = "begun"
    BY <1>17 DEF OrderInv, SideInv, TypeInv, TypeOK, ResolveDisputeFind, At
  <2>2. PICK row : Become(c, [c EXCEPT !.pc = "checked", !.row = row])
    BY <1>17 DEF ResolveDisputeFind
  <2>3. OrderFacts([c EXCEPT !.pc = "checked", !.row = row])
    BY <2>1 DEF OrderFacts, Call
  <2>4. [c EXCEPT !.pc = "checked", !.row = row].inv = c.inv
    BY <2>1 DEF Call
  <2> QED BY <1>17, <2>2, <2>3, <2>4, OrderMove DEF ResolveDisputeFind
<1>18. ASSUME NEW c \in calls, ResolveDispute(c) PROVE OrderInv'
  BY <1>18, OrderWritten DEF ResolveDispute, At
<1> QED
  BY <1>1, <1>2, <1>3, <1>4, <1>5, <1>6, <1>7, <1>8, <1>9, <1>10, <1>11, <1>12,
     <1>13, <1>14, <1>15, <1>16, <1>17, <1>18 DEF IntakeNext

LEMMA ServicingOrder ==
  ASSUME Orderly, OrderInv, SideInv', ServicingNext
  PROVE  OrderInv'
<1>1. ASSUME NEW i \in Invoice, FundBegin(i) PROVE OrderInv'
  <2>1. FromTo("fund", "APPROVED_FOR_FUNDING", "FUNDED")
    BY DEF FromTo
  <2> QED BY <1>1, <2>1, OrderBeginMoney DEF FundBegin
<1>2. ASSUME NEW i \in Invoice, SettleBegin(i) PROVE OrderInv'
  <2>1. FromTo("settle", "FUNDED", "SETTLED")
    BY DEF FromTo
  <2> QED BY <1>2, <2>1, OrderBeginMoney DEF SettleBegin
<1>3. ASSUME NEW i \in Invoice, WriteOffBegin(i) PROVE OrderInv'
  <2>1. FromTo("writeOff", "CHARGED_BACK", "WRITTEN_OFF")
    BY DEF FromTo
  <2> QED BY <1>3, <2>1, OrderBeginMoney DEF WriteOffBegin
<1>4. ASSUME NEW i \in Invoice, NEW a \in ChargebackAmounts, ChargebackBegin(i, a)
      PROVE  OrderInv'
  <2>1. FromTo("chargeback", "FUNDED", "CHARGED_BACK")
    BY DEF FromTo
  <2> QED BY <1>4, <2>1, OrderBeginMoney DEF ChargebackBegin
<1>5. ASSUME NEW i \in Invoice, PlaceHoldBegin(i) PROVE OrderInv'
  <2>1. FromTo("placeHold", "FUNDED", "FUNDED")
    BY DEF FromTo
  <2> QED BY <1>5, <2>1, OrderBegin DEF PlaceHoldBegin, BeginPlain
<1>6. ASSUME NEW i \in Invoice, ReleaseHoldBegin(i) PROVE OrderInv'
  <2>1. FromTo("releaseHold", "FUNDED", "FUNDED")
    BY DEF FromTo
  <2> QED BY <1>6, <2>1, OrderBegin DEF ReleaseHoldBegin, BeginPlain
<1>7. ASSUME NEW c \in calls, OpenTx(c) PROVE OrderInv'
  <2> DEFINE found == KeysFound(c.key)
             row == limit[Debtor[c.inv]]
             used == IF row = NoLimit THEN 0 ELSE row.used
             d == [c EXCEPT !.pc = "tx", !.found = found, !.used = used]
  <2>1. Become(c, d) /\ UNCHANGED tables
    BY <1>7 DEF OpenTx
  <2>2. c \in Call /\ OrderFacts(c) /\ c.pc # "notify" /\ c.op # "releaseHold"
    BY <1>7 DEF OrderInv, SideInv, TypeInv, TypeOK, OpenTx, At
  <2> HIDE DEF found, used
  <2>3. /\ d.to = c.to /\ d.op = c.op /\ d.from = c.from /\ d.inv = c.inv
        /\ d.pc = "tx"
    BY <2>2 DEF Call
  <2> HIDE DEF d
  <2>4. OrderFacts(d)
    BY <2>2, <2>3 DEF OrderFacts
  <2> QED BY <2>1, <2>3, <2>4, OrderMove
<1>8. ASSUME NEW c \in calls, FundCheck(c) \/ SettleCheck(c) PROVE OrderInv'
  <2>1. c \in Call /\ OrderFacts(c) /\ c.op \in {"fund", "settle"} /\ c.pc = "begun"
    BY <1>8 DEF OrderInv, SideInv, TypeInv, TypeOK, FundCheck, SettleCheck, At
  <2>2. OrderFacts([c EXCEPT !.pc = "checked"])
    BY <2>1 DEF OrderFacts, Call
  <2>3. [c EXCEPT !.pc = "checked"].inv = c.inv
    BY <2>1 DEF Call
  <2> QED BY <1>8, <2>2, <2>3, OrderMove DEF FundCheck, SettleCheck
<1>9. ASSUME NEW c \in calls, Fund(c) PROVE OrderInv'
  BY <1>9, OrderWrittenNotifies DEF Fund, At
<1>10. ASSUME NEW c \in calls, Settle(c) PROVE OrderInv'
  BY <1>10, OrderWritten DEF Settle, At
<1>11. ASSUME NEW c \in calls, ChargeBack(c) PROVE OrderInv'
  BY <1>11, OrderWrittenNotifies DEF ChargeBack, At
<1>12. ASSUME NEW c \in calls, WriteOff(c) PROVE OrderInv'
  BY <1>12, OrderWritten DEF WriteOff, At
<1>13. ASSUME NEW c \in calls, WriteOffFind(c) PROVE OrderInv'
  <2>1. c \in Call /\ OrderFacts(c) /\ c.op = "writeOff" /\ c.pc = "begun"
    BY <1>13 DEF OrderInv, SideInv, TypeInv, TypeOK, WriteOffFind, At
  <2>2. PICK row, amount :
          Become(c, [c EXCEPT !.pc = "checked", !.row = row, !.amount = amount])
    BY <1>13 DEF WriteOffFind
  <2> DEFINE d == [c EXCEPT !.pc = "checked", !.row = row, !.amount = amount]
  <2>3. /\ d.to = c.to /\ d.op = c.op /\ d.from = c.from /\ d.inv = c.inv
        /\ d.pc = "checked" /\ Become(c, d)
    BY <2>1, <2>2 DEF Call
  <2> HIDE DEF d
  <2>4. OrderFacts(d)
    BY <2>1, <2>3 DEF OrderFacts
  <2> QED BY <1>13, <2>3, <2>4, OrderMove DEF WriteOffFind
<1> QED
  BY <1>1, <1>2, <1>3, <1>4, <1>5, <1>6, <1>7, <1>8, <1>9, <1>10, <1>11, <1>12,
     <1>13, PlaceReserveHoldOrder, ReleaseReserveHoldOrder, ReleaseHoldFindOrder
  DEF ServicingNext

LEMMA OrderInvStep == Orderly /\ OrderInv /\ [Next]_vars => OrderInv'
<1> SUFFICES ASSUME Orderly, OrderInv, [Next]_vars PROVE OrderInv'
  OBVIOUS
<1>1. SideInv'
  BY SideStep DEF OrderInv
<1>2. CASE StoreStep
  <2>1. ASSUME NEW m \in MC, NEW t \in LimitValues, SetLimit(m, t) PROVE OrderInv'
    BY <1>1, <2>1, OrderIdle DEF SetLimit
  <2>2. ASSUME NEW a \in MC \cup Broker, OnboardingMove(a) PROVE OrderInv'
    BY <1>1, <2>2, OrderIdle DEF OnboardingMove
  <2>3. ASSUME NEW c \in calls, Notify(c) \/ Abandon(c) PROVE OrderInv'
    BY <1>1, <2>3, OrderIdle DEF Notify, Abandon, Respond, tables
  <2> QED BY <1>1, <1>2, <2>1, <2>2, <2>3, IntakeOrder, ServicingOrder
          DEF StoreStep
<1>3. CASE PaymentStep
  BY <1>1, <1>3, OrderIdle DEF PaymentStep
<1>4. CASE UNCHANGED vars
  BY <1>1, <1>4, OrderIdle DEF vars, storeVars, tables
<1> QED BY <1>2, <1>3, <1>4 DEF Next

LEMMA OrderInit == Init => OrderInv
<1> SUFFICES ASSUME Init PROVE OrderInv
  OBVIOUS
<1>1. /\ calls = {} /\ holds = {}
      /\ \A i \in Invoice : invoice[i].status # "SETTLED" /\ ~ invoice[i].reserveHold
  BY DEF Init, StoreInit
<1> QED BY <1>1, SideInit DEF OrderInv, Alone, HoldOrder, ActiveHolds

-----------------------------------------------------------------------------
(* A step on an invoice that exists moves it as its call saw it.           *)
LEMMA LegalStep ==
  ASSUME OrderInv, [Next]_vars, NEW i \in Invoice, Exists(i)
  PROVE  \/ invoice'[i].status = invoice[i].status
         \/ IsLegalTransition(invoice[i].status, invoice'[i].status)
<1>1. invoice \in [Invoice -> InvoiceRow]
  BY DEF OrderInv, SideInv, TypeInv, TypeOK
<1>2. ASSUME NEW c \in calls, NEW r, WriteStatusChange(c, r),
             c.op = "create" => ~ Exists(c.inv),
             c.pc # "notify", c.op # "releaseHold"
      PROVE  \/ invoice'[i].status = invoice[i].status
             \/ IsLegalTransition(invoice[i].status, invoice'[i].status)
  <2>1. CASE i # c.inv
    BY <1>1, <1>2, <2>1 DEF WriteStatusChange
  <2>2. CASE i = c.inv
    <3>1. invoice[i].status = c.from
      BY <1>2, <2>2 DEF OrderInv, OrderFacts
    <3>2. invoice'[i].status = c.to
      BY <1>1, <1>2, <2>2 DEF WriteStatusChange, InvoiceRow
    <3> QED BY <1>2, <3>1, <3>2 DEF WriteStatusChange
  <2> QED BY <2>1, <2>2
<1>3. CASE Next
  BY <1>2, <1>3, StatusWriters DEF OrderInv
<1>4. CASE UNCHANGED vars
  BY <1>4 DEF vars, storeVars, tables
<1> QED BY <1>3, <1>4

(* While calls on one invoice do not overlap, and where the portals are    *)
(* what calls the handlers that do not look, every status change is one    *)
(* the lifecycle table allows.                                             *)
THEOREM MovesAreLegal ==
  ASSUME Orderly
  PROVE  Spec => LegalMoves
<1>1. OrderInv /\ [Next]_vars =>
        [\A i \in Invoice :
           invoice'[i].status # invoice[i].status /\ Exists(i)
             => IsLegalTransition(invoice[i].status, invoice'[i].status)]_vars
  BY LegalStep
<1>2. OrderInv /\ [Next]_vars => OrderInv'
  BY OrderInvStep
<1> QED BY OrderInit, <1>1, <1>2, PTL DEF Spec, LegalMoves

(* Under the same conditions the flag that blocks settlement stands for    *)
(* exactly one active hold event.                                          *)
THEOREM FlagsAgree ==
  ASSUME Orderly
  PROVE  Spec => []HoldFlagAgrees
<1>1. OrderInv => HoldFlagAgrees
  <2> SUFFICES ASSUME OrderInv, NEW i \in Invoice
               PROVE  Cardinality(ActiveHolds(i)) =
                        IF invoice[i].reserveHold THEN 1 ELSE 0
    BY DEF HoldFlagAgrees
  <2>1. HoldOrder(i) /\ (invoice[i].reserveHold => ActiveHolds(i) # {})
    BY DEF OrderInv, SideInv, HoldHasEvent
  <2>2. CASE invoice[i].reserveHold
    <3>1. PICK h \in ActiveHolds(i) : TRUE
      BY <2>1, <2>2
    <3>2. ActiveHolds(i) = {h}
      BY <2>1, <3>1 DEF HoldOrder
    <3> QED BY <2>2, <3>2, FS_Singleton
  <2>3. CASE ~ invoice[i].reserveHold
    BY <2>1, <2>3, FS_EmptySet DEF HoldOrder
  <2> QED BY <2>2, <2>3
<1>2. OrderInv /\ [Next]_vars => OrderInv'
  BY OrderInvStep
<1> QED BY OrderInit, <1>1, <1>2, PTL DEF Spec

(* And no invoice is settled over an active hold, whoever places it.       *)
THEOREM HoldsBlock ==
  ASSUME Orderly
  PROVE  Spec => []HoldBlocksSettlement
<1>1. OrderInv => HoldBlocksSettlement
  BY DEF OrderInv, HoldOrder, HoldBlocksSettlement
<1>2. OrderInv /\ [Next]_vars => OrderInv'
  BY OrderInvStep
<1> QED BY OrderInit, <1>1, <1>2, PTL DEF Spec

-----------------------------------------------------------------------------
(* While calls on one account do not overlap: the credit limit.            *)

AccountAlone == \A c, d \in calls : Debtor[c.inv] = Debtor[d.inv] => c = d

(* The counter a transaction read is still the counter, and the limit      *)
(* checked before the transaction still has room.                          *)
LimitFacts(c) ==
  /\ c.pc = "tx" /\ limit[Debtor[c.inv]] # NoLimit =>
       c.used = limit[Debtor[c.inv]].used
  /\ c.op = "fund" /\ c.pc \in {"checked", "tx"} => WithinCreditLimit(c.inv)

LimitInv == TypeInv /\ AccountAlone /\ \A c \in calls : LimitFacts(c)

(* A step that leaves the limits of the other accounts alone.              *)
OnlyAccount(m) == \A n \in MC \ {m} : limit'[n] = limit[n]

LEMMA OtherAccountsKept ==
  ASSUME LimitInv, NEW m \in MC, OnlyAccount(m)
  PROVE  \A c \in calls : Debtor[c.inv] # m => LimitFacts(c)'
<1> SUFFICES ASSUME NEW c \in calls, Debtor[c.inv] # m PROVE LimitFacts(c)'
  OBVIOUS
<1>1. Debtor[c.inv] \in MC
  BY StoreAssumption DEF LimitInv, TypeInv, TypeOK, Call, StoreAssumption
<1>2. limit'[Debtor[c.inv]] = limit[Debtor[c.inv]]
  BY <1>1 DEF OnlyAccount
<1>3. LimitFacts(c)
  BY DEF LimitInv
<1> QED BY <1>2, <1>3 DEF LimitFacts, WithinCreditLimit

(* A call goes on as d, or returns.                                        *)
LEMMA LimitCallStep ==
  ASSUME LimitInv, TypeInv', NEW c \in calls, NEW d, d.inv = c.inv,
         \/ calls' = calls \ {c}
         \/ calls' = (calls \ {c}) \cup {d} /\ LimitFacts(d)',
         OnlyAccount(Debtor[c.inv])
  PROVE  LimitInv'
<1>1. Debtor[c.inv] \in MC
  BY StoreAssumption DEF LimitInv, TypeInv, TypeOK, Call, StoreAssumption
<1>2. \A x \in calls \ {c} : Debtor[x.inv] # Debtor[c.inv]
  BY DEF LimitInv, AccountAlone
<1>3. AccountAlone'
  BY <1>2 DEF LimitInv, AccountAlone
<1>4. \A x \in calls \ {c} : LimitFacts(x)'
  BY <1>1, <1>2, OtherAccountsKept
<1> QED BY <1>3, <1>4 DEF LimitInv

(* No limit changes and at most calls return.                              *)
LEMMA LimitIdle ==
  ASSUME LimitInv, TypeInv', UNCHANGED limit, calls' \subseteq calls
  PROVE  LimitInv'
<1>1. \A c \in calls' : LimitFacts(c)'
  BY DEF LimitInv, LimitFacts, WithinCreditLimit
<1> QED BY <1>1 DEF LimitInv, AccountAlone

(* A call moves on, not to or within a transaction of its own money.       *)
LEMMA LimitMove ==
  ASSUME LimitInv, TypeInv', UNCHANGED limit, NEW c \in calls, NEW d,
         Become(c, d), d.inv = c.inv, d.op = c.op,
         d.pc # "tx", d.pc = "checked" => c.op # "fund"
  PROVE  LimitInv'
<1>1. LimitFacts(d)'
  BY DEF LimitFacts
<1>2. calls' = (calls \ {c}) \cup {d}
  BY DEF Become
<1>3. OnlyAccount(Debtor[c.inv])
  BY DEF OnlyAccount
<1> QED BY <1>1, <1>2, <1>3, LimitCallStep

LEMMA LimitNotifies ==
  ASSUME LimitInv, TypeInv', NEW c \in calls, RespondNotify(c),
         OnlyAccount(Debtor[c.inv])
  PROVE  LimitInv'
<1> DEFINE zero == 0
           none == {}
           d == [c EXCEPT !.pc = "notify", !.amount = zero, !.row = NoRow,
                          !.found = none, !.used = zero]
<1>1. calls' = (calls \ {c}) \cup {d}
  BY DEF RespondNotify, Become
<1>2. c \in Call
  BY DEF LimitInv, TypeInv, TypeOK
<1> HIDE DEF zero, none
<1>3. d.inv = c.inv /\ d.pc = "notify"
  BY <1>2 DEF Call
<1> HIDE DEF d
<1>4. LimitFacts(d)'
  BY <1>3 DEF LimitFacts
<1> QED BY <1>1, <1>3, <1>4, LimitCallStep

(* A request that arrives finds its account without another call.          *)
LEMMA LimitBegin ==
  ASSUME Serialised = "account", LimitInv, TypeInv', NEW op, NEW i \in Invoice,
         NEW key, NEW from, NEW to, NEW amount,
         Begin(op, i, key, from, to, amount)
  PROVE  LimitInv'
<1>1. PICK r \in Request :
        calls' = calls \cup
          {[req |-> r, op |-> op, pc |-> "begun", inv |-> i, key |-> key,
            from |-> from, to |-> to, amount |-> amount, row |-> NoRow,
            found |-> {}, used |-> 0]}
  BY DEF Begin
<1> DEFINE d == [req |-> r, op |-> op, pc |-> "begun", inv |-> i, key |-> key,
                 from |-> from, to |-> to, amount |-> amount, row |-> NoRow,
                 found |-> {}, used |-> 0]
<1>2. d.pc = "begun" /\ d.inv = i
  OBVIOUS
<1>3. calls' = calls \cup {d}
  BY <1>1
<1> HIDE DEF d
<1>4. UNCHANGED limit
  BY DEF Begin, tables
<1>5. \A c \in calls : Debtor[c.inv] # Debtor[i]
  BY DEF Begin, Requested, Apart
<1>6. AccountAlone'
  BY <1>2, <1>3, <1>5 DEF LimitInv, AccountAlone
<1>7. LimitFacts(d)' /\ \A c \in calls : LimitFacts(c)'
  BY <1>2, <1>4 DEF LimitInv, LimitFacts, WithinCreditLimit
<1> QED BY <1>3, <1>6, <1>7 DEF LimitInv

LEMMA LimitBeginMoney ==
  ASSUME Serialised = "account", LimitInv, TypeInv', NEW op, NEW i \in Invoice,
         NEW from, NEW to, NEW amount, BeginMoney(op, i, from, to, amount)
  PROVE  LimitInv'
  BY LimitBegin DEF BeginMoney

(* No handler before funding touches a limit.                              *)
LEMMA IntakeLimit ==
  ASSUME Serialised = "account", LimitInv, TypeInv', IntakeNext
  PROVE  LimitInv'
<1>t. \A c \in calls : c \in Call
  BY DEF LimitInv, TypeInv, TypeOK
<1>1. ASSUME NEW i \in Invoice,
             \/ CreateBegin(i) \/ RunExtraction(i) \/ SubmitForApproval(i)
             \/ McApprove(i) \/ McDisputeBegin(i) \/ RespondToInfoRequest(i)
             \/ Cancel(i)
             \/ \E to \in InvoiceStatus : Underwrite(i, to)
                                            \/ ResolveDisputeBegin(i, to)
      PROVE  LimitInv'
  BY <1>1, LimitBegin DEF CreateBegin, RunExtraction, SubmitForApproval,
     McApprove, McDisputeBegin, RespondToInfoRequest, Cancel, Underwrite,
     ResolveDisputeBegin, BeginPlain
<1>2. ASSUME NEW i \in Invoice, AttachDocument(i) PROVE LimitInv'
  BY <1>2, LimitIdle DEF AttachDocument
<1>3. ASSUME NEW c \in calls,
             Create(c) \/ ExtractionDone(c) \/ ResolveDispute(c)
      PROVE  LimitInv'
  BY <1>3, LimitIdle DEF Create, ExtractionDone, ResolveDispute, Respond
<1>4. ASSUME NEW c \in calls, ExtractionStarted(c) PROVE LimitInv'
  <2> DEFINE d == [c EXCEPT !.pc = "ocr", !.from = "EXTRACTING",
                            !.to = "PENDING_BROKER_REVIEW"]
  <2>1. d.inv = c.inv /\ d.op = c.op /\ d.pc = "ocr"
    BY <1>t DEF Call
  <2>2. Become(c, d) /\ UNCHANGED limit
    BY <1>4 DEF ExtractionStarted
  <2> HIDE DEF d
  <2> QED BY <2>1, <2>2, LimitMove
<1>5. ASSUME NEW c \in calls, UnderwriteCheck(c) PROVE LimitInv'
  <2> DEFINE d == [c EXCEPT !.pc = "checked"]
  <2>1. d.inv = c.inv /\ d.op = c.op /\ d.pc = "checked"
    BY <1>t DEF Call
  <2>2. Become(c, d) /\ UNCHANGED limit /\ c.op # "fund"
    BY <1>5 DEF UnderwriteCheck, At, tables
  <2> HIDE DEF d
  <2> QED BY <2>1, <2>2, LimitMove
<1>6. ASSUME NEW c \in calls, ChangeStatus(c) \/ McDispute(c) PROVE LimitInv'
  BY <1>6, LimitNotifies, LimitIdle DEF ChangeStatus, McDispute, Respond, OnlyAccount
<1>7. ASSUME NEW c \in calls, ResolveDisputeFind(c) PROVE LimitInv'
  <2>1. PICK row : Become(c, [c EXCEPT !.pc = "checked", !.row = row])
    BY <1>7 DEF ResolveDisputeFind
  <2> DEFINE d == [c EXCEPT !.pc = "checked", !.row = row]
  <2>2. d.inv = c.inv /\ d.op = c.op /\ d.pc = "checked"
    BY <1>t DEF Call
  <2>3. Become(c, d) /\ UNCHANGED limit /\ c.op # "fund"
    BY <1>7, <2>1 DEF ResolveDisputeFind, At, tables
  <2> HIDE DEF d
  <2> QED BY <2>2, <2>3, LimitMove
<1> QED BY <1>1, <1>2, <1>3, <1>4, <1>5, <1>6, <1>7 DEF IntakeNext

(* What applyDelta makes of the counter.                                   *)
LEMMA CounterMoves ==
  ASSUME LimitInv, NEW c \in calls, c.pc = "tx", NEW part, NEW reason, NEW delta,
         ApplyDelta(c, part, reason, delta)
  PROVE  /\ OnlyAccount(Debtor[c.inv])
         /\ part \in c.found => UNCHANGED limit
         /\ part \notin c.found =>
              /\ limit[Debtor[c.inv]] # NoLimit
              /\ limit[Debtor[c.inv]] \in LimitRow
              /\ limit'[Debtor[c.inv]] =
                   [total |-> limit[Debtor[c.inv]].total,
                    used  |-> limit[Debtor[c.inv]].used + delta]
<1> DEFINE m == Debtor[c.inv]
<1>1. m \in MC /\ limit \in [MC -> LimitRow \cup {NoLimit}]
  BY StoreAssumption DEF LimitInv, TypeInv, TypeOK, Call, StoreAssumption
<1>2. CASE part \in c.found
  BY <1>2 DEF ApplyDelta, OnlyAccount
<1>3. CASE part \notin c.found
  <2>1. /\ limit[m] # NoLimit
        /\ limit' = [limit EXCEPT ![m] = [limit[m] EXCEPT !.used = c.used + delta]]
    BY <1>3 DEF ApplyDelta
  <2>2. limit[m] \in LimitRow
    BY <1>1, <2>1
  <2>3. c.used = limit[m].used
    BY <2>1 DEF LimitInv, LimitFacts
  <2>4. [limit[m] EXCEPT !.used = c.used + delta] =
          [total |-> limit[m].total, used |-> limit[m].used + delta]
    BY <2>2, <2>3 DEF LimitRow
  <2>5. limit'[m] = [limit[m] EXCEPT !.used = c.used + delta]
    BY <1>1, <2>1
  <2> QED BY <1>1, <1>3, <2>1, <2>2, <2>4, <2>5 DEF OnlyAccount
<1> QED BY <1>2, <1>3

LEMMA ServicingLimit ==
  ASSUME Serialised = "account", LimitInv, TypeInv', ServicingNext
  PROVE  LimitInv'
<1>t. \A c \in calls : c \in Call /\ LimitFacts(c)
  BY DEF LimitInv, TypeInv, TypeOK
<1>1. ASSUME NEW i \in Invoice,
             \/ FundBegin(i) \/ SettleBegin(i) \/ WriteOffBegin(i)
             \/ \E a \in ChargebackAmounts : ChargebackBegin(i, a)
      PROVE  LimitInv'
  BY <1>1, LimitBeginMoney DEF FundBegin, SettleBegin, WriteOffBegin, ChargebackBegin
<1>2. ASSUME NEW i \in Invoice, PlaceHoldBegin(i) \/ ReleaseHoldBegin(i)
      PROVE  LimitInv'
  BY <1>2, LimitBegin DEF PlaceHoldBegin, ReleaseHoldBegin, BeginPlain
<1>3. ASSUME NEW c \in calls,
             PlaceReserveHold(c) \/ ReleaseReserveHold(c) \/ WriteOff(c)
      PROVE  LimitInv'
  BY <1>3, LimitIdle DEF PlaceReserveHold, ReleaseReserveHold, WriteOff, Respond
<1>4. ASSUME NEW c \in calls, OpenTx(c) PROVE LimitInv'
  <2> DEFINE row == limit[Debtor[c.inv]]
  <2>1. PICK found, used :
          /\ Become(c, [c EXCEPT !.pc = "tx", !.found = found, !.used = used])
          /\ row # NoLimit => used = row.used
    BY <1>4 DEF OpenTx
  <2>2. UNCHANGED limit /\ (c.op = "fund" => c.pc = "checked")
    BY <1>4 DEF OpenTx, At, tables
  <2> DEFINE d == [c EXCEPT !.pc = "tx", !.found = found, !.used = used]
  <2>3. d.inv = c.inv /\ d.op = c.op /\ d.pc = "tx" /\ d.used = used
    BY <1>t DEF Call
  <2>4. Become(c, d)
    BY <2>1
  <2> HIDE DEF d
  <2>5. d.op = "fund" => WithinCreditLimit(d.inv)'
    BY <1>t, <2>2, <2>3 DEF LimitFacts, WithinCreditLimit
  <2>6. limit'[Debtor[d.inv]] # NoLimit => d.used = limit'[Debtor[d.inv]].used
    BY <2>1, <2>2, <2>3
  <2>7. LimitFacts(d)'
    BY <2>5, <2>6 DEF LimitFacts
  <2>8. calls' = (calls \ {c}) \cup {d}
    BY <2>4 DEF Become
  <2>9. OnlyAccount(Debtor[c.inv])
    BY <2>2 DEF OnlyAccount
  <2> QED BY <2>3, <2>7, <2>8, <2>9, LimitCallStep
<1>5. ASSUME NEW c \in calls, FundCheck(c) PROVE LimitInv'
  <2> DEFINE d == [c EXCEPT !.pc = "checked"]
  <2>1. /\ calls' = (calls \ {c}) \cup {d} /\ UNCHANGED limit
        /\ WithinCreditLimit(c.inv)
    BY <1>5 DEF FundCheck, Become, tables
  <2>2. d.inv = c.inv /\ d.pc = "checked"
    BY <1>t DEF Call
  <2> HIDE DEF d
  <2>3. LimitFacts(d)'
    BY <2>1, <2>2 DEF LimitFacts, WithinCreditLimit
  <2> QED BY <2>1, <2>2, <2>3, LimitCallStep DEF OnlyAccount
<1>6. ASSUME NEW c \in calls, SettleCheck(c) PROVE LimitInv'
  <2> DEFINE d == [c EXCEPT !.pc = "checked"]
  <2>1. d.inv = c.inv /\ d.op = c.op /\ d.pc = "checked"
    BY <1>t DEF Call
  <2>2. Become(c, d) /\ UNCHANGED limit /\ c.op # "fund"
    BY <1>6 DEF SettleCheck, At, tables
  <2> HIDE DEF d
  <2> QED BY <2>1, <2>2, LimitMove
<1>7. ASSUME NEW c \in calls, ReleaseHoldFind(c) PROVE LimitInv'
  <2>1. PICK row : Become(c, [c EXCEPT !.pc = "checked", !.row = row])
    BY <1>7 DEF ReleaseHoldFind
  <2> DEFINE d == [c EXCEPT !.pc = "checked", !.row = row]
  <2>2. d.inv = c.inv /\ d.op = c.op /\ d.pc = "checked"
    BY <1>t DEF Call
  <2>3. Become(c, d) /\ UNCHANGED limit /\ c.op # "fund"
    BY <1>7, <2>1 DEF ReleaseHoldFind, At, tables
  <2> HIDE DEF d
  <2> QED BY <2>2, <2>3, LimitMove
<1>8. ASSUME NEW c \in calls, WriteOffFind(c) PROVE LimitInv'
  <2>1. PICK row, amount :
          Become(c, [c EXCEPT !.pc = "checked", !.row = row, !.amount = amount])
    BY <1>8 DEF WriteOffFind
  <2> DEFINE d == [c EXCEPT !.pc = "checked", !.row = row, !.amount = amount]
  <2>2. d.inv = c.inv /\ d.op = c.op /\ d.pc = "checked"
    BY <1>t DEF Call
  <2>3. Become(c, d) /\ UNCHANGED limit /\ c.op # "fund"
    BY <1>8, <2>1 DEF WriteOffFind, At, tables
  <2> HIDE DEF d
  <2> QED BY <2>2, <2>3, LimitMove
<1>9. ASSUME NEW c \in calls, Fund(c) \/ ChargeBack(c) PROVE LimitInv'
  <2>1. OnlyAccount(Debtor[c.inv]) /\ RespondNotify(c)
    BY <1>9, CounterMoves DEF Fund, ChargeBack, At
  <2> QED BY <2>1, LimitNotifies
<1>10. ASSUME NEW c \in calls, Settle(c) PROVE LimitInv'
  <2>1. OnlyAccount(Debtor[c.inv]) /\ calls' = calls \ {c}
    BY <1>10, CounterMoves DEF Settle, At, Respond
  <2> QED BY <2>1, LimitCallStep
<1> QED BY <1>1, <1>2, <1>3, <1>4, <1>5, <1>6, <1>7, <1>8, <1>9, <1>10
        DEF ServicingNext

LEMMA LimitInvStep == Serialised = "account" /\ LimitInv /\ [Next]_vars => LimitInv'
<1> SUFFICES ASSUME Serialised = "account", LimitInv, [Next]_vars PROVE LimitInv'
  OBVIOUS
<1>1. TypeInv'
  BY TypeStep DEF LimitInv
<1>2. CASE StoreStep
  <2>1. ASSUME NEW m \in MC, NEW t \in LimitValues, SetLimit(m, t) PROVE LimitInv'
    <3>1. \A c \in calls : Debtor[c.inv] # m
      BY <2>1 DEF SetLimit
    <3>2. OnlyAccount(m) /\ UNCHANGED calls
      BY <2>1 DEF SetLimit, OnlyAccount, LimitInv, TypeInv, TypeOK
    <3>3. \A c \in calls : LimitFacts(c)'
      BY <3>1, <3>2, OtherAccountsKept
    <3> QED BY <1>1, <3>2, <3>3 DEF LimitInv, AccountAlone
  <2>2. ASSUME NEW a \in MC \cup Broker, OnboardingMove(a) PROVE LimitInv'
    BY <1>1, <2>2, LimitIdle DEF OnboardingMove
  <2>3. ASSUME NEW c \in calls, Notify(c) \/ Abandon(c) PROVE LimitInv'
    BY <1>1, <2>3, LimitIdle DEF Notify, Abandon, Respond, tables
  <2> QED BY <1>1, <1>2, <2>1, <2>2, <2>3, IntakeLimit, ServicingLimit
          DEF StoreStep
<1>3. CASE PaymentStep
  BY <1>1, <1>3, LimitIdle DEF PaymentStep
<1>4. CASE UNCHANGED vars
  BY <1>1, <1>4, LimitIdle DEF vars, storeVars, tables
<1> QED BY <1>2, <1>3, <1>4 DEF Next

LEMMA LimitInit == Init => LimitInv
<1>1. Init => calls = {}
  BY DEF Init, StoreInit
<1> QED BY <1>1, TypeInit DEF LimitInv, AccountAlone

-----------------------------------------------------------------------------
(* Which steps move exposure.                                              *)

(* A status change by a call that moves no exposure.                       *)
MovesStatus(c) ==
  /\ \E r : WriteStatusChange(c, r)
  /\ c.op = "create" => ~ Exists(c.inv)
  /\ c.op \notin {"fund", "settle", "chargeback", "releaseHold"}
  /\ c.pc # "notify"

(* A step that leaves the counters, the log and the chargebacks alone.     *)
Steady ==
  /\ UNCHANGED <<creditLog, limit>>
  /\ ledger \subseteq ledger'
  /\ \A e \in ledger' : e.type = "CHARGEBACK" => e \in ledger
  /\ \A b \in chargebacks' : \E a \in chargebacks :
       a.inv = b.inv /\ a.amount = b.amount /\ a.entry = b.entry
  /\ \/ \A i \in Invoice : invoice'[i].status = invoice[i].status
     \/ \E c \in calls : MovesStatus(c)

LEMMA MoneySteps ==
  ASSUME SideInv, Next
  PROVE  \/ \E c \in calls : Fund(c) \/ Settle(c) \/ ChargeBack(c)
         \/ \E m \in MC, t \in LimitValues : SetLimit(m, t)
         \/ Steady
<1>t. /\ invoice \in [Invoice -> InvoiceRow] /\ chargebacks \subseteq Chargeback
      /\ \A c \in calls : c \in Call
  BY DEF SideInv, TypeInv, TypeOK
<1>0. ASSUME UNCHANGED <<creditLog, limit, ledger, chargebacks>>,
             \/ \A i \in Invoice : invoice'[i].status = invoice[i].status
             \/ \E c \in calls : MovesStatus(c)
      PROVE  Steady
  BY <1>0 DEF Steady
<1>1. CASE IntakeNext
  <2>1. UNCHANGED <<creditLog, limit, ledger, chargebacks>>
    BY <1>1 DEF IntakeNext, CreateBegin, AttachDocument, RunExtraction,
         SubmitForApproval, McApprove, McDisputeBegin, RespondToInfoRequest,
         Cancel, Underwrite, ResolveDisputeBegin, Create, ExtractionStarted,
         ExtractionDone, UnderwriteCheck, ChangeStatus, McDispute,
         ResolveDisputeFind, ResolveDispute, BeginPlain, Begin, tables
  <2>2. ASSUME NEW c \in calls,
               \/ Create(c) \/ ExtractionStarted(c) \/ ExtractionDone(c)
               \/ ChangeStatus(c) \/ McDispute(c) \/ ResolveDispute(c)
        PROVE  MovesStatus(c)
    BY <2>2 DEF MovesStatus, Create, ExtractionStarted, ExtractionDone,
       ChangeStatus, ReadyToChangeStatus, McDispute, ResolveDispute, At
  <2>3. (\E c \in calls : MovesStatus(c)) \/ UNCHANGED invoice
    BY <1>1, <2>2
       DEF IntakeNext, CreateBegin, AttachDocument, RunExtraction,
           SubmitForApproval, McApprove, Underwrite, UnderwriteCheck,
           RespondToInfoRequest, Cancel, McDisputeBegin, ResolveDisputeBegin,
           ResolveDisputeFind, BeginPlain, Begin, tables
  <2> QED BY <1>0, <2>1, <2>3
<1>2. CASE ServicingNext
  <2>1. ASSUME NEW c \in calls, PlaceReserveHold(c) \/ ReleaseReserveHold(c)
        PROVE  Steady
    <3>1. \A i \in Invoice : invoice'[i].status = invoice[i].status
      BY <1>t, <2>1 DEF PlaceReserveHold, ReleaseReserveHold, InvoiceRow
    <3> QED BY <1>0, <2>1, <3>1 DEF PlaceReserveHold, ReleaseReserveHold
  <2>2. ASSUME NEW c \in calls, WriteOff(c) PROVE Steady
    <3>1. MovesStatus(c) /\ UNCHANGED <<creditLog, limit>>
      BY <2>2 DEF WriteOff, MovesStatus, At
    <3>2. /\ ledger \subseteq ledger'
          /\ \A e \in ledger' : e.type = "CHARGEBACK" => e \in ledger
      BY <2>2 DEF WriteOff, Record, EntryOf
    <3>3. \A b \in chargebacks' : \E a \in chargebacks :
            a.inv = b.inv /\ a.amount = b.amount /\ a.entry = b.entry
      BY <1>t, <2>2 DEF WriteOff, Chargeback
    <3> QED BY <3>1, <3>2, <3>3 DEF Steady
  <2>3. ASSUME NEW i \in Invoice,
               \/ FundBegin(i) \/ SettleBegin(i) \/ PlaceHoldBegin(i)
               \/ ReleaseHoldBegin(i) \/ WriteOffBegin(i)
               \/ \E a \in ChargebackAmounts : ChargebackBegin(i, a)
        PROVE  UNCHANGED tables
    BY <2>3 DEF FundBegin, SettleBegin, PlaceHoldBegin, ReleaseHoldBegin,
       WriteOffBegin, ChargebackBegin, BeginPlain, BeginMoney, Begin
  <2>4. ASSUME NEW c \in calls,
               \/ OpenTx(c) \/ FundCheck(c) \/ SettleCheck(c)
               \/ ReleaseHoldFind(c) \/ WriteOffFind(c)
        PROVE  UNCHANGED tables
    BY <2>4 DEF OpenTx, FundCheck, SettleCheck, ReleaseHoldFind, WriteOffFind
  <2>5. UNCHANGED tables => Steady
    BY <1>0 DEF tables
  <2> QED BY <1>2, <2>1, <2>2, <2>3, <2>4, <2>5 DEF ServicingNext
<1>3. CASE PaymentStep
  BY <1>0, <1>3 DEF PaymentStep
<1> QED BY <1>0, <1>1, <1>2, <1>3
        DEF Next, StoreStep, OnboardingMove, Notify, Abandon, tables

(* While calls on one account do not overlap, no step that adds exposure   *)
(* leaves an account above its total, whatever keys clients send.          *)
THEOREM FundingStaysWithin ==
  ASSUME Serialised = "account", Amount \in [Invoice -> Nat]
  PROVE  Spec => FundingWithinLimit
<1> DEFINE Within(m) ==
      limit[m] # NoLimit /\ limit'[m].used > limit[m].used
        => limit'[m].used <= limit'[m].total
<1>1. ASSUME LimitInv, SideInv, [Next]_vars, NEW m \in MC PROVE Within(m)
  <2>t. limit \in [MC -> LimitRow \cup {NoLimit}] /\ \A c \in calls : c \in Call
    BY <1>1 DEF LimitInv, TypeInv, TypeOK
  <2>0. limit[m] # NoLimit => limit[m] \in LimitRow /\ limit[m].used \in Int
                              /\ limit[m].total \in Int
    BY <2>t DEF LimitRow
  <2>1. ASSUME UNCHANGED limit PROVE Within(m)
    BY <2>0, <2>1
  <2>2. ASSUME NEW c \in calls, Fund(c) \/ Settle(c) \/ ChargeBack(c)
        PROVE  Within(m)
    <3> DEFINE a == Amount[c.inv]
    <3>1. a \in Nat /\ c.pc = "tx"
      BY <2>t, <2>2 DEF Fund, Settle, ChargeBack, At, Call
    <3>2. PICK delta \in {a, - a} :
            /\ delta = a => WithinCreditLimit(c.inv) \/ a = 0
            /\ \E part, reason : ApplyDelta(c, part, reason, delta)
      <4>0. - a = a => a = 0
        BY <3>1
      <4>1. CASE Fund(c)
        <5>1. /\ WithinCreditLimit(c.inv)
              /\ ApplyDelta(c, "credit-limit", "INVOICE_FUNDED", a)
          BY <4>1, <1>1 DEF Fund, At, LimitInv, LimitFacts
        <5> QED BY <5>1
      <4>2. CASE Settle(c)
        <5>1. ApplyDelta(c, "credit-limit-restore", "INVOICE_SETTLED", - a)
          BY <4>2 DEF Settle
        <5> QED BY <4>0, <5>1
      <4>3. CASE ChargeBack(c)
        <5>1. ApplyDelta(c, "credit-limit-restore", "CHARGEBACK", - a)
          BY <4>3 DEF ChargeBack
        <5> QED BY <4>0, <5>1
      <4> QED BY <2>2, <4>1, <4>2, <4>3
    <3>3. /\ OnlyAccount(Debtor[c.inv])
          /\ UNCHANGED limit \/
               /\ limit[Debtor[c.inv]] \in LimitRow
               /\ limit'[Debtor[c.inv]] =
                    [total |-> limit[Debtor[c.inv]].total,
                     used  |-> limit[Debtor[c.inv]].used + delta]
      BY <1>1, <3>1, <3>2, CounterMoves
    <3>4. CASE m # Debtor[c.inv]
      BY <2>0, <3>3, <3>4 DEF OnlyAccount
    <3>5. CASE m = Debtor[c.inv]
      BY <2>0, <2>1, <3>1, <3>2, <3>3, <3>5 DEF WithinCreditLimit
    <3> QED BY <3>4, <3>5
  <2>3. ASSUME NEW n \in MC, NEW t \in LimitValues, SetLimit(n, t) PROVE Within(m)
    <3>1. limit[m] # NoLimit => limit'[m].used = limit[m].used
      BY <2>t, <2>3 DEF SetLimit, LimitRow
    <3> QED BY <2>0, <3>1
  <2>4. CASE UNCHANGED vars
    BY <2>1, <2>4 DEF vars, storeVars, tables
  <2> QED BY <1>1, <2>1, <2>2, <2>3, <2>4, MoneySteps DEF Steady
<1>2. LimitInv /\ SideInv /\ [Next]_vars =>
        [\A m \in MC :
           LET grows == /\ limit[m] # NoLimit
                        /\ limit'[m].used > limit[m].used
           IN  grows => limit'[m].used <= limit'[m].total]_vars
  <2> SUFFICES ASSUME LimitInv, SideInv, [Next]_vars
               PROVE  \A m \in MC : Within(m)
    OBVIOUS
  <2> QED BY <1>1
<1>3. LimitInv /\ [Next]_vars => LimitInv'
  BY LimitInvStep
<1> QED BY LimitInit, SideInit, SideStep, <1>2, <1>3, PTL DEF Spec, FundingWithinLimit

-----------------------------------------------------------------------------
(* The books, while clients send no keys of their own besides: exposure is *)
(* taken on once and given back once.                                      *)

ClosedStatuses == {"SETTLED", "CHARGED_BACK", "WRITTEN_OFF"}

(* What is in the log and the ledger shows in the invoice's status.        *)
BookFacts ==
  /\ \A l \in creditLog :
       /\ l.part = "credit-limit" => invoice[l.inv].status \in MoneyStatuses
       /\ l.part = "credit-limit-restore" =>
            /\ invoice[l.inv].status \in ClosedStatuses
            /\ \E op \in {"settle", "chargeback"} : l.key = DefaultKey(op, l.inv)
  /\ \A e \in ledger : e.type = "CHARGEBACK" =>
       invoice[e.inv].status \in {"CHARGED_BACK", "WRITTEN_OFF"}

BookInv == OrderInv /\ MoneyInv /\ BookFacts /\ ChargebackMatchesLedger

(* No step takes an invoice back out of these statuses.                    *)
LEMMA StatusesAdvance ==
  ASSUME OrderInv, [Next]_vars, NEW i \in Invoice
  PROVE  /\ invoice[i].status \in MoneyStatuses => invoice'[i].status \in MoneyStatuses
         /\ invoice[i].status \in ClosedStatuses => invoice'[i].status \in ClosedStatuses
         /\ invoice[i].status \in {"CHARGED_BACK", "WRITTEN_OFF"} =>
              invoice'[i].status \in {"CHARGED_BACK", "WRITTEN_OFF"}
<1>1. invoice[i].status \in MoneyStatuses \cup ClosedStatuses
        => \/ invoice'[i].status = invoice[i].status
           \/ IsLegalTransition(invoice[i].status, invoice'[i].status)
  BY LegalStep DEF MoneyStatuses, ClosedStatuses, Exists
<1> QED BY <1>1 DEF IsLegalTransition, Transitions, MoneyStatuses, ClosedStatuses

(* A transaction finds its keys free: they are taken only once the invoice *)
(* has left the status its call has seen.                                  *)
LEMMA NothingFound ==
  ASSUME BookInv, NEW c \in calls, c.pc = "tx"
  PROVE  /\ c.op = "fund" => "credit-limit" \notin c.found
         /\ c.op \in {"settle", "chargeback"} => "credit-limit-restore" \notin c.found
         /\ c.op = "chargeback" => "CHARGEBACK" \notin c.found
<1>1. /\ c \in Call /\ CallFacts(c) /\ OrderFacts(c)
      /\ c.key = DefaultKey(c.op, c.inv)
  BY DEF BookInv, MoneyInv, OrderInv, TypeInv, TypeOK, CallFacts
<1>2. /\ c.op \in {"fund", "settle", "chargeback"} => invoice[c.inv].status = c.from
      /\ c.op = "fund" => c.from = "APPROVED_FOR_FUNDING"
      /\ c.op \in {"settle", "chargeback"} => c.from = "FUNDED"
  BY <1>1 DEF OrderFacts, FromTo
<1>3. ASSUME c.op = "fund" PROVE "credit-limit" \notin c.found
  <2> SUFFICES ASSUME "credit-limit" \in c.found PROVE FALSE
    OBVIOUS
  <2>1. PICK l \in creditLog : l.key = c.key /\ l.part = "credit-limit"
    BY <1>1 DEF CallFacts, Logged, LogPart
  <2>2. l.key = DefaultKey("fund", l.inv)
    BY <2>1 DEF BookInv, MoneyInv, TableFacts, LogFacts
  <2>3. l.inv = c.inv
    BY <1>1, <2>1, <2>2 DEF DefaultKey
  <2> QED BY <1>2, <1>3, <2>1, <2>3 DEF BookInv, BookFacts, MoneyStatuses
<1>4. ASSUME c.op \in {"settle", "chargeback"}
      PROVE  "credit-limit-restore" \notin c.found
  <2> SUFFICES ASSUME "credit-limit-restore" \in c.found PROVE FALSE
    OBVIOUS
  <2>1. PICK l \in creditLog : l.key = c.key /\ l.part = "credit-limit-restore"
    BY <1>1 DEF CallFacts, Logged, LogPart
  <2>2. PICK op \in {"settle", "chargeback"} : l.key = DefaultKey(op, l.inv)
    BY <2>1 DEF BookInv, BookFacts
  <2>3. l.inv = c.inv
    BY <1>1, <2>1, <2>2 DEF DefaultKey
  <2> QED BY <1>2, <1>4, <2>1, <2>3 DEF BookInv, BookFacts, ClosedStatuses
<1>5. ASSUME c.op = "chargeback" PROVE "CHARGEBACK" \notin c.found
  <2> SUFFICES ASSUME "CHARGEBACK" \in c.found PROVE FALSE
    OBVIOUS
  <2>1. PICK e \in ledger : e.key = c.key /\ e.type = "CHARGEBACK"
    BY <1>1 DEF CallFacts, Recorded, EntryType
  <2>2. e.key = DefaultKey("chargeback", e.inv)
    BY <2>1 DEF BookInv, MoneyInv, TableFacts, LedgerKeys, WriterOf
  <2>3. e.inv = c.inv
    BY <1>1, <2>1, <2>2 DEF DefaultKey
  <2> QED BY <1>2, <1>5, <2>1, <2>3 DEF BookInv, BookFacts
<1> QED BY <1>3, <1>4, <1>5

(* What such a transaction does to its invoice.                            *)
LEMMA CommitMoves ==
  ASSUME BookInv, NEW c \in calls, Fund(c) \/ Settle(c) \/ ChargeBack(c)
  PROVE  /\ c.inv \in Invoice /\ c.pc = "tx"
         /\ \A j \in Invoice \ {c.inv} : invoice'[j] = invoice[j]
         /\ Fund(c) => /\ invoice[c.inv].status = "APPROVED_FOR_FUNDING"
                       /\ invoice'[c.inv].status = "FUNDED"
         /\ Settle(c) => /\ invoice[c.inv].status = "FUNDED"
                         /\ invoice'[c.inv].status = "SETTLED"
         /\ ChargeBack(c) => /\ invoice[c.inv].status = "FUNDED"
                             /\ invoice'[c.inv].status = "CHARGED_BACK"
<1>1. /\ c.inv \in Invoice /\ OrderFacts(c) /\ invoice \in [Invoice -> InvoiceRow]
  BY DEF BookInv, OrderInv, SideInv, TypeInv, TypeOK, Call
<1>2. PICK r : WriteStatusChange(c, r)
  BY DEF Fund, Settle, ChargeBack
<1>3. /\ invoice'[c.inv].status = c.to
      /\ \A j \in Invoice \ {c.inv} : invoice'[j] = invoice[j]
  BY <1>1, <1>2 DEF WriteStatusChange, InvoiceRow
<1>4. /\ c.pc = "tx"
      /\ Fund(c) => c.op = "fund"
      /\ Settle(c) => c.op = "settle"
      /\ ChargeBack(c) => c.op = "chargeback"
      /\ c.op \in {"fund", "settle", "chargeback"}
  BY DEF Fund, Settle, ChargeBack, At
<1>5. invoice[c.inv].status = c.from
  BY <1>1, <1>4 DEF OrderFacts
<1> QED BY <1>1, <1>3, <1>4, <1>5 DEF OrderFacts, FromTo

(* A row that is new in the log names the commit that wrote it.            *)
LEMMA CommitLogs ==
  ASSUME BookInv, NEW c \in calls, Fund(c) \/ Settle(c) \/ ChargeBack(c),
         NEW l \in creditLog', l \notin creditLog
  PROVE  /\ l.inv = c.inv
         /\ l.part = IF c.op = "fund" THEN "credit-limit" ELSE "credit-limit-restore"
         /\ c.op \in {"settle", "chargeback"} => l.key = DefaultKey(c.op, c.inv)
         /\ c.op = "fund" => Fund(c)
<1>1. c.key = DefaultKey(c.op, c.inv)
  BY DEF BookInv, MoneyInv, CallFacts
<1> QED BY <1>1 DEF Fund, Settle, ChargeBack, ApplyDelta, At

LEMMA CommitKeepsBooks ==
  ASSUME BookInv, OrderInv', MoneyInv', [Next]_vars,
         NEW c \in calls, Fund(c) \/ Settle(c) \/ ChargeBack(c)
  PROVE  BookInv'
<1>t. creditLog \subseteq LogRow /\ ledger \subseteq Entry /\ BookFacts
  BY DEF BookInv, OrderInv, SideInv, TypeInv, TypeOK
<1>1. ASSUME NEW l \in creditLog'
      PROVE  /\ l.part = "credit-limit" => invoice'[l.inv].status \in MoneyStatuses
             /\ l.part = "credit-limit-restore" =>
                  /\ invoice'[l.inv].status \in ClosedStatuses
                  /\ \E op \in {"settle", "chargeback"} : l.key = DefaultKey(op, l.inv)
  <2>1. CASE l \in creditLog
    BY <1>t, <2>1, StatusesAdvance DEF BookInv, BookFacts, LogRow
  <2>2. CASE l \notin creditLog
    BY <2>2, CommitLogs, CommitMoves
       DEF Fund, Settle, ChargeBack, At, MoneyStatuses, ClosedStatuses
  <2> QED BY <2>1, <2>2
<1>2. CASE ChargeBack(c)
  <2> DEFINE entry == EntryOf(c, "CHARGEBACK", c.amount)
  <2>1. "CHARGEBACK" \notin c.found /\ invoice'[c.inv].status = "CHARGED_BACK"
    BY <1>2, NothingFound, CommitMoves DEF ChargeBack, At
  <2>2. ledger' = ledger \cup {entry}
    BY <1>2, <2>1 DEF ChargeBack, Record, EntryOf
  <2>3. /\ entry.inv = c.inv /\ entry.key = c.key /\ entry.type = "CHARGEBACK"
        /\ entry.amount = c.amount
    BY DEF EntryOf
  <2> HIDE DEF entry
  <2>4. \A e \in ledger' : e.type = "CHARGEBACK" =>
          invoice'[e.inv].status \in {"CHARGED_BACK", "WRITTEN_OFF"}
    BY <1>t, <2>1, <2>2, <2>3, StatusesAdvance DEF BookInv, BookFacts, Entry
  <2>5. BookFacts'
    BY <1>1, <2>4 DEF BookFacts, DefaultKey
  <2>6. ChargebackMatchesLedger'
    <3>1. PICK b : chargebacks' = chargebacks \cup
            {[id |-> b, inv |-> c.inv, amount |-> c.amount, entry |-> c.key,
              status |-> "COMPLETED"]}
      BY <1>2 DEF ChargeBack
    <3> DEFINE row == [id |-> b, inv |-> c.inv, amount |-> c.amount,
                       entry |-> c.key, status |-> "COMPLETED"]
    <3>2. row.inv = c.inv /\ row.amount = c.amount /\ row.entry = c.key
      OBVIOUS
    <3>3. chargebacks' = chargebacks \cup {row}
      BY <3>1
    <3> HIDE DEF row
    <3> QED BY <2>2, <2>3, <3>2, <3>3 DEF BookInv, ChargebackMatchesLedger
  <2> QED BY <2>5, <2>6 DEF BookInv
<1>3. CASE Fund(c) \/ Settle(c)
  <2>1. /\ ledger \subseteq ledger' /\ UNCHANGED chargebacks
        /\ \A e \in ledger' : e.type = "CHARGEBACK" => e \in ledger
    BY <1>3 DEF Fund, Settle, Record, EntryOf
  <2>2. \A e \in ledger' : e.type = "CHARGEBACK" =>
          invoice'[e.inv].status \in {"CHARGED_BACK", "WRITTEN_OFF"}
    BY <1>t, <2>1, StatusesAdvance DEF BookInv, BookFacts, Entry
  <2>3. BookFacts'
    BY <1>1, <2>2 DEF BookFacts, DefaultKey
  <2>4. ChargebackMatchesLedger'
    BY <2>1 DEF BookInv, ChargebackMatchesLedger
  <2> QED BY <2>3, <2>4 DEF BookInv
<1> QED BY <1>2, <1>3

LEMMA BookInvStep == Orderly /\ BookInv /\ [Next]_vars => BookInv'
<1> SUFFICES ASSUME Orderly, BookInv, [Next]_vars PROVE BookInv'
  OBVIOUS
<1>1. OrderInv' /\ MoneyInv'
  BY OrderInvStep, MoneyStep DEF BookInv
<1>2. ASSUME NEW c \in calls, Fund(c) \/ Settle(c) \/ ChargeBack(c) PROVE BookInv'
  BY <1>1, <1>2, CommitKeepsBooks
<1>3. ASSUME UNCHANGED creditLog, ledger \subseteq ledger',
             \A e \in ledger' : e.type = "CHARGEBACK" => e \in ledger,
             \A b \in chargebacks' : \E a \in chargebacks :
               a.inv = b.inv /\ a.amount = b.amount /\ a.entry = b.entry
      PROVE  BookInv'
  <2>1. creditLog \subseteq LogRow /\ ledger \subseteq Entry
    BY DEF BookInv, OrderInv, SideInv, TypeInv, TypeOK
  <2>2. BookFacts'
    <3>1. ASSUME NEW l \in creditLog'
          PROVE  /\ l.part = "credit-limit" => invoice'[l.inv].status \in MoneyStatuses
                 /\ l.part = "credit-limit-restore" =>
                      /\ invoice'[l.inv].status \in ClosedStatuses
                      /\ \E op \in {"settle", "chargeback"} :
                           l.key = DefaultKey(op, l.inv)
      BY <1>3, <2>1, StatusesAdvance DEF BookInv, BookFacts, LogRow
    <3>2. ASSUME NEW e \in ledger', e.type = "CHARGEBACK"
          PROVE  invoice'[e.inv].status \in {"CHARGED_BACK", "WRITTEN_OFF"}
      BY <1>3, <2>1, <3>2, StatusesAdvance DEF BookInv, BookFacts, Entry
    <3> QED BY <3>1, <3>2 DEF BookFacts, DefaultKey
  <2>3. ChargebackMatchesLedger'
    BY <1>3 DEF BookInv, ChargebackMatchesLedger
  <2> QED BY <1>1, <2>2, <2>3 DEF BookInv
<1>4. CASE UNCHANGED vars
  BY <1>3, <1>4 DEF vars, storeVars, tables
<1>5. CASE \E m \in MC, t \in LimitValues : SetLimit(m, t)
  BY <1>3, <1>5 DEF SetLimit
<1>6. CASE Steady
  BY <1>3, <1>6 DEF Steady
<1> QED BY <1>2, <1>4, <1>5, <1>6, MoneySteps DEF BookInv, OrderInv

LEMMA BookInit == ClientKeys = {} /\ Init => BookInv
<1>1. Init => creditLog = {} /\ ledger = {} /\ chargebacks = {}
  BY DEF Init, StoreInit
<1> QED BY <1>1, OrderInit, MoneyInit DEF BookInv, BookFacts, ChargebackMatchesLedger

(* While calls on one invoice do not overlap and clients send no keys of   *)
(* their own, a chargeback row points to a ledger entry of its own amount: *)
(* record() never hands chargeback an older entry.                         *)
THEOREM ChargebacksOnLedger ==
  ASSUME Orderly, ClientKeys = {}
  PROVE  Spec => []ChargebackMatchesLedger
<1>1. BookInv => ChargebackMatchesLedger
  BY DEF BookInv
<1>2. BookInv /\ [Next]_vars => BookInv'
  BY BookInvStep
<1>3. Init => BookInv
  BY BookInit
<1> QED BY <1>1, <1>2, <1>3, PTL DEF Spec

-----------------------------------------------------------------------------
(* Exposure, invoice by invoice: what the log says adds up to.             *)

(* One row takes the invoice's amount, one gives it back, and the second   *)
(* is there once the invoice has left FUNDED for good.                     *)
ExposureFacts ==
  /\ \A k, l \in creditLog : k.inv = l.inv /\ k.part = l.part => k = l
  /\ \A l \in creditLog :
       l.delta = IF l.part = "credit-limit" THEN Amount[l.inv] ELSE - Amount[l.inv]
  /\ \A i \in Invoice :
       invoice[i].status \in ClosedStatuses => HasLog(i, "credit-limit-restore")

ExposureInv == BookInv /\ ExposureFacts

(* The row a commit adds is the first of its part for the invoice.         *)
LEMMA CommitAddsOne ==
  ASSUME BookInv, NEW c \in calls, Fund(c) \/ Settle(c) \/ ChargeBack(c)
  PROVE  \E row : /\ creditLog' = creditLog \cup {row}
                  /\ row.inv = c.inv
                  /\ row.part = IF Fund(c) THEN "credit-limit"
                                ELSE "credit-limit-restore"
                  /\ row.delta = IF Fund(c) THEN Amount[c.inv]
                                 ELSE - Amount[c.inv]
                  /\ \A l \in creditLog : ~ (l.inv = c.inv /\ l.part = row.part)
<1>1. ASSUME NEW part, NEW reason, NEW delta, ApplyDelta(c, part, reason, delta),
             part \notin c.found,
             \A l \in creditLog : ~ (l.inv = c.inv /\ l.part = part)
      PROVE  \E row : /\ creditLog' = creditLog \cup {row}
                      /\ row.inv = c.inv /\ row.part = part /\ row.delta = delta
                      /\ \A l \in creditLog : ~ (l.inv = c.inv /\ l.part = row.part)
  <2> DEFINE row == [key |-> c.key, part |-> part, inv |-> c.inv,
                     reason |-> reason, delta |-> delta]
  <2>1. creditLog' = creditLog \cup {row}
    BY <1>1 DEF ApplyDelta
  <2>2. row.inv = c.inv /\ row.part = part /\ row.delta = delta
    OBVIOUS
  <2> HIDE DEF row
  <2> QED BY <1>1, <2>1, <2>2
<1>2. CASE Fund(c)
  <2>1. /\ ApplyDelta(c, "credit-limit", "INVOICE_FUNDED", Amount[c.inv])
        /\ "credit-limit" \notin c.found
        /\ invoice[c.inv].status = "APPROVED_FOR_FUNDING"
    BY <1>2, NothingFound, CommitMoves DEF Fund, At
  <2>2. \A l \in creditLog : ~ (l.inv = c.inv /\ l.part = "credit-limit")
    BY <2>1 DEF BookInv, BookFacts, MoneyStatuses
  <2> QED BY <1>1, <1>2, <2>1, <2>2
<1>3. CASE ~ Fund(c)
  <2>1. "credit-limit-restore" \notin c.found /\ invoice[c.inv].status = "FUNDED"
    BY <1>3, NothingFound, CommitMoves DEF Settle, ChargeBack, At
  <2>2. \A l \in creditLog : ~ (l.inv = c.inv /\ l.part = "credit-limit-restore")
    BY <2>1 DEF BookInv, BookFacts, ClosedStatuses
  <2>3. PICK reason :
          ApplyDelta(c, "credit-limit-restore", reason, - Amount[c.inv])
    BY <1>3 DEF Settle, ChargeBack
  <2> QED BY <1>1, <1>3, <2>1, <2>2, <2>3
<1> QED BY <1>2, <1>3

LEMMA CommitKeepsExposure ==
  ASSUME ExposureInv, BookInv', [Next]_vars,
         NEW c \in calls, Fund(c) \/ Settle(c) \/ ChargeBack(c)
  PROVE  ExposureInv'
<1>1. PICK row : /\ creditLog' = creditLog \cup {row}
                 /\ row.inv = c.inv
                 /\ row.part = IF Fund(c) THEN "credit-limit"
                               ELSE "credit-limit-restore"
                 /\ row.delta = IF Fund(c) THEN Amount[c.inv]
                                ELSE - Amount[c.inv]
                 /\ \A l \in creditLog : ~ (l.inv = c.inv /\ l.part = row.part)
  BY CommitAddsOne DEF ExposureInv
<1>2. \A k, l \in creditLog' : k.inv = l.inv /\ k.part = l.part => k = l
  BY <1>1 DEF ExposureInv, ExposureFacts
<1>3. \A l \in creditLog' :
        l.delta = IF l.part = "credit-limit" THEN Amount[l.inv] ELSE - Amount[l.inv]
  BY <1>1 DEF ExposureInv, ExposureFacts
<1>4. ASSUME NEW i \in Invoice, invoice'[i].status \in ClosedStatuses
      PROVE  HasLog(i, "credit-limit-restore")'
  <2>1. CASE i = c.inv
    <3>1. ~ Fund(c)
      BY <1>4, <2>1, CommitMoves DEF ExposureInv, ClosedStatuses
    <3> QED BY <1>1, <2>1, <3>1 DEF HasLog
  <2>2. CASE i # c.inv
    <3>1. invoice'[i] = invoice[i]
      BY <2>2, CommitMoves DEF ExposureInv
    <3> QED BY <1>1, <1>4, <3>1 DEF ExposureInv, ExposureFacts, HasLog
  <2> QED BY <2>1, <2>2
<1> QED BY <1>2, <1>3, <1>4 DEF ExposureInv, ExposureFacts

(* No other step closes an invoice.                                        *)
LEMMA OnlyCommitsClose ==
  ASSUME BookInv, [Next]_vars, Steady, NEW i \in Invoice,
         invoice'[i].status \in ClosedStatuses
  PROVE  invoice[i].status \in ClosedStatuses
<1> SUFFICES ASSUME invoice[i].status \notin ClosedStatuses,
                    invoice'[i].status # invoice[i].status
             PROVE  FALSE
  OBVIOUS
<1>t. invoice \in [Invoice -> InvoiceRow] /\ \A c \in calls : c \in Call
  BY DEF BookInv, OrderInv, SideInv, TypeInv, TypeOK
<1>1. PICK c \in calls : MovesStatus(c)
  BY DEF Steady
<1>2. PICK r : WriteStatusChange(c, r)
  BY <1>1 DEF MovesStatus
<1>3. c.inv = i /\ invoice'[i].status = c.to /\ IsLegalTransition(c.from, c.to)
  BY <1>t, <1>2 DEF WriteStatusChange, InvoiceRow
<1>4. OrderFacts(c) /\ CallFacts(c)
  BY DEF BookInv, OrderInv, MoneyInv
<1>5. c.to = "WRITTEN_OFF" => c.op = "writeOff"
  BY <1>1, <1>4 DEF OrderFacts, FromTo, MoneyStatuses, MovesStatus
<1>6. c.op = "writeOff" => invoice[i].status = "CHARGED_BACK"
  BY <1>1, <1>3, <1>4 DEF OrderFacts, FromTo, MovesStatus
<1>7. c.to \notin {"SETTLED", "CHARGED_BACK"}
  BY <1>1, <1>4 DEF CallFacts, MovesStatus
<1> QED BY <1>3, <1>5, <1>6, <1>7 DEF ClosedStatuses

LEMMA ExposureInvStep == Orderly /\ ExposureInv /\ [Next]_vars => ExposureInv'
<1> SUFFICES ASSUME Orderly, ExposureInv, [Next]_vars PROVE ExposureInv'
  OBVIOUS
<1>1. BookInv /\ BookInv'
  BY BookInvStep DEF ExposureInv
<1>2. ASSUME NEW c \in calls, Fund(c) \/ Settle(c) \/ ChargeBack(c)
      PROVE  ExposureInv'
  BY <1>1, <1>2, CommitKeepsExposure
<1>3. ASSUME UNCHANGED creditLog,
             \A i \in Invoice : invoice'[i].status \in ClosedStatuses
                                  => invoice[i].status \in ClosedStatuses
      PROVE  ExposureInv'
  BY <1>1, <1>3 DEF ExposureInv, ExposureFacts, HasLog
<1>4. CASE UNCHANGED vars
  BY <1>3, <1>4 DEF vars, storeVars, tables
<1>5. CASE \E m \in MC, t \in LimitValues : SetLimit(m, t)
  BY <1>3, <1>5 DEF SetLimit
<1>6. CASE Steady
  BY <1>1, <1>3, <1>6, OnlyCommitsClose DEF Steady
<1> QED BY <1>1, <1>2, <1>4, <1>5, <1>6, MoneySteps DEF BookInv, OrderInv

LEMMA ExposureInit == ClientKeys = {} /\ Init => ExposureInv
<1>1. Init => /\ creditLog = {}
              /\ \A i \in Invoice : invoice[i].status \notin ClosedStatuses
  BY DEF Init, StoreInit, ClosedStatuses
<1> QED BY <1>1, BookInit DEF ExposureInv, ExposureFacts

(* The fold of the log is a sum of the deltas.                             *)
DeltaRecursion(h, S) ==
  h = [s \in SUBSET S |->
         IF s = {} THEN 0 ELSE First(s).delta + h[s \ {First(s)}]]

LEMMA DeltaIsSum ==
  ASSUME NEW S, IsFiniteSet(S)
  PROVE  Deltas(S) = Sum([l \in S |-> l.delta], S)
<1> DEFINE g == [l \in S |-> l.delta]
<1>1. Deltas(S) = (CHOOSE h : DeltaRecursion(h, S))[S]
  BY Zenon DEF Deltas, MapThenSumSet, MapThenFoldSet, DeltaRecursion, First
<1>2. ASSUME NEW h PROVE DeltaRecursion(h, S) <=> Recursion(h, g, S)
  <2>1. \A s \in SUBSET S : s # {} => g[First(s)] = First(s).delta
    BY FirstIsIn
  <2> HIDE DEF g
  <2>2. QED
    BY <2>1 DEF DeltaRecursion, Recursion
<1> DEFINE h == CHOOSE h : DeltaRecursion(h, S)
<1>3. DeltaRecursion(h, S)
  BY <1>2, RecursionExists
<1> HIDE DEF g, h
<1>4. h[S] = Sum(g, S)
  BY <1>2, <1>3, SumOfRecursion
<1>5. QED
  BY <1>1, <1>4, Zenon DEF g, h

LEMMA ExposureAddsUp ==
  ASSUME ExposureInv, NEW i \in Invoice
  PROVE  LoggedExposure(i) =
           IF invoice[i].status \in CreditExposedStatuses THEN Amount[i] ELSE 0
<1> DEFINE S == {l \in creditLog : l.inv = i}
           g == [l \in S |-> l.delta]
           takes(l) == l.part = "credit-limit"
<1>t. /\ creditLog \subseteq LogRow /\ Amount[i] \in Int
      /\ \A l \in S : takes(l) \/ l.part = "credit-limit-restore"
  BY StoreAssumption
     DEF ExposureInv, BookInv, OrderInv, SideInv, TypeInv, TypeOK, LogRow,
         LogPart, StoreAssumption
<1>1. /\ \A k, l \in S : k.part = l.part => k = l
      /\ \A l \in S : g[l] = IF takes(l) THEN Amount[i] ELSE - Amount[i]
  BY DEF ExposureInv, ExposureFacts
<1>2. /\ \A l \in S : takes(l) => invoice[i].status \in MoneyStatuses
      /\ \A l \in S : ~ takes(l) => invoice[i].status \in ClosedStatuses
      /\ invoice[i].status \in ClosedStatuses => \E l \in S : ~ takes(l)
      /\ (\E l \in S : ~ takes(l)) => \E l \in S : takes(l)
      /\ invoice[i].status = "FUNDED" => \E l \in S : takes(l)
  BY <1>t DEF ExposureInv, ExposureFacts, BookInv, BookFacts, MoneyInv, TableFacts,
              LogFacts, StatusFacts, HasLog
<1>3. CASE S = {}
  <2>1. IsFiniteSet(S)
    BY <1>3, FS_EmptySet
  <2>2. LoggedExposure(i) = Sum(g, S)
    BY <2>1, DeltaIsSum DEF LoggedExposure
  <2>3. Sum(g, S) = 0
    BY <1>3, SumEmpty
  <2>4. invoice[i].status # "FUNDED"
    BY <1>2, <1>3
  <2> QED BY <2>2, <2>3, <2>4 DEF CreditExposedStatuses
<1>4. CASE S # {}
  <2>1. PICK l \in S : takes(l)
    BY <1>2, <1>4
  <2>2. g[l] = Amount[i] /\ g[l] \in Int
    BY <1>t, <1>1, <2>1
  <2>3. CASE \A k \in S : takes(k)
    <3>1. S = {l} /\ invoice[i].status = "FUNDED"
      BY <1>1, <1>2, <2>1, <2>3 DEF MoneyStatuses, ClosedStatuses
    <3> HIDE DEF g
    <3>2. IsFiniteSet(S) /\ Sum(g, S) = Amount[i]
      BY <2>2, <3>1, SumOne
    <3>3. LoggedExposure(i) = Sum(g, S)
      BY <3>2, DeltaIsSum DEF LoggedExposure, g
    <3> QED BY <3>1, <3>2, <3>3 DEF CreditExposedStatuses
  <2>4. CASE \E k \in S : ~ takes(k)
    <3>1. PICK k \in S : ~ takes(k)
      BY <2>4
    <3>2. S = {l, k} /\ l # k
      BY <1>t, <1>1, <2>1, <3>1
    <3>3. g[k] = - Amount[i] /\ g[k] \in Int
      BY <1>t, <1>1, <3>1
    <3> HIDE DEF g
    <3>4. IsFiniteSet(S) /\ Sum(g, S) = g[l] + g[k]
      <4>1. /\ IsFiniteSet({l, k})
            /\ Sum(g, {l, k}) = g[l] + g[k]
        BY <2>2, <3>2, <3>3, SumTwo
      <4> QED BY <3>2, <4>1
    <3>5. LoggedExposure(i) = Sum(g, S)
      BY <3>4, DeltaIsSum DEF LoggedExposure, g
    <3>6. g[l] + g[k] = 0
      BY <1>t, <2>2, <3>3
    <3>7. invoice[i].status # "FUNDED"
      BY <1>2, <3>1 DEF ClosedStatuses
    <3> QED BY <3>4, <3>5, <3>6, <3>7 DEF CreditExposedStatuses
  <2> QED BY <2>3, <2>4
<1> QED BY <1>3, <1>4

(* While calls on one invoice do not overlap and clients send no keys of   *)
(* their own, the credit log's deltas of an invoice add up to its amount   *)
(* while it is FUNDED and to nothing at any other time: fund, settle and   *)
(* chargeback each reach their write once, with opposite deltas.           *)
THEOREM ExposureIsLogged ==
  ASSUME Orderly, ClientKeys = {}
  PROVE  Spec => []ExposureFollowsStatus
<1>1. ExposureInv => ExposureFollowsStatus
  BY ExposureAddsUp DEF ExposureFollowsStatus
<1>2. ExposureInv /\ [Next]_vars => ExposureInv'
  BY ExposureInvStep
<1>3. Init => ExposureInv
  BY ExposureInit
<1> QED BY <1>1, <1>2, <1>3, PTL DEF Spec

-----------------------------------------------------------------------------
(* The handlers as a credit facility: what stands for its variables.       *)

Exposed  == {i \in Invoice : invoice[i].status \in CreditExposedStatuses}
Closed   == {i \in Invoice : invoice[i].status \in
               {"SETTLED", "CHARGED_BACK", "WRITTEN_OFF"}}
Totals   == [m \in MC |-> IF limit[m] = NoLimit THEN NoLimit ELSE limit[m].total]
Counters == [m \in MC |-> IF limit[m] = NoLimit THEN 0 ELSE limit[m].used]

FacilityInv == BookInv /\ LimitInv

(* Moving the counter of one account.                                      *)
LEMMA CounterAbstract ==
  ASSUME LimitInv, NEW c \in calls, c.pc = "tx", NEW part, NEW reason,
         NEW delta \in Int, ApplyDelta(c, part, reason, delta), part \notin c.found
  PROVE  /\ Totals' = Totals
         /\ Totals[Debtor[c.inv]] = limit[Debtor[c.inv]].total
         /\ Totals[Debtor[c.inv]] # NoLimit
         /\ Counters[Debtor[c.inv]] = limit[Debtor[c.inv]].used
         /\ Counters' = [Counters EXCEPT ![Debtor[c.inv]] = @ + delta]
<1> DEFINE m == Debtor[c.inv]
<1>1. m \in MC
  BY StoreAssumption DEF LimitInv, TypeInv, TypeOK, Call, StoreAssumption
<1>2. /\ limit[m] # NoLimit /\ limit[m] \in LimitRow
      /\ limit'[m] = [total |-> limit[m].total, used |-> limit[m].used + delta]
      /\ \A n \in MC \ {m} : limit'[n] = limit[n]
  BY CounterMoves DEF OnlyAccount
<1>3. limit[m].total \in Nat /\ limit[m].used + delta \in Int
  BY <1>2 DEF LimitRow
<1>4. limit'[m] \in LimitRow
  BY <1>2, <1>3 DEF LimitRow
<1>5. limit'[m] # NoLimit /\ limit[m].total # NoLimit
  BY <1>3, <1>4, StoreAssumption DEF StoreAssumption, LimitRow
<1>6. /\ limit'[m].total = limit[m].total
      /\ limit'[m].used = limit[m].used + delta
  BY <1>2
<1>7. \A n \in MC : Totals'[n] = Totals[n]
  BY <1>2, <1>5, <1>6 DEF Totals
<1>8. Totals' = Totals
  BY <1>7 DEF Totals
<1>9. Counters' = [Counters EXCEPT ![m] = @ + delta]
  <2>1. Counters[m] = limit[m].used /\ Counters'[m] = Counters[m] + delta
    BY <1>1, <1>2, <1>5, <1>6 DEF Counters
  <2>2. \A n \in MC \ {m} : Counters'[n] = Counters[n]
    BY <1>2 DEF Counters
  <2> QED BY <1>1, <2>1, <2>2 DEF Counters
<1> QED BY <1>1, <1>2, <1>5, <1>8, <1>9 DEF Totals, Counters

(* An invoice that moves from one set to the other, alone.                 *)
LEMMA FundExposes ==
  ASSUME FacilityInv, NEW c \in calls, Fund(c)
  PROVE  Facility!Expose(c.inv)
<1>1. /\ c.inv \in Invoice /\ c.pc = "tx" /\ c.op = "fund"
      /\ \A j \in Invoice \ {c.inv} : invoice'[j] = invoice[j]
      /\ invoice[c.inv].status = "APPROVED_FOR_FUNDING"
      /\ invoice'[c.inv].status = "FUNDED"
  BY CommitMoves DEF FacilityInv, Fund, At
<1>2. /\ c.inv \notin Exposed \cup Closed
      /\ Exposed' = Exposed \cup {c.inv} /\ Closed' = Closed
  BY <1>1 DEF Exposed, Closed, CreditExposedStatuses
<1>3. /\ Totals' = Totals
      /\ Totals[Debtor[c.inv]] = limit[Debtor[c.inv]].total
      /\ Totals[Debtor[c.inv]] # NoLimit
      /\ Counters[Debtor[c.inv]] = limit[Debtor[c.inv]].used
      /\ Counters' = [Counters EXCEPT ![Debtor[c.inv]] = @ + Amount[c.inv]]
  <2>1. "credit-limit" \notin c.found
    BY <1>1, NothingFound DEF FacilityInv
  <2>2. ApplyDelta(c, "credit-limit", "INVOICE_FUNDED", Amount[c.inv])
    BY DEF Fund
  <2>3. Amount[c.inv] \in Int
    BY <1>1, StoreAssumption DEF StoreAssumption
  <2> QED BY <1>1, <2>1, <2>2, <2>3, CounterAbstract DEF FacilityInv
<1>4. Counters[Debtor[c.inv]] + Amount[c.inv] <= Totals[Debtor[c.inv]]
  <2>1. WithinCreditLimit(c.inv)
    BY <1>1 DEF FacilityInv, LimitInv, LimitFacts
  <2> QED BY <1>3, <2>1 DEF WithinCreditLimit
<1> QED BY <1>2, <1>3, <1>4
        DEF Exposed, Closed, Totals, Counters, Facility!Expose

LEMMA CloseRestores ==
  ASSUME FacilityInv, NEW c \in calls, Settle(c) \/ ChargeBack(c)
  PROVE  Facility!Restore(c.inv)
<1>1. /\ c.inv \in Invoice /\ c.pc = "tx" /\ c.op \in {"settle", "chargeback"}
      /\ \A j \in Invoice \ {c.inv} : invoice'[j] = invoice[j]
      /\ invoice[c.inv].status = "FUNDED"
      /\ invoice'[c.inv].status \in {"SETTLED", "CHARGED_BACK"}
  BY CommitMoves DEF FacilityInv, Settle, ChargeBack, At
<1>2. /\ c.inv \in Exposed
      /\ Exposed' = Exposed \ {c.inv} /\ Closed' = Closed \cup {c.inv}
  BY <1>1 DEF Exposed, Closed, CreditExposedStatuses
<1> DEFINE a == - Amount[c.inv]
<1>3. /\ Totals' = Totals
      /\ Counters' = [Counters EXCEPT ![Debtor[c.inv]] = @ + a]
  <2>1. "credit-limit-restore" \notin c.found
    BY <1>1, NothingFound DEF FacilityInv
  <2>2. \E reason : ApplyDelta(c, "credit-limit-restore", reason, a)
    BY DEF Settle, ChargeBack
  <2>3. a \in Int
    BY <1>1, StoreAssumption DEF StoreAssumption
  <2> HIDE DEF a
  <2> QED BY <1>1, <2>1, <2>2, <2>3, CounterAbstract DEF FacilityInv
<1>4. Counters' = [Counters EXCEPT ![Debtor[c.inv]] = @ - Amount[c.inv]]
  <2>1. Amount[c.inv] \in Int /\ Counters[Debtor[c.inv]] \in Int
    BY <1>1, StoreAssumption
       DEF StoreAssumption, Counters, FacilityInv, LimitInv, TypeInv, TypeOK, LimitRow
  <2>2. Counters[Debtor[c.inv]] + a = Counters[Debtor[c.inv]] - Amount[c.inv]
    BY <2>1
  <2> QED BY <1>3, <2>2
<1> QED BY <1>2, <1>3, <1>4
        DEF Exposed, Closed, Totals, Counters, Facility!Restore

(* Any other status change stays within or without the facility.           *)
LEMMA OthersStay ==
  ASSUME FacilityInv, NEW c \in calls, MovesStatus(c)
  PROVE  Exposed' = Exposed /\ Closed' = Closed
<1>1. /\ c.inv \in Invoice /\ OrderFacts(c) /\ invoice \in [Invoice -> InvoiceRow]
  BY DEF FacilityInv, BookInv, OrderInv, SideInv, TypeInv, TypeOK, Call
<1>2. PICK r : WriteStatusChange(c, r)
  BY DEF MovesStatus
<1>3. /\ invoice'[c.inv].status = c.to
      /\ \A j \in Invoice \ {c.inv} : invoice'[j] = invoice[j]
  BY <1>1, <1>2 DEF WriteStatusChange, InvoiceRow
<1>4. CASE c.op = "create"
  <2>1. invoice[c.inv].status = "NONE" /\ c.to \notin MoneyStatuses
    BY <1>1, <1>4 DEF MovesStatus, Exists, OrderFacts, FromTo
  <2> QED BY <1>3, <2>1 DEF Exposed, Closed, CreditExposedStatuses, MoneyStatuses
<1>5. CASE c.op # "create"
  <2>1. invoice[c.inv].status = c.from /\ IsLegalTransition(c.from, c.to)
    BY <1>1, <1>2, <1>5 DEF MovesStatus, OrderFacts, WriteStatusChange
  <2>2. CASE c.to \in MoneyStatuses
    <3>1. \/ c.from = "CHARGED_BACK" /\ c.to = "WRITTEN_OFF"
          \/ c.from = c.to
      BY <1>1, <2>2 DEF OrderFacts, FromTo, MovesStatus
    <3> QED BY <1>3, <2>1, <3>1 DEF Exposed, Closed, CreditExposedStatuses
  <2>3. CASE c.to \notin MoneyStatuses
    <3>1. c.from \notin MoneyStatuses
      BY <2>1, <2>3 DEF IsLegalTransition, Transitions, MoneyStatuses
    <3> QED BY <1>3, <2>1, <2>3, <3>1
            DEF Exposed, Closed, CreditExposedStatuses, MoneyStatuses
  <2> QED BY <2>2, <2>3
<1> QED BY <1>4, <1>5

(* An Admin's new total moves no counter.                                  *)
LEMMA TotalSetAlone ==
  ASSUME LimitInv, NEW m \in MC, NEW t \in LimitValues, SetLimit(m, t)
  PROVE  /\ Totals'[m] \in Nat /\ Totals' = [Totals EXCEPT ![m] = Totals'[m]]
         /\ Counters' = Counters
<1>1. limit \in [MC -> LimitRow \cup {NoLimit}] /\ t \in Nat
  BY StoreAssumption DEF LimitInv, TypeInv, TypeOK, StoreAssumption
<1>2. /\ \A n \in MC \ {m} : limit'[n] = limit[n]
      /\ limit'[m] = IF limit[m] = NoLimit THEN [total |-> t, used |-> 0]
                     ELSE [limit[m] EXCEPT !.total = t]
  BY <1>1 DEF SetLimit
<1>3. /\ limit'[m] \in LimitRow /\ limit'[m].total = t
      /\ limit'[m].used = IF limit[m] = NoLimit THEN 0 ELSE limit[m].used
  <2>1. CASE limit[m] = NoLimit
    BY <1>1, <1>2, <2>1 DEF LimitRow
  <2>2. CASE limit[m] # NoLimit
    <3>1. limit[m] \in LimitRow
      BY <1>1, <2>2
    <3> QED BY <1>1, <1>2, <2>2, <3>1 DEF LimitRow
  <2> QED BY <2>1, <2>2
<1>4. limit'[m] # NoLimit
  BY <1>3, StoreAssumption DEF StoreAssumption, LimitRow
<1>5. Totals'[m] \in Nat /\ Totals' = [Totals EXCEPT ![m] = Totals'[m]]
  <2>1. Totals'[m] = t
    BY <1>3, <1>4 DEF Totals
  <2>2. \A n \in MC \ {m} : Totals'[n] = Totals[n]
    BY <1>2 DEF Totals
  <2> QED BY <1>1, <2>1, <2>2 DEF Totals
<1>6. Counters' = Counters
  <2>1. \A n \in MC : Counters'[n] = Counters[n]
    BY <1>2, <1>3, <1>4 DEF Counters
  <2> QED BY <2>1 DEF Counters
<1> QED BY <1>5, <1>6

LEMMA LimitSetsTotal ==
  ASSUME FacilityInv, NEW m \in MC, NEW t \in LimitValues, SetLimit(m, t)
  PROVE  Facility!SetTotal(m)
<1>1. /\ Totals'[m] \in Nat /\ Totals' = [Totals EXCEPT ![m] = Totals'[m]]
      /\ Counters' = Counters
  BY TotalSetAlone DEF FacilityInv
<1>2. Exposed' = Exposed /\ Closed' = Closed
  BY DEF SetLimit, Exposed, Closed
<1> QED BY <1>1, <1>2
        DEF Exposed, Closed, Totals, Counters, Facility!SetTotal

LEMMA FacilityStep ==
  ASSUME FacilityInv, [Next]_vars
  PROVE  [Facility!FacilityNext]_(Facility!facilityVars)
<1>1. ASSUME NEW c \in calls, Fund(c) \/ Settle(c) \/ ChargeBack(c)
      PROVE  Facility!FacilityNext
  <2>1. c.inv \in Invoice
    BY DEF FacilityInv, BookInv, OrderInv, SideInv, TypeInv, TypeOK, Call
  <2> QED BY <1>1, <2>1, FundExposes, CloseRestores DEF Facility!FacilityNext
<1>2. ASSUME NEW m \in MC, NEW t \in LimitValues, SetLimit(m, t)
      PROVE  Facility!FacilityNext
  BY <1>2, LimitSetsTotal DEF Facility!FacilityNext
<1>3. CASE Steady
  <2>1. UNCHANGED limit
    BY <1>3 DEF Steady
  <2>2. Exposed' = Exposed /\ Closed' = Closed
    <3>1. CASE \A i \in Invoice : invoice'[i].status = invoice[i].status
      BY <3>1 DEF Exposed, Closed
    <3>2. CASE \E c \in calls : MovesStatus(c)
      BY <3>2, OthersStay
    <3> QED BY <1>3, <3>1, <3>2 DEF Steady
  <2> QED BY <2>1, <2>2 DEF Exposed, Closed, Facility!facilityVars
<1>4. CASE UNCHANGED vars
  BY <1>4 DEF vars, storeVars, tables, Facility!facilityVars
<1> QED BY <1>1, <1>2, <1>3, <1>4, MoneySteps
        DEF FacilityInv, BookInv, OrderInv

LEMMA FacilityStart == Init => Facility!FacilityInit
<1> SUFFICES ASSUME Init PROVE Facility!FacilityInit
  OBVIOUS
<1>1. Exposed = {} /\ Closed = {}
  BY DEF Init, StoreInit, Exposed, Closed, CreditExposedStatuses
<1>2. limit = [m \in MC |-> IF OpeningLimit[m] = NoLimit THEN NoLimit
                            ELSE [total |-> OpeningLimit[m], used |-> 0]]
  BY DEF Init, StoreInit
<1>3. \A m \in MC : OpeningLimit[m] # NoLimit => OpeningLimit[m] \in Nat
  BY StoreAssumption DEF StoreAssumption
<1>4. \A n \in Nat : [total |-> n, used |-> 0] # NoLimit
  BY StoreAssumption DEF StoreAssumption
<1>5. \A m \in MC : Totals[m] \in Nat \cup {NoLimit} /\ Counters[m] = 0
  BY <1>2, <1>3, <1>4 DEF Totals, Counters
<1>6. Totals \in [MC -> Nat \cup {NoLimit}] /\ Counters = [m \in MC |-> 0]
  BY <1>5 DEF Totals, Counters
<1> QED BY <1>1, <1>6
        DEF Exposed, Closed, Totals, Counters, Facility!FacilityInit

(* The handlers implement the credit facility of the README: exposure is   *)
(* taken on within the limit, given back once and in full, and the counter *)
(* moves with it, while calls on one account do not overlap, where the     *)
(* portals call the handlers that do not look, and as long as clients send *)
(* no keys of their own.                                                   *)
THEOREM HandlersImplementFacility ==
  ASSUME Orderly, Serialised = "account", ClientKeys = {}
  PROVE  Spec => ImplementsFacility
<1>1. Init => FacilityInv
  BY BookInit, LimitInit DEF FacilityInv
<1>2. FacilityInv /\ [Next]_vars => FacilityInv'
  BY BookInvStep, LimitInvStep DEF FacilityInv
<1>3. FacilityInv /\ [Next]_vars => [Facility!FacilityNext]_(Facility!facilityVars)
  BY FacilityStep
<1> QED BY <1>1, <1>2, <1>3, FacilityStart, PTL
        DEF Spec, ImplementsFacility, Facility!FacilitySpec

-----------------------------------------------------------------------------
(* The counters and the log.                                               *)

RowsOf(m) == {l \in creditLog : Debtor[l.inv] = m}

LogInv == LimitInv /\ IsFiniteSet(creditLog) /\ CounterMatchesLog

LEMMA LogSums ==
  CounterMatchesLog <=> \A m \in MC : Counters[m] = Deltas(RowsOf(m))
BY DEF CounterMatchesLog, Counters, UsedOf, RowsOf

LEMMA LogSumsNext ==
  CounterMatchesLog' <=> \A m \in MC : Counters'[m] = Deltas(RowsOf(m)')
BY DEF CounterMatchesLog, Counters, UsedOf, RowsOf

(* Neither the counters nor the log change.                                *)
LEMMA LogStays ==
  ASSUME LogInv, Counters' = Counters, UNCHANGED creditLog
  PROVE  IsFiniteSet(creditLog') /\ CounterMatchesLog'
<1>1. \A m \in MC : Counters'[m] = Deltas(RowsOf(m)')
  <2>1. \A m \in MC : RowsOf(m)' = RowsOf(m)
    BY DEF RowsOf
  <2> QED BY <2>1, LogSums DEF LogInv
<1>2. CounterMatchesLog'
  BY <1>1, LogSumsNext
<1> QED BY <1>2 DEF LogInv

LEMMA DeltasAdded ==
  ASSUME NEW S, IsFiniteSet(S), \A l \in S : l.delta \in Int,
         NEW row, row \notin S, row.delta \in Int
  PROVE  Deltas(S \cup {row}) = Deltas(S) + row.delta
<1> DEFINE T == S \cup {row}
           f == [l \in S |-> l.delta]
           g == [l \in T |-> l.delta]
<1>1. /\ \A l \in S : f[l] = l.delta /\ g[l] = l.delta
      /\ g[row] = row.delta
  OBVIOUS
<1>2. Deltas(S) = Sum(f, S)
  BY DeltaIsSum
<1>3. IsFiniteSet(T)
  BY FS_AddElement
<1>4. Deltas(T) = Sum(g, T)
  BY <1>3, DeltaIsSum
<1> HIDE DEF f, g
<1>5. Sum(f, S) = Sum(g, S)
  BY <1>1, SumSame
<1>6. Sum(g, S \cup {row}) = Sum(g, S) + g[row]
  BY <1>1, SumAdded
<1> QED BY <1>1, <1>2, <1>4, <1>5, <1>6

(* The row applyDelta adds to the log is what it adds to the counter: the  *)
(* value it read is still the counter's.                                   *)
LEMMA ApplyDeltaKeepsLog ==
  ASSUME LogInv, NEW c \in calls, c.pc = "tx", NEW part, NEW reason,
         NEW delta \in Int, ApplyDelta(c, part, reason, delta)
  PROVE  IsFiniteSet(creditLog') /\ CounterMatchesLog'
<1>t. creditLog \subseteq LogRow /\ limit \in [MC -> LimitRow \cup {NoLimit}]
  BY DEF LogInv, LimitInv, TypeInv, TypeOK
<1>1. CASE part \in c.found
  BY <1>1, LogStays DEF ApplyDelta, Counters
<1>2. CASE part \notin c.found
  <2> DEFINE row == [key |-> c.key, part |-> part, inv |-> c.inv,
                     reason |-> reason, delta |-> delta]
             n == Debtor[c.inv]
  <2>1. row.inv = c.inv /\ row.delta = delta /\ row.key = c.key /\ row.part = part
    OBVIOUS
  <2>2. creditLog' = creditLog \cup {row} /\ ~ Logged(c.key, part)
    BY <1>2 DEF ApplyDelta
  <2> HIDE DEF row
  <2>3. row \notin creditLog
    BY <2>1, <2>2 DEF Logged
  <2>4. IsFiniteSet(creditLog')
    BY <2>2, FS_AddElement DEF LogInv
  <2>5. Counters' = [Counters EXCEPT ![n] = @ + delta]
    BY <1>2, CounterAbstract DEF LogInv
  <2>6. ASSUME NEW m \in MC PROVE Counters'[m] = Deltas(RowsOf(m)')
    <3>1. Counters[m] = Deltas(RowsOf(m))
      BY LogSums DEF LogInv
    <3>2. CASE m = n
      <4>1. RowsOf(m)' = RowsOf(m) \cup {row} /\ row \notin RowsOf(m)
        BY <2>1, <2>2, <2>3, <3>2 DEF RowsOf
      <4>2. /\ IsFiniteSet(RowsOf(m))
            /\ \A l \in RowsOf(m) : l.delta \in Int
        BY <1>t, FS_Subset DEF RowsOf, LogInv, LogRow
      <4>3. Deltas(RowsOf(m) \cup {row}) = Deltas(RowsOf(m)) + delta
        BY <2>1, <4>1, <4>2, DeltasAdded
      <4>4. Counters'[m] = Counters[m] + delta
        BY <2>5, <3>2 DEF Counters
      <4> QED BY <3>1, <4>1, <4>3, <4>4
    <3>3. CASE m # n
      <4>1. RowsOf(m)' = RowsOf(m)
        BY <2>1, <2>2, <3>3 DEF RowsOf
      <4>2. Counters'[m] = Counters[m]
        BY <2>5, <3>3 DEF Counters
      <4> QED BY <3>1, <4>1, <4>2
    <3> QED BY <3>2, <3>3
  <2>7. CounterMatchesLog'
    BY <2>6, LogSumsNext
  <2> QED BY <2>4, <2>7
<1> QED BY <1>1, <1>2

LEMMA LogInvStep ==
  Serialised = "account" /\ SideInv /\ LogInv /\ [Next]_vars => LogInv'
<1> SUFFICES ASSUME Serialised = "account", SideInv, LogInv, [Next]_vars
             PROVE  LogInv'
  OBVIOUS
<1>1. LimitInv'
  BY LimitInvStep DEF LogInv
<1>2. ASSUME NEW c \in calls, Fund(c) \/ Settle(c) \/ ChargeBack(c)
      PROVE  LogInv'
  <2>1. c.pc = "tx" /\ c.inv \in Invoice
    BY <1>2 DEF Fund, Settle, ChargeBack, At, SideInv, TypeInv, TypeOK, Call
  <2>2. Amount[c.inv] \in Int /\ - Amount[c.inv] \in Int
    BY <2>1, StoreAssumption DEF StoreAssumption
  <2> DEFINE back == - Amount[c.inv]
  <2>3. \/ \E part, reason : ApplyDelta(c, part, reason, Amount[c.inv])
        \/ \E part, reason : ApplyDelta(c, part, reason, back)
    BY <1>2 DEF Fund, Settle, ChargeBack
  <2>4. back \in Int
    BY <2>2
  <2> HIDE DEF back
  <2> QED BY <1>1, <2>1, <2>2, <2>3, <2>4, ApplyDeltaKeepsLog DEF LogInv
<1>3. ASSUME UNCHANGED <<creditLog, limit>> PROVE LogInv'
  BY <1>1, <1>3, LogStays DEF LogInv, Counters
<1>4. ASSUME NEW m \in MC, NEW t \in LimitValues, SetLimit(m, t) PROVE LogInv'
  <2>1. UNCHANGED creditLog
    BY <1>4 DEF SetLimit
  <2>2. Counters' = Counters
    BY <1>4, TotalSetAlone DEF LogInv
  <2> QED BY <1>1, <2>1, <2>2, LogStays DEF LogInv
<1>5. CASE UNCHANGED vars
  BY <1>3, <1>5 DEF vars, storeVars, tables
<1> QED BY <1>2, <1>3, <1>4, <1>5, MoneySteps DEF Steady

LEMMA LogInit == Init => LogInv
<1> SUFFICES ASSUME Init PROVE LogInv
  OBVIOUS
<1>1. creditLog = {} /\ IsFiniteSet({})
  BY FS_EmptySet DEF Init, StoreInit
<1>2. \A m \in MC : Counters[m] = 0
  BY FacilityStart DEF Facility!FacilityInit, Counters
<1>3. Deltas({}) = 0
  BY <1>1, DeltaIsSum, SumEmpty
<1>4. \A m \in MC : RowsOf(m) = {}
  BY <1>1 DEF RowsOf
<1>5. CounterMatchesLog
  BY <1>2, <1>3, <1>4, LogSums
<1> QED BY <1>1, <1>5, LimitInit DEF LogInv

(* While calls on one account do not overlap, no update of a counter is    *)
(* lost, whatever keys clients send and whichever handlers they call: each *)
(* counter is what the deltas of its account's log rows add up to.         *)
THEOREM CountersMatchLog ==
  ASSUME Serialised = "account"
  PROVE  Spec => []CounterMatchesLog
<1>1. LogInv => CounterMatchesLog
  BY DEF LogInv
<1>2. SideInv /\ LogInv /\ [Next]_vars => LogInv'
  BY LogInvStep
<1> QED BY <1>1, <1>2, LogInit, SideInit, SideStep, PTL DEF Spec

-----------------------------------------------------------------------------
(* The counters and the statuses, from the abstract facility's steps.      *)

ExposedOf(m) == {i \in Exposed : Debtor[i] = m}

CounterInv == FacilityInv /\ IsFiniteSet(Exposed) /\ CounterFollowsStatus

LEMMA StatusSums ==
  CounterFollowsStatus <=> \A m \in MC : Counters[m] = Sum(Amount, ExposedOf(m))
<1>1. \A m : ExposedOf(m) = {i \in Invoice :
                /\ Debtor[i] = m
                /\ invoice[i].status \in CreditExposedStatuses}
  BY DEF ExposedOf, Exposed
<1>2. \A m : FullAmounts(ExposedOf(m)) = Sum(Amount, ExposedOf(m))
  BY Zenon DEF FullAmounts, Sum
<1> QED BY <1>1, <1>2 DEF CounterFollowsStatus, Counters, UsedOf

LEMMA StatusSumsNext ==
  CounterFollowsStatus'
    <=> \A m \in MC : Counters'[m] = Sum(Amount, ExposedOf(m)')
<1>1. \A m : ExposedOf(m)' = {i \in Invoice :
                /\ Debtor[i] = m
                /\ invoice'[i].status \in CreditExposedStatuses}
  BY DEF ExposedOf, Exposed
<1>2. \A m : FullAmounts(ExposedOf(m)') = Sum(Amount, ExposedOf(m)')
  BY Zenon DEF FullAmounts, Sum
<1> QED BY <1>1, <1>2 DEF CounterFollowsStatus, Counters, UsedOf

(* What a step of the facility does to the sums.                           *)
LEMMA FacilityKeepsSums ==
  ASSUME CounterInv, [Facility!FacilityNext]_(Facility!facilityVars)
  PROVE  IsFiniteSet(Exposed') /\ CounterFollowsStatus'
<1>t. /\ \A m \in MC : Counters[m] = Sum(Amount, ExposedOf(m))
      /\ \A m \in MC : IsFiniteSet(ExposedOf(m)) /\ Counters[m] \in Int
      /\ \A i \in Invoice : Amount[i] \in Int /\ Debtor[i] \in MC
      /\ \A m \in MC : ExposedOf(m) \subseteq Invoice
  <2>1. \A m \in MC : ExposedOf(m) \subseteq Exposed
    BY DEF ExposedOf
  <2>2. \A m \in MC : IsFiniteSet(ExposedOf(m))
    BY <2>1, FS_Subset DEF CounterInv
  <2>3. \A i \in Invoice : Amount[i] \in Int /\ Debtor[i] \in MC
    BY StoreAssumption DEF StoreAssumption
  <2>4. \A m \in MC : ExposedOf(m) \subseteq Invoice
    BY DEF ExposedOf, Exposed
  <2>5. \A m \in MC : Counters[m] = Sum(Amount, ExposedOf(m))
    BY StatusSums DEF CounterInv
  <2>6. \A m \in MC : Sum(Amount, ExposedOf(m)) \in Int
    BY <2>2, <2>3, <2>4, SumInt
  <2> QED BY <2>2, <2>3, <2>4, <2>5, <2>6
<1>1. ASSUME NEW i \in Invoice, Facility!Expose(i)
      PROVE  IsFiniteSet(Exposed') /\ CounterFollowsStatus'
  <2>1. /\ i \notin Exposed /\ Exposed' = Exposed \cup {i}
        /\ Counters' = [Counters EXCEPT ![Debtor[i]] = @ + Amount[i]]
    BY <1>1 DEF Facility!Expose, Exposed, Closed, Totals, Counters
  <2>2. IsFiniteSet(Exposed')
    BY <2>1, FS_AddElement DEF CounterInv
  <2>3. ASSUME NEW m \in MC PROVE Counters'[m] = Sum(Amount, ExposedOf(m)')
    <3>1. CASE m = Debtor[i]
      <4>1. ExposedOf(m)' = ExposedOf(m) \cup {i} /\ i \notin ExposedOf(m)
        BY <2>1, <3>1 DEF ExposedOf
      <4>2. Sum(Amount, ExposedOf(m) \cup {i}) = Sum(Amount, ExposedOf(m)) + Amount[i]
        BY <1>t, <4>1, SumAdded
      <4>3. Counters'[m] = Counters[m] + Amount[i]
        BY <2>1, <3>1 DEF Counters
      <4> QED BY <1>t, <4>1, <4>2, <4>3
    <3>2. CASE m # Debtor[i]
      <4>1. ExposedOf(m)' = ExposedOf(m)
        BY <2>1, <3>2 DEF ExposedOf
      <4>2. Counters'[m] = Counters[m]
        BY <2>1, <3>2 DEF Counters
      <4> QED BY <1>t, <4>1, <4>2
    <3> QED BY <3>1, <3>2
  <2> QED BY <2>2, <2>3, StatusSumsNext
<1>2. ASSUME NEW i \in Invoice, Facility!Restore(i)
      PROVE  IsFiniteSet(Exposed') /\ CounterFollowsStatus'
  <2>1. /\ i \in Exposed /\ Exposed' = Exposed \ {i}
        /\ Counters' = [Counters EXCEPT ![Debtor[i]] = @ - Amount[i]]
    BY <1>2 DEF Facility!Restore, Exposed, Closed, Totals, Counters
  <2>2. IsFiniteSet(Exposed')
    BY <2>1, FS_Subset DEF CounterInv
  <2>3. ASSUME NEW m \in MC PROVE Counters'[m] = Sum(Amount, ExposedOf(m)')
    <3>1. CASE m = Debtor[i]
      <4>1. ExposedOf(m)' = ExposedOf(m) \ {i} /\ i \in ExposedOf(m)
        BY <2>1, <3>1 DEF ExposedOf
      <4>2. Sum(Amount, ExposedOf(m)) = Amount[i] + Sum(Amount, ExposedOf(m) \ {i})
        BY <1>t, <4>1, SumTakenOut
      <4>3. Sum(Amount, ExposedOf(m) \ {i}) \in Int
        BY <1>t, SumInt, FS_RemoveElement
      <4>4. Counters'[m] = Counters[m] - Amount[i]
        BY <2>1, <3>1 DEF Counters
      <4> QED BY <1>t, <4>1, <4>2, <4>3, <4>4
    <3>2. CASE m # Debtor[i]
      <4>1. ExposedOf(m)' = ExposedOf(m)
        BY <2>1, <3>2 DEF ExposedOf
      <4>2. Counters'[m] = Counters[m]
        BY <2>1, <3>2 DEF Counters
      <4> QED BY <1>t, <4>1, <4>2
    <3> QED BY <3>1, <3>2
  <2> QED BY <2>2, <2>3, StatusSumsNext
<1>3. ASSUME Exposed' = Exposed, Counters' = Counters
      PROVE  IsFiniteSet(Exposed') /\ CounterFollowsStatus'
  <2>1. \A m \in MC : ExposedOf(m)' = ExposedOf(m)
    BY <1>3 DEF ExposedOf
  <2> QED BY <1>t, <1>3, <2>1, StatusSumsNext DEF CounterInv
<1>4. CASE \E m \in MC : Facility!SetTotal(m)
  <2>1. Exposed' = Exposed /\ Counters' = Counters
    BY <1>4 DEF Facility!SetTotal, Exposed, Counters
  <2> QED BY <1>3, <2>1
<1>5. CASE UNCHANGED Facility!facilityVars
  <2>1. Exposed' = Exposed /\ Counters' = Counters
    BY <1>5 DEF Facility!facilityVars, Exposed, Counters
  <2> QED BY <1>3, <2>1
<1> QED BY <1>1, <1>2, <1>4, <1>5 DEF Facility!FacilityNext

(* The counter is what is FUNDED: under the conditions of the refinement,  *)
(* an account's currentUsed is the full amount of its FUNDED invoices,     *)
(* however many there are and whatever was settled or charged back before. *)
THEOREM CountersFollowStatuses ==
  ASSUME Orderly, Serialised = "account", ClientKeys = {}
  PROVE  Spec => []CounterFollowsStatus
<1>1. Init => CounterInv
  <2> SUFFICES ASSUME Init PROVE CounterInv
    OBVIOUS
  <2>1. FacilityInv
    BY BookInit, LimitInit DEF FacilityInv
  <2>2. Exposed = {} /\ IsFiniteSet({}) /\ \A m \in MC : Counters[m] = 0
    BY FacilityStart, FS_EmptySet DEF Facility!FacilityInit, Exposed, Counters
  <2>3. \A m \in MC : ExposedOf(m) = {}
    BY <2>2 DEF ExposedOf
  <2>4. CounterFollowsStatus
    BY <2>2, <2>3, StatusSums, SumEmpty
  <2> QED BY <2>1, <2>2, <2>4 DEF CounterInv
<1>2. CounterInv /\ [Next]_vars => CounterInv'
  <2> SUFFICES ASSUME CounterInv, [Next]_vars PROVE CounterInv'
    OBVIOUS
  <2>1. FacilityInv'
    BY BookInvStep, LimitInvStep DEF CounterInv, FacilityInv
  <2>2. IsFiniteSet(Exposed') /\ CounterFollowsStatus'
    BY FacilityStep, FacilityKeepsSums DEF CounterInv
  <2> QED BY <2>1, <2>2 DEF CounterInv
<1>3. CounterInv => CounterFollowsStatus
  BY DEF CounterInv
<1> QED BY <1>1, <1>2, <1>3, PTL DEF Spec
=============================================================================
