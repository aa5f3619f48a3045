----------------------------- MODULE Money_proofs -----------------------------
(***************************************************************************)
(* What the money-moving handlers promise, proved for every value of the   *)
(* constants as long as clients send no idempotency keys of their own: any *)
(* number of invoices, calls in flight, amounts and limits, and any        *)
(* interleaving.  All of it follows from one inductive invariant.          *)
(***************************************************************************)
EXTENDS FundingSystem_proofs

(* The handler that writes entries of a type.                              *)
WriterOf(type) ==
  CASE type = "RESERVE_RELEASE" -> "settle"
    [] type = "CHARGEBACK"      -> "chargeback"
    [] type = "WRITE_OFF"       -> "writeOff"
    [] OTHER                    -> "fund"

(* The default keys make an entry's key a function of its invoice and type. *)
LedgerKeys == \A e \in ledger : e.key = DefaultKey(WriterOf(e.type), e.inv)

HasChargeback(i) == \E b \in chargebacks : b.inv = i

(* Every entry and what it needs to have behind it.                        *)
EntryFacts ==
  \A e \in ledger :
    /\ Exists(e.inv)
    /\ e.type = "RESERVE_HOLD" =>
         /\ e.amount = Reserve(e.inv)
         /\ invoice[e.inv].reserveAmount = Reserve(e.inv)
    /\ e.type = "RESERVE_RELEASE" =>
         e.amount = Reserve(e.inv) /\ HasEntry(e.inv, "RESERVE_HOLD")
    /\ e.type = "CHARGEBACK" => HasChargeback(e.inv)

(* A log row that takes credit carries the key of fund; one that gives it  *)
(* back has one that took it.                                              *)
LogFacts ==
  \A l \in creditLog :
    /\ l.part = "credit-limit" => l.key = DefaultKey("fund", l.inv)
    /\ l.part = "credit-limit-restore" => HasLog(l.inv, "credit-limit")

(* What the status of an invoice implies.                                  *)
StatusFacts ==
  \A i \in Invoice :
    /\ invoice[i].status = "FUNDED" =>
         /\ HasEntry(i, "FUNDING_DISBURSEMENT")
         /\ HasEntry(i, "RESERVE_HOLD")
         /\ HasLog(i, "credit-limit")
    /\ invoice[i].status = "SETTLED" =>
         matchedTo[i] >= Amount[i] /\ HasEntry(i, "RESERVE_RELEASE")
    /\ invoice[i].status = "CHARGED_BACK" => HasEntry(i, "CHARGEBACK")

(* What a call in flight still knows to be true of what it once read.      *)
CallFacts(c) ==
  /\ c.key = DefaultKey(c.op, c.inv)
  /\ c.to = "FUNDED" => c.op \in {"fund", "placeHold", "releaseHold"}
  /\ c.to = "SETTLED" => c.op = "settle"
  /\ c.to = "CHARGED_BACK" => c.op = "chargeback"
  /\ c.pc = "tx" =>
       /\ \A t \in c.found \cap EntryType : Recorded(c.key, t)
       /\ \A p \in c.found \cap LogPart : Logged(c.key, p)
  /\ c.op = "settle" =>
       /\ HasEntry(c.inv, "RESERVE_HOLD") /\ c.amount = Reserve(c.inv)
       /\ c.pc \in {"checked", "tx"} => matchedTo[c.inv] >= Amount[c.inv]
  /\ c.op \in {"settle", "chargeback"} => HasLog(c.inv, "credit-limit")
  /\ c.op = "writeOff" =>
       /\ HasEntry(c.inv, "CHARGEBACK")
       /\ c.pc = "checked" =>
            \E b \in chargebacks : b.inv = c.inv /\ b.amount = c.amount
  /\ c.pc = "notify" =>
       /\ c.to = "FUNDED" => HasEntry(c.inv, "FUNDING_DISBURSEMENT")
       /\ c.to = "CHARGED_BACK" => HasEntry(c.inv, "CHARGEBACK")

TableFacts ==
  /\ LedgerKeys /\ NoDoubleEntry
  /\ EntryFacts /\ WriteOffMatchesChargeback
  /\ LogFacts /\ StatusFacts /\ NotifiedAfterCommit

MoneyInv ==
  /\ ClientKeys = {}
  /\ TypeInv
  /\ TableFacts
  /\ \A c \in calls : CallFacts(c)

-----------------------------------------------------------------------------
(* What a committed step may never take back.                              *)
Grows ==
  /\ ledger \subseteq ledger' /\ creditLog \subseteq creditLog'
  /\ \A i \in Invoice : matchedTo'[i] >= matchedTo[i]
  /\ \A b \in chargebacks :
       \E d \in chargebacks' : d.inv = b.inv /\ d.amount = b.amount

(* A step that moves no money: the ledger, the log and the chargebacks are *)
(* left alone, a created invoice keeps its reserve, and no status that     *)
(* claims money has moved is entered.                                      *)
Quiet ==
  /\ UNCHANGED <<ledger, creditLog, chargebacks>>
  /\ \A i \in Invoice :
       /\ matchedTo'[i] >= matchedTo[i]
       /\ Exists(i) => /\ Exists(i)'
                       /\ invoice'[i].reserveAmount = invoice[i].reserveAmount
       /\ \/ invoice'[i].status = invoice[i].status
          \/ invoice'[i].status \notin {"FUNDED", "SETTLED", "CHARGED_BACK"}

(* Default keys of two handlers, or for two invoices, never collide.       *)
LEMMA KeyInjective ==
  \A o, p, i, j : DefaultKey(o, i) = DefaultKey(p, j) => o = p /\ i = j
  BY DEF DefaultKey

(* What is in the ledger and the log stays there.                          *)
LEMMA HasGrown ==
  ASSUME Grows
  PROVE  /\ \A i, t : HasEntry(i, t) => HasEntry(i, t)'
         /\ \A i, p : HasLog(i, p) => HasLog(i, p)'
         /\ \A k, t : Recorded(k, t) => Recorded(k, t)'
         /\ \A k, p : Logged(k, p) => Logged(k, p)'
         /\ \A i : HasChargeback(i) => HasChargeback(i)'
  BY DEF Grows, HasEntry, HasLog, Recorded, Logged, HasChargeback

(* So what a call knows stays true while others commit.                    *)
LEMMA CallFactsKept ==
  ASSUME TypeInv, TypeInv', Grows, NEW c \in Call, CallFacts(c)
  PROVE  CallFacts(c)'
<1>1. c.inv \in Invoice
  BY DEF Call
<1>2. /\ matchedTo[c.inv] \in Int /\ matchedTo'[c.inv] \in Int
      /\ Amount[c.inv] \in Int /\ matchedTo'[c.inv] >= matchedTo[c.inv]
  BY <1>1, StoreAssumption DEF StoreAssumption, TypeInv, TypeOK, Grows
<1>3. matchedTo[c.inv] >= Amount[c.inv] => matchedTo'[c.inv] >= Amount[c.inv]
  BY <1>2
<1>4. (\E b \in chargebacks : b.inv = c.inv /\ b.amount = c.amount)
        => \E b \in chargebacks' : b.inv = c.inv /\ b.amount = c.amount
  BY DEF Grows
<1>5. \A t \in EntryType : Recorded(c.key, t) => Recorded(c.key, t)'
  BY HasGrown
<1>6. \A q \in LogPart : Logged(c.key, q) => Logged(c.key, q)'
  BY HasGrown
<1>7. /\ HasEntry(c.inv, "RESERVE_HOLD") => HasEntry(c.inv, "RESERVE_HOLD")'
      /\ HasEntry(c.inv, "CHARGEBACK") => HasEntry(c.inv, "CHARGEBACK")'
      /\ HasEntry(c.inv, "FUNDING_DISBURSEMENT")
           => HasEntry(c.inv, "FUNDING_DISBURSEMENT")'
      /\ HasLog(c.inv, "credit-limit") => HasLog(c.inv, "credit-limit")'
  BY HasGrown
<1> QED BY <1>3, <1>4, <1>5, <1>6, <1>7 DEF CallFacts

(* A quiet step keeps every fact about the tables.                         *)
LEMMA QuietKeeps ==
  ASSUME TypeInv, TypeInv', TableFacts, Quiet
  PROVE  /\ Grows
         /\ LedgerKeys' /\ NoDoubleEntry' /\ EntryFacts'
         /\ WriteOffMatchesChargeback' /\ LogFacts' /\ StatusFacts'
         /\ NotifiedAfterCommit => (notified' = notified => NotifiedAfterCommit')
<1>1. Grows
  BY DEF Quiet, Grows
<1>2. /\ \A i, t : HasEntry(i, t)' <=> HasEntry(i, t)
      /\ \A i, p : HasLog(i, p)' <=> HasLog(i, p)
      /\ \A i : HasChargeback(i)' <=> HasChargeback(i)
  BY DEF Quiet, HasEntry, HasLog, HasChargeback
<1>3. LedgerKeys' /\ NoDoubleEntry'
  BY DEF Quiet, TableFacts, LedgerKeys, NoDoubleEntry
<1>4. EntryFacts'
  <2> SUFFICES ASSUME NEW e \in ledger'
               PROVE  /\ Exists(e.inv)'
                      /\ e.type = "RESERVE_HOLD" =>
                           /\ e.amount = Reserve(e.inv)
                           /\ invoice'[e.inv].reserveAmount = Reserve(e.inv)
                      /\ e.type = "RESERVE_RELEASE" =>
                           /\ e.amount = Reserve(e.inv)
                           /\ HasEntry(e.inv, "RESERVE_HOLD")'
                      /\ e.type = "CHARGEBACK" => HasChargeback(e.inv)'
    BY DEF EntryFacts, Reserve
  <2>1. e \in ledger /\ e.inv \in Invoice
    BY DEF Quiet, TypeInv, TypeOK, Entry
  <2>2. /\ Exists(e.inv)'
        /\ invoice'[e.inv].reserveAmount = invoice[e.inv].reserveAmount
    BY <2>1 DEF TableFacts, EntryFacts, Quiet
  <2> QED BY <2>1, <2>2, <1>2 DEF TableFacts, EntryFacts
<1>5. WriteOffMatchesChargeback'
  BY <1>2 DEF TableFacts, WriteOffMatchesChargeback, Quiet
<1>6. LogFacts'
  BY <1>2 DEF TableFacts, LogFacts, Quiet
<1>7. StatusFacts'
  <2> SUFFICES ASSUME NEW i \in Invoice
               PROVE  /\ invoice'[i].status = "FUNDED" =>
                           /\ HasEntry(i, "FUNDING_DISBURSEMENT")'
                           /\ HasEntry(i, "RESERVE_HOLD")'
                           /\ HasLog(i, "credit-limit")'
                      /\ invoice'[i].status = "SETTLED" =>
                           /\ matchedTo'[i] >= Amount[i]
                           /\ HasEntry(i, "RESERVE_RELEASE")'
                      /\ invoice'[i].status = "CHARGED_BACK" =>
                           HasEntry(i, "CHARGEBACK")'
    BY DEF StatusFacts
  <2>1. /\ matchedTo[i] \in Int /\ matchedTo'[i] \in Int /\ Amount[i] \in Int
        /\ matchedTo'[i] >= matchedTo[i]
    BY StoreAssumption DEF StoreAssumption, TypeInv, TypeOK, Quiet
  <2>2. matchedTo[i] >= Amount[i] => matchedTo'[i] >= Amount[i]
    BY <2>1
  <2> QED BY <2>2, <1>2 DEF TableFacts, StatusFacts, Quiet
<1>8. NotifiedAfterCommit => (notified' = notified => NotifiedAfterCommit')
  BY <1>2 DEF NotifiedAfterCommit
<1> QED BY <1>1, <1>3, <1>4, <1>5, <1>6, <1>7, <1>8

(* A quiet step that only answers calls keeps the invariant.               *)
LEMMA QuietAnswer ==
  ASSUME MoneyInv, TypeInv', Quiet, UNCHANGED notified, calls' \subseteq calls
  PROVE  MoneyInv'
<1>1. TypeInv /\ TableFacts /\ NotifiedAfterCommit
  BY DEF MoneyInv, TableFacts
<1>2. Grows /\ TableFacts'
  BY <1>1, QuietKeeps DEF TableFacts
<1>3. \A c \in calls : c \in Call /\ CallFacts(c)
  BY DEF MoneyInv, TypeInv, TypeOK
<1>4. \A c \in calls : CallFacts(c)'
  BY <1>1, <1>2, <1>3, CallFactsKept
<1> QED BY <1>2, <1>4 DEF MoneyInv

(* So does one that leaves a call d in flight of which the facts hold.     *)
LEMMA QuietStep ==
  ASSUME MoneyInv, TypeInv', Quiet, UNCHANGED notified,
         NEW d, calls' \subseteq calls \cup {d}, CallFacts(d)'
  PROVE  MoneyInv'
<1>1. TypeInv /\ TableFacts /\ NotifiedAfterCommit
  BY DEF MoneyInv, TableFacts
<1>2. Grows /\ TableFacts'
  BY <1>1, QuietKeeps DEF TableFacts
<1>3. \A c \in calls : c \in Call /\ CallFacts(c)
  BY DEF MoneyInv, TypeInv, TypeOK
<1>4. \A c \in calls : CallFacts(c)'
  BY <1>1, <1>2, <1>3, CallFactsKept
<1> QED BY <1>2, <1>4 DEF MoneyInv

-----------------------------------------------------------------------------
(* Requests, side tables and status changes.                               *)

(* A request that arrives brings facts that hold of what it has read.      *)
LEMMA BeginKeeps ==
  ASSUME MoneyInv, TypeInv',
         NEW op, NEW i \in Invoice, NEW from, NEW to, NEW amount,
         Begin(op, i, DefaultKey(op, i), from, to, amount),
         to = "FUNDED" => op \in {"fund", "placeHold", "releaseHold"},
         to = "SETTLED" => op = "settle",
         to = "CHARGED_BACK" => op = "chargeback",
         op = "settle" => HasEntry(i, "RESERVE_HOLD") /\ amount = Reserve(i),
         op \in {"settle", "chargeback"} => HasLog(i, "credit-limit"),
         op = "writeOff" => HasEntry(i, "CHARGEBACK")
  PROVE  MoneyInv'
<1>1. PICK r \in Request :
        calls' = calls \cup
          {[req |-> r, op |-> op, pc |-> "begun", inv |-> i,
            key |-> DefaultKey(op, i), from |-> from, to |-> to,
            amount |-> amount, row |-> NoRow, found |-> {}, used |-> 0]}
  BY DEF Begin
<1> DEFINE d == [req |-> r, op |-> op, pc |-> "begun", inv |-> i,
                 key |-> DefaultKey(op, i), from |-> from, to |-> to,
                 amount |-> amount, row |-> NoRow, found |-> {}, used |-> 0]
<1>2. Quiet /\ UNCHANGED notified
  BY DEF Begin, tables, Quiet, Exists, MoneyInv, TypeInv, TypeOK
<1>3. Grows
  BY <1>2, QuietKeeps DEF MoneyInv
<1>4. CallFacts(d)
  BY DEF CallFacts
<1>5. d \in Call
  BY <1>1 DEF TypeInv, TypeOK
<1>6. CallFacts(d)'
  BY <1>3, <1>4, <1>5, CallFactsKept DEF MoneyInv
<1> HIDE DEF d
<1> QED BY <1>1, <1>2, <1>6, QuietStep DEF d

(* A request that moves no money.                                          *)
LEMMA BeginPlainKeeps ==
  ASSUME MoneyInv, TypeInv', NEW op, NEW i \in Invoice, NEW from, NEW to,
         BeginPlain(op, i, from, to),
         \/ /\ op \notin {"fund", "settle", "chargeback", "writeOff"}
            /\ to \notin {"FUNDED", "SETTLED", "CHARGED_BACK"}
         \/ op \in {"placeHold", "releaseHold"} /\ to = "FUNDED"
  PROVE  MoneyInv'
  BY BeginKeeps DEF BeginPlain

(* Without keys of their own clients leave a money call its default key.   *)
LEMMA BeginMoneyDefault ==
  ASSUME MoneyInv, NEW op, NEW i, NEW from, NEW to, NEW amount,
         BeginMoney(op, i, from, to, amount)
  PROVE  Begin(op, i, DefaultKey(op, i), from, to, amount)
  BY DEF BeginMoney, KeysFor, MoneyInv

(* A step that leaves every table alone and moves one call on.             *)
LEMMA MoveOnKeeps ==
  ASSUME MoneyInv, TypeInv', NEW c \in calls, NEW d \in Call, Become(c, d),
         UNCHANGED tables, CallFacts(d)
  PROVE  MoneyInv'
<1>1. Quiet /\ UNCHANGED notified
  BY DEF tables, Quiet, Exists, MoneyInv, TypeInv, TypeOK
<1>2. Grows
  BY <1>1, QuietKeeps DEF MoneyInv
<1>3. CallFacts(d)' /\ calls' \subseteq calls \cup {d}
  BY <1>2, CallFactsKept DEF MoneyInv, Become
<1> QED BY <1>1, <1>3, QuietStep

(* A step that answers a call and changes no status nor money.             *)
LEMMA SideStepKeeps ==
  ASSUME MoneyInv, TypeInv', calls' \subseteq calls,
         UNCHANGED <<ledger, creditLog, chargebacks, matchedTo, notified>>,
         \A i \in Invoice :
           /\ invoice'[i].status = invoice[i].status
           /\ invoice'[i].reserveAmount = invoice[i].reserveAmount
  PROVE  MoneyInv'
<1>1. Quiet
  BY DEF Quiet, Exists, MoneyInv, TypeInv, TypeOK
<1> QED BY <1>1, QuietAnswer

(* A status change that moves no money is quiet.                           *)
LEMMA StatusChangeQuiet ==
  ASSUME MoneyInv, NEW c \in calls, NEW r,
         WriteStatusChange(c, r), r = invoice[c.inv].reserveAmount \/ ~ Exists(c.inv),
         c.op \notin {"fund", "placeHold", "releaseHold", "settle", "chargeback"},
         UNCHANGED <<ledger, creditLog, chargebacks, matchedTo>>
  PROVE  Quiet
<1>1. c \in Call /\ CallFacts(c)
  BY DEF MoneyInv, TypeInv, TypeOK
<1>2. c.to \in InvoiceStatus /\ c.to \notin {"FUNDED", "SETTLED", "CHARGED_BACK"}
  BY <1>1 DEF CallFacts, Call
<1>3. c.to # "NONE"
  BY <1>2 DEF InvoiceStatus
<1>4. \A i \in Invoice : matchedTo'[i] >= matchedTo[i]
  BY DEF MoneyInv, TypeInv, TypeOK
<1> QED
  BY <1>1, <1>2, <1>3, <1>4
     DEF WriteStatusChange, Quiet, Exists, MoneyInv, TypeInv, TypeOK, InvoiceRow

(* What is left of a call that is about to notify.                         *)
LEMMA NotifyCall ==
  ASSUME TypeOK, NEW c \in calls, RespondNotify(c)
  PROVE  \E d : /\ calls' = (calls \ {c}) \cup {d}
                /\ d.op = c.op /\ d.inv = c.inv /\ d.key = c.key
                /\ d.to = c.to /\ d.pc = "notify"
<1> DEFINE zero == 0
           none == {}
           d == [c EXCEPT !.pc = "notify", !.amount = zero, !.row = NoRow,
                          !.found = none, !.used = zero]
<1>1. calls' = (calls \ {c}) \cup {d}
  BY DEF RespondNotify, Become
<1> HIDE DEF zero, none
<1>2. c \in Call
  BY DEF TypeOK
<1>3. /\ d.op = c.op /\ d.inv = c.inv /\ d.key = c.key
      /\ d.to = c.to /\ d.pc = "notify"
  BY <1>2 DEF Call
<1> HIDE DEF d
<1> QED BY <1>1, <1>3

(* No handler before funding disturbs what the money handlers promise.     *)
LEMMA IntakeKeeps ==
  ASSUME MoneyInv, TypeInv', IntakeNext
  PROVE  MoneyInv'
<1>1. ASSUME NEW i \in Invoice, CreateBegin(i) PROVE MoneyInv'
  BY <1>1, BeginPlainKeeps DEF CreateBegin
<1>2. ASSUME NEW i \in Invoice, AttachDocument(i) PROVE MoneyInv'
  BY <1>2, SideStepKeeps DEF AttachDocument
<1>3. ASSUME NEW i \in Invoice, RunExtraction(i) PROVE MoneyInv'
  BY <1>3, BeginPlainKeeps DEF RunExtraction
<1>4. ASSUME NEW i \in Invoice, SubmitForApproval(i) PROVE MoneyInv'
  BY <1>4, BeginPlainKeeps DEF SubmitForApproval
<1>5. ASSUME NEW i \in Invoice, McApprove(i) PROVE MoneyInv'
  BY <1>5, BeginPlainKeeps DEF McApprove
<1>6. ASSUME NEW i \in Invoice, McDisputeBegin(i) PROVE MoneyInv'
  BY <1>6, BeginPlainKeeps DEF McDisputeBegin
<1>7. ASSUME NEW i \in Invoice, RespondToInfoRequest(i) PROVE MoneyInv'
  BY <1>7, BeginPlainKeeps DEF RespondToInfoRequest
<1>8. ASSUME NEW i \in Invoice, Cancel(i) PROVE MoneyInv'
  BY <1>8, BeginPlainKeeps DEF Cancel
<1>9. ASSUME NEW i \in Invoice, NEW to \in InvoiceStatus, Underwrite(i, to)
      PROVE  MoneyInv'
  BY <1>9, BeginPlainKeeps DEF Underwrite
<1>10. ASSUME NEW i \in Invoice, NEW to \in InvoiceStatus,
              ResolveDisputeBegin(i, to)
       PROVE  MoneyInv'
  BY <1>10, BeginPlainKeeps DEF ResolveDisputeBegin
<1>11. ASSUME NEW c \in calls, Create(c) PROVE MoneyInv'
  <2>1. Quiet
    BY <1>11, StatusChangeQuiet DEF Create, At
  <2> QED BY <1>11, <2>1, QuietAnswer DEF Create, Respond
<1>12. ASSUME NEW c \in calls, ExtractionStarted(c) PROVE MoneyInv'
  <2>1. Quiet /\ UNCHANGED notified
    BY <1>12, StatusChangeQuiet DEF ExtractionStarted, At
  <2> DEFINE d == [c EXCEPT !.pc = "ocr", !.from = "EXTRACTING",
                            !.to = "PENDING_BROKER_REVIEW"]
  <2>2. c \in Call /\ CallFacts(c) /\ c.op = "extract"
    BY <1>12 DEF MoneyInv, TypeInv, TypeOK, ExtractionStarted, At
  <2>3. d \in Call
    BY <2>2 DEF Call, InvoiceStatus
  <2>4. CallFacts(d)
    BY <2>2 DEF CallFacts, Call
  <2>5. CallFacts(d)'
    BY <2>1, <2>3, <2>4, QuietKeeps, CallFactsKept DEF MoneyInv
  <2>6. calls' \subseteq calls \cup {d}
    BY <1>12 DEF ExtractionStarted, Become
  <2> QED BY <2>1, <2>5, <2>6, QuietStep
<1>13. ASSUME NEW c \in calls, ExtractionDone(c) PROVE MoneyInv'
  <2>1. Quiet
    BY <1>13, StatusChangeQuiet DEF ExtractionDone, At
  <2> QED BY <1>13, <2>1, QuietAnswer DEF ExtractionDone, Respond
<1>14. ASSUME NEW c \in calls, UnderwriteCheck(c) PROVE MoneyInv'
  <2>1. c \in Call /\ CallFacts(c) /\ c.op = "underwrite"
    BY <1>14 DEF MoneyInv, TypeInv, TypeOK, UnderwriteCheck, At
  <2>2. [c EXCEPT !.pc = "checked"] \in Call
    BY <2>1 DEF Call
  <2>3. CallFacts([c EXCEPT !.pc = "checked"])
    BY <2>1 DEF CallFacts, Call
  <2> QED BY <1>14, <2>2, <2>3, MoveOnKeeps DEF UnderwriteCheck
<1>15. ASSUME NEW c \in calls, ChangeStatus(c) PROVE MoneyInv'
  <2>1. Quiet /\ UNCHANGED notified
    BY <1>15, StatusChangeQuiet DEF ChangeStatus, ReadyToChangeStatus, At
  <2>2. CASE Notifies(c)
    <3>1. c.op \in {"submit", "underwrite"} /\ CallFacts(c)
      BY <2>2 DEF Notifies, MoneyInv
    <3>2. PICK d : /\ calls' = (calls \ {c}) \cup {d}
                   /\ d.op = c.op /\ d.inv = c.inv /\ d.key = c.key
                   /\ d.to = c.to /\ d.pc = "notify"
      BY <1>15, <2>2, NotifyCall DEF ChangeStatus, MoneyInv, TypeInv
    <3>3. CallFacts(d)'
      BY <3>1, <3>2 DEF CallFacts
    <3> QED BY <2>1, <3>2, <3>3, QuietStep
  <2>3. CASE ~ Notifies(c)
    BY <1>15, <2>1, <2>3, QuietAnswer DEF ChangeStatus, Respond
  <2> QED BY <2>2, <2>3
<1>16. ASSUME NEW c \in calls, McDispute(c) PROVE MoneyInv'
  <2>1. Quiet /\ UNCHANGED notified
    BY <1>16, StatusChangeQuiet DEF McDispute, At
  <2>2. c.op = "mcDispute" /\ CallFacts(c)
    BY <1>16 DEF McDispute, At, MoneyInv
  <2>3. PICK d : /\ calls' = (calls \ {c}) \cup {d}
                 /\ d.op = c.op /\ d.inv = c.inv /\ d.key = c.key
                 /\ d.to = c.to /\ d.pc = "notify"
    BY <1>16, NotifyCall DEF McDispute, MoneyInv, TypeInv
  <2>4. CallFacts(d)'
    BY <2>2, <2>3 DEF CallFacts
  <2> QED BY <2>1, <2>3, <2>4, QuietStep
<1>17. ASSUME NEW c \in calls, ResolveDisputeFind(c) PROVE MoneyInv'
  <2>1. c \in Call /\ CallFacts(c) /\ c.op = "resolve"
    BY <1>17 DEF MoneyInv, TypeInv, TypeOK, ResolveDisputeFind, At
  <2>2. PICK row \in RowId \cup {NoRow} :
          Become(c, [c EXCEPT !.pc = "checked", !.row = row])
    BY <1>17 DEF ResolveDisputeFind, OpenDisputes, Dispute, MoneyInv, TypeInv,
                 TypeOK
  <2>3. [c EXCEPT !.pc = "checked", !.row = row] \in Call
    BY <2>1 DEF Call
  <2>4. CallFacts([c EXCEPT !.pc = "checked", !.row = row])
    BY <2>1 DEF CallFacts, Call
  <2> QED BY <1>17, <2>2, <2>3, <2>4, MoveOnKeeps DEF ResolveDisputeFind
<1>18. ASSUME NEW c \in calls, ResolveDispute(c) PROVE MoneyInv'
  <2>1. Quiet
    BY <1>18, StatusChangeQuiet DEF ResolveDispute, At
  <2> QED BY <1>18, <2>1, QuietAnswer DEF ResolveDispute, Respond
<1> QED
  BY <1>1, <1>2, <1>3, <1>4, <1>5, <1>6, <1>7, <1>8, <1>9, <1>10, <1>11,
     <1>12, <1>13, <1>14, <1>15, <1>16, <1>17, <1>18 DEF IntakeNext

-----------------------------------------------------------------------------
(* The transactions that move money.                                       *)

(* record under default keys adds at most one entry per invoice and type,  *)
(* and leaves every entry it was asked for in the ledger.                  *)
LEMMA RecordKeeps ==
  ASSUME LedgerKeys, NoDoubleEntry, NEW op, NEW i, NEW d, NEW entries,
         Record(d, entries),
         \A e \in entries : /\ e.key = DefaultKey(op, i) /\ e.inv = i
                            /\ WriterOf(e.type) = op /\ e.type \in EntryType,
         \A e, f \in entries : e.type = f.type => e = f,
         \A t \in d.found \cap EntryType : Recorded(DefaultKey(op, i), t)
  PROVE  /\ LedgerKeys' /\ NoDoubleEntry' /\ ledger \subseteq ledger'
         /\ ledger' \subseteq ledger \cup entries
         /\ \A e \in entries : HasEntry(i, e.type)'
<1>1. ledger' = ledger \cup {e \in entries : e.type \notin d.found}
  BY DEF Record
<1>2. LedgerKeys'
  BY <1>1 DEF LedgerKeys
<1>3. \A e \in entries : e.type \notin d.found =>
        \A f \in ledger : ~ (f.inv = i /\ f.type = e.type)
  <2> SUFFICES ASSUME NEW e \in entries, e.type \notin d.found,
                      NEW f \in ledger, f.inv = i, f.type = e.type
               PROVE  FALSE
    OBVIOUS
  <2>1. f.key = DefaultKey(op, i)
    BY DEF LedgerKeys
  <2> QED BY <2>1 DEF Record, Recorded
<1>4. NoDoubleEntry'
  BY <1>1, <1>3 DEF NoDoubleEntry
<1>5. ASSUME NEW e \in entries PROVE HasEntry(i, e.type)'
  <2>1. CASE e.type \notin d.found
    BY <1>1, <2>1 DEF HasEntry
  <2>2. CASE e.type \in d.found
    <3>1. PICK f \in ledger : f.key = DefaultKey(op, i) /\ f.type = e.type
      BY <2>2 DEF Recorded
    <3>2. f.inv = i
      BY <3>1, KeyInjective DEF LedgerKeys
    <3> QED BY <1>1, <3>1, <3>2 DEF HasEntry
  <2> QED BY <2>1, <2>2
<1> QED BY <1>1, <1>2, <1>4, <1>5

(* applyDelta adds at most the one row it was asked for.                   *)
LEMMA ApplyDeltaKeeps ==
  ASSUME NEW c, NEW part, NEW reason, NEW delta,
         ApplyDelta(c, part, reason, delta)
  PROVE  /\ creditLog \subseteq creditLog'
         /\ \A l \in creditLog' : \/ l \in creditLog
                                  \/ l.part = part /\ l.inv = c.inv /\ l.key = c.key
         /\ part \notin c.found => HasLog(c.inv, part)'
<1> DEFINE row == [key |-> c.key, part |-> part, inv |-> c.inv,
                   reason |-> reason, delta |-> delta]
<1>1. row.part = part /\ row.inv = c.inv /\ row.key = c.key
  OBVIOUS
<1>2. CASE part \in c.found
  BY <1>2 DEF ApplyDelta
<1>3. CASE part \notin c.found
  <2>1. creditLog' = creditLog \cup {row}
    BY <1>3 DEF ApplyDelta
  <2> HIDE DEF row
  <2> QED BY <1>1, <2>1 DEF HasLog
<1> QED BY <1>2, <1>3

(* A money transaction changes the status of its own invoice only, and     *)
(* never makes an invoice disappear.                                       *)
LEMMA WriteStatusKeeps ==
  ASSUME TypeOK, NEW c \in calls, NEW r, WriteStatusChange(c, r)
  PROVE  /\ c.inv \in Invoice
         /\ invoice'[c.inv].status = c.to /\ c.to # "NONE"
         /\ invoice'[c.inv].reserveAmount = r
         /\ \A i \in Invoice \ {c.inv} : invoice'[i] = invoice[i]
<1>1. c.inv \in Invoice /\ c.to \in InvoiceStatus
  BY DEF TypeOK, Call
<1> QED BY <1>1 DEF WriteStatusChange, TypeOK, InvoiceRow, InvoiceStatus

(* fund's four writes keep the promises: the entries it finds taken were   *)
(* written by another fund of the same invoice.                            *)
LEMMA FundKeeps ==
  ASSUME MoneyInv, TypeInv', NEW c \in calls, Fund(c)
  PROVE  MoneyInv'
<1>1. /\ TypeInv /\ TypeOK /\ TableFacts /\ CallFacts(c) /\ c \in Call
      /\ c.op = "fund" /\ c.pc = "tx" /\ c.inv \in Invoice
      /\ c.key = DefaultKey("fund", c.inv)
  BY DEF MoneyInv, TypeInv, TypeOK, Call, CallFacts, Fund, At
<1> DEFINE entries == {EntryOf(c, "FUNDING_DISBURSEMENT", Advance(c.inv)),
                       EntryOf(c, "RESERVE_HOLD", Reserve(c.inv))}
<1>2. \A e \in entries :
        /\ e.key = DefaultKey("fund", c.inv) /\ e.inv = c.inv
        /\ WriterOf(e.type) = "fund" /\ e.type \in EntryType
        /\ e.type = "FUNDING_DISBURSEMENT" \/ e.type = "RESERVE_HOLD"
        /\ e.type = "RESERVE_HOLD" => e.amount = Reserve(c.inv)
  BY <1>1 DEF EntryOf, WriterOf, EntryType
<1>3. \A e, f \in entries : e.type = f.type => e = f
  BY DEF EntryOf
<1>4. \E e, f \in entries : /\ e.type = "FUNDING_DISBURSEMENT"
                            /\ f.type = "RESERVE_HOLD"
  BY DEF EntryOf
<1>5. Record(c, entries)
  BY DEF Fund
<1>6. \A t \in c.found \cap EntryType : Recorded(DefaultKey("fund", c.inv), t)
  BY <1>1 DEF CallFacts
<1> HIDE DEF entries
<1>7. /\ LedgerKeys' /\ NoDoubleEntry' /\ ledger \subseteq ledger'
      /\ ledger' \subseteq ledger \cup entries
      /\ \A e \in entries : HasEntry(c.inv, e.type)'
  BY <1>1, <1>2, <1>3, <1>5, <1>6, RecordKeeps DEF TableFacts
<1>8. /\ HasEntry(c.inv, "FUNDING_DISBURSEMENT")'
      /\ HasEntry(c.inv, "RESERVE_HOLD")'
  BY <1>4, <1>7
<1>9. /\ creditLog \subseteq creditLog'
      /\ \A l \in creditLog' :
           \/ l \in creditLog
           \/ l.part = "credit-limit" /\ l.inv = c.inv /\ l.key = c.key
      /\ "credit-limit" \notin c.found => HasLog(c.inv, "credit-limit")'
  BY ApplyDeltaKeeps DEF Fund
<1>10. HasLog(c.inv, "credit-limit")'
  <2>1. CASE "credit-limit" \in c.found
    <3>1. PICK l \in creditLog : l.key = c.key /\ l.part = "credit-limit"
      BY <1>1, <2>1 DEF CallFacts, LogPart, Logged
    <3>2. l.inv = c.inv
      BY <1>1, <3>1, KeyInjective DEF TableFacts, LogFacts
    <3> QED BY <1>9, <3>1, <3>2 DEF HasLog
  <2> QED BY <1>9, <2>1
<1>11. /\ invoice'[c.inv].status = c.to /\ c.to # "NONE"
       /\ invoice'[c.inv].reserveAmount = Reserve(c.inv)
       /\ \A i \in Invoice \ {c.inv} : invoice'[i] = invoice[i]
  BY <1>1, WriteStatusKeeps DEF Fund
<1>12. Grows
  BY <1>1, <1>7, <1>9 DEF Grows, Fund, TypeOK
<1>13. EntryFacts'
  <2> SUFFICES ASSUME NEW e \in ledger'
               PROVE  /\ Exists(e.inv)'
                      /\ e.type = "RESERVE_HOLD" =>
                           /\ e.amount = Reserve(e.inv)
                           /\ invoice'[e.inv].reserveAmount = Reserve(e.inv)
                      /\ e.type = "RESERVE_RELEASE" =>
                           /\ e.amount = Reserve(e.inv)
                           /\ HasEntry(e.inv, "RESERVE_HOLD")'
                      /\ e.type = "CHARGEBACK" => HasChargeback(e.inv)'
    BY DEF EntryFacts, Reserve
  <2>1. CASE e \in entries
    BY <1>2, <1>11, <2>1 DEF Exists
  <2>2. CASE e \in ledger
    <3>1. e.inv \in Invoice
      BY <1>1, <2>2 DEF TypeOK, Entry
    <3> QED BY <1>1, <1>11, <1>12, <2>2, <3>1, HasGrown
            DEF TableFacts, EntryFacts, Exists
  <2> QED BY <1>7, <2>1, <2>2
<1>14. WriteOffMatchesChargeback'
  BY <1>1, <1>2, <1>7, <1>12, HasGrown
     DEF TableFacts, WriteOffMatchesChargeback, Fund
<1>15. LogFacts'
  BY <1>1, <1>9, <1>12, HasGrown DEF TableFacts, LogFacts
<1>16. StatusFacts'
  BY <1>1, <1>8, <1>10, <1>11, <1>12, HasGrown
     DEF TableFacts, StatusFacts, CallFacts, Fund
<1>17. NotifiedAfterCommit'
  BY <1>1, <1>12, HasGrown DEF TableFacts, NotifiedAfterCommit, Fund
<1>18. PICK d : /\ calls' = (calls \ {c}) \cup {d}
                /\ d.op = c.op /\ d.inv = c.inv /\ d.key = c.key
                /\ d.to = c.to /\ d.pc = "notify"
  BY <1>1, NotifyCall DEF Fund
<1>19. CallFacts(d)'
  BY <1>1, <1>8, <1>18 DEF CallFacts
<1>20. \A x \in calls : CallFacts(x)'
  BY <1>1, <1>12, CallFactsKept DEF MoneyInv, TypeOK
<1> QED
  BY <1>7, <1>13, <1>14, <1>15, <1>16, <1>17, <1>18, <1>19, <1>20
     DEF MoneyInv, TableFacts

(* The entry settle, chargeback or write-off adds carries its default key. *)
LEMMA OneEntryKeeps ==
  ASSUME LedgerKeys, NoDoubleEntry, NEW c, NEW d, NEW type \in EntryType, NEW amount,
         Record(d, {EntryOf(c, type, amount)}),
         c.key = DefaultKey(WriterOf(type), c.inv),
         \A t \in d.found \cap EntryType : Recorded(c.key, t)
  PROVE  /\ LedgerKeys' /\ NoDoubleEntry' /\ ledger \subseteq ledger'
         /\ \A e \in ledger' :
              \/ e \in ledger
              \/ e.type = type /\ e.inv = c.inv /\ e.amount = amount
         /\ HasEntry(c.inv, type)'
<1> DEFINE e == EntryOf(c, type, amount)
<1>1. /\ e.key = DefaultKey(WriterOf(type), c.inv) /\ e.inv = c.inv
      /\ e.type = type /\ e.amount = amount
  BY DEF EntryOf
<1> HIDE DEF e
<1>2. Record(d, {e})
  BY DEF e
<1>3. /\ LedgerKeys' /\ NoDoubleEntry' /\ ledger \subseteq ledger'
      /\ ledger' \subseteq ledger \cup {e}
      /\ \A f \in {e} : HasEntry(c.inv, f.type)'
  BY <1>1, <1>2, RecordKeeps
<1> QED BY <1>1, <1>3

(* Releasing the reserve keeps the promises: the reserve it read before    *)
(* its transaction is the one fund held.                                   *)
LEMMA SettleKeeps ==
  ASSUME MoneyInv, TypeInv', NEW c \in calls, Settle(c)
  PROVE  MoneyInv'
<1>1. /\ TypeInv /\ TypeOK /\ TableFacts /\ CallFacts(c) /\ c \in Call
      /\ c.op = "settle" /\ c.pc = "tx" /\ c.inv \in Invoice
      /\ c.key = DefaultKey(WriterOf("RESERVE_RELEASE"), c.inv)
  BY DEF MoneyInv, TypeInv, TypeOK, Call, CallFacts, Settle, At, WriterOf
<1>2. /\ HasEntry(c.inv, "RESERVE_HOLD") /\ c.amount = Reserve(c.inv)
      /\ HasLog(c.inv, "credit-limit") /\ matchedTo[c.inv] >= Amount[c.inv]
  BY <1>1 DEF CallFacts
<1>3. /\ LedgerKeys' /\ NoDoubleEntry' /\ ledger \subseteq ledger'
      /\ \A e \in ledger' :
           \/ e \in ledger
           \/ /\ e.type = "RESERVE_RELEASE" /\ e.inv = c.inv
              /\ e.amount = c.amount
      /\ HasEntry(c.inv, "RESERVE_RELEASE")'
  BY <1>1, OneEntryKeeps DEF TableFacts, CallFacts, Settle, EntryType
<1>4. /\ creditLog \subseteq creditLog'
      /\ \A l \in creditLog' :
           \/ l \in creditLog
           \/ l.part = "credit-limit-restore" /\ l.inv = c.inv
  BY ApplyDeltaKeeps DEF Settle
<1>5. /\ invoice'[c.inv].status = c.to /\ c.to # "NONE"
      /\ invoice'[c.inv].reserveAmount = invoice[c.inv].reserveAmount
      /\ \A i \in Invoice \ {c.inv} : invoice'[i] = invoice[i]
  BY <1>1, WriteStatusKeeps DEF Settle
<1>6. Grows
  BY <1>1, <1>3, <1>4 DEF Grows, Settle, TypeOK
<1>7. EntryFacts'
  <2> SUFFICES ASSUME NEW e \in ledger'
               PROVE  /\ Exists(e.inv)'
                      /\ e.type = "RESERVE_HOLD" =>
                           /\ e.amount = Reserve(e.inv)
                           /\ invoice'[e.inv].reserveAmount = Reserve(e.inv)
                      /\ e.type = "RESERVE_RELEASE" =>
                           /\ e.amount = Reserve(e.inv)
                           /\ HasEntry(e.inv, "RESERVE_HOLD")'
                      /\ e.type = "CHARGEBACK" => HasChargeback(e.inv)'
    BY DEF EntryFacts, Reserve
  <2>1. CASE e \in ledger
    <3>1. e.inv \in Invoice
      BY <1>1, <2>1 DEF TypeOK, Entry
    <3> QED BY <1>1, <1>5, <1>6, <2>1, <3>1, HasGrown
            DEF TableFacts, EntryFacts, Exists
  <2>2. CASE e.type = "RESERVE_RELEASE" /\ e.inv = c.inv /\ e.amount = c.amount
    BY <1>2, <1>5, <1>6, <2>2, HasGrown DEF Exists
  <2> QED BY <1>3, <2>1, <2>2
<1>8. WriteOffMatchesChargeback'
  BY <1>1, <1>3, <1>6, HasGrown DEF TableFacts, WriteOffMatchesChargeback, Settle
<1>9. LogFacts'
  BY <1>1, <1>2, <1>4, <1>6, HasGrown DEF TableFacts, LogFacts
<1>10. StatusFacts'
  BY <1>1, <1>2, <1>3, <1>5, <1>6, HasGrown
     DEF TableFacts, StatusFacts, CallFacts, Settle
<1>11. NotifiedAfterCommit'
  BY <1>1, <1>6, HasGrown DEF TableFacts, NotifiedAfterCommit, Settle
<1>12. \A x \in calls : CallFacts(x)'
  BY <1>1, <1>6, CallFactsKept DEF MoneyInv, TypeOK
<1>13. calls' \subseteq calls
  BY DEF Settle, Respond
<1> QED
  BY <1>3, <1>7, <1>8, <1>9, <1>10, <1>11, <1>12, <1>13
     DEF MoneyInv, TableFacts

(* Charging back keeps the promises.                                       *)
LEMMA ChargeBackKeeps ==
  ASSUME MoneyInv, TypeInv', NEW c \in calls, ChargeBack(c)
  PROVE  MoneyInv'
<1>1. /\ TypeInv /\ TypeOK /\ TableFacts /\ CallFacts(c) /\ c \in Call
      /\ c.op = "chargeback" /\ c.pc = "tx" /\ c.inv \in Invoice
      /\ c.key = DefaultKey(WriterOf("CHARGEBACK"), c.inv)
  BY DEF MoneyInv, TypeInv, TypeOK, Call, CallFacts, ChargeBack, At, WriterOf
<1>2. HasLog(c.inv, "credit-limit")
  BY <1>1 DEF CallFacts
<1>3. /\ LedgerKeys' /\ NoDoubleEntry' /\ ledger \subseteq ledger'
      /\ \A e \in ledger' :
           \/ e \in ledger
           \/ e.type = "CHARGEBACK" /\ e.inv = c.inv /\ e.amount = c.amount
      /\ HasEntry(c.inv, "CHARGEBACK")'
  BY <1>1, OneEntryKeeps DEF TableFacts, CallFacts, ChargeBack, EntryType
<1>4. /\ creditLog \subseteq creditLog'
      /\ \A l \in creditLog' :
           \/ l \in creditLog
           \/ l.part = "credit-limit-restore" /\ l.inv = c.inv
  BY ApplyDeltaKeeps DEF ChargeBack
<1>5. /\ invoice'[c.inv].status = c.to /\ c.to # "NONE"
      /\ invoice'[c.inv].reserveAmount = invoice[c.inv].reserveAmount
      /\ \A i \in Invoice \ {c.inv} : invoice'[i] = invoice[i]
  BY <1>1, WriteStatusKeeps DEF ChargeBack
<1>6. chargebacks \subseteq chargebacks' /\ HasChargeback(c.inv)'
  <2>1. PICK b \in FreshIn(chargebacks) :
          chargebacks' = chargebacks \cup
            {[id |-> b, inv |-> c.inv, amount |-> c.amount, entry |-> c.key,
              status |-> "COMPLETED"]}
    BY DEF ChargeBack
  <2> DEFINE row == [id |-> b, inv |-> c.inv, amount |-> c.amount,
                     entry |-> c.key, status |-> "COMPLETED"]
  <2>2. row.inv = c.inv
    OBVIOUS
  <2>3. chargebacks' = chargebacks \cup {row}
    BY <2>1
  <2> HIDE DEF row
  <2> QED BY <2>2, <2>3 DEF HasChargeback
<1>7. Grows
  BY <1>1, <1>3, <1>4, <1>6 DEF Grows, ChargeBack, TypeOK
<1>8. EntryFacts'
  <2> SUFFICES ASSUME NEW e \in ledger'
               PROVE  /\ Exists(e.inv)'
                      /\ e.type = "RESERVE_HOLD" =>
                           /\ e.amount = Reserve(e.inv)
                           /\ invoice'[e.inv].reserveAmount = Reserve(e.inv)
                      /\ e.type = "RESERVE_RELEASE" =>
                           /\ e.amount = Reserve(e.inv)
                           /\ HasEntry(e.inv, "RESERVE_HOLD")'
                      /\ e.type = "CHARGEBACK" => HasChargeback(e.inv)'
    BY DEF EntryFacts, Reserve
  <2>1. CASE e \in ledger
    <3>1. e.inv \in Invoice
      BY <1>1, <2>1 DEF TypeOK, Entry
    <3> QED BY <1>1, <1>5, <1>7, <2>1, <3>1, HasGrown
            DEF TableFacts, EntryFacts, Exists
  <2>2. CASE e.type = "CHARGEBACK" /\ e.inv = c.inv
    BY <1>5, <1>6, <2>2 DEF Exists
  <2> QED BY <1>3, <2>1, <2>2
<1>9. WriteOffMatchesChargeback'
  <2> SUFFICES ASSUME NEW e \in ledger', e.type = "WRITE_OFF"
               PROVE  /\ HasEntry(e.inv, "CHARGEBACK")'
                      /\ \E b \in chargebacks' : b.inv = e.inv /\ b.amount = e.amount
    BY DEF WriteOffMatchesChargeback
  <2>1. e \in ledger
    BY <1>3
  <2> QED BY <1>1, <1>6, <1>7, <2>1, HasGrown
          DEF TableFacts, WriteOffMatchesChargeback
<1>10. LogFacts'
  BY <1>1, <1>2, <1>4, <1>7, HasGrown DEF TableFacts, LogFacts
<1>11. StatusFacts'
  BY <1>1, <1>3, <1>5, <1>7, HasGrown
     DEF TableFacts, StatusFacts, CallFacts, ChargeBack
<1>12. NotifiedAfterCommit'
  BY <1>1, <1>7, HasGrown DEF TableFacts, NotifiedAfterCommit, ChargeBack
<1>13. PICK d : /\ calls' = (calls \ {c}) \cup {d}
                /\ d.op = c.op /\ d.inv = c.inv /\ d.key = c.key
                /\ d.to = c.to /\ d.pc = "notify"
  BY <1>1, NotifyCall DEF ChargeBack
<1>14. CallFacts(d)'
  BY <1>1, <1>2, <1>3, <1>7, <1>13, HasGrown DEF CallFacts
<1>15. \A x \in calls : CallFacts(x)'
  BY <1>1, <1>7, CallFactsKept DEF MoneyInv, TypeOK
<1> QED
  BY <1>3, <1>8, <1>9, <1>10, <1>11, <1>12, <1>13, <1>14, <1>15
     DEF MoneyInv, TableFacts

(* Writing off keeps the promises: the amount it found is still that of a  *)
(* chargeback row of the invoice.                                          *)
LEMMA WriteOffKeeps ==
  ASSUME MoneyInv, TypeInv', NEW c \in calls, WriteOff(c)
  PROVE  MoneyInv'
<1>1. /\ TypeInv /\ TypeOK /\ TableFacts /\ CallFacts(c) /\ c \in Call
      /\ c.op = "writeOff" /\ c.pc = "checked" /\ c.inv \in Invoice
      /\ c.key = DefaultKey(WriterOf("WRITE_OFF"), c.inv)
  BY DEF MoneyInv, TypeInv, TypeOK, Call, CallFacts, WriteOff, At, WriterOf
<1>2. /\ HasEntry(c.inv, "CHARGEBACK")
      /\ \E b \in chargebacks : b.inv = c.inv /\ b.amount = c.amount
  BY <1>1 DEF CallFacts
<1> DEFINE found == KeysFound(c.key)
           d == [c EXCEPT !.found = found]
<1>3. \A t \in found \cap EntryType : Recorded(c.key, t)
  BY DEF KeysFound, EntryType, LogPart
<1>4. Record(d, {EntryOf(c, "WRITE_OFF", c.amount)})
  BY DEF WriteOff
<1> HIDE DEF found
<1>5. d.found = found
  BY <1>1 DEF Call
<1> HIDE DEF d
<1>6. /\ LedgerKeys' /\ NoDoubleEntry' /\ ledger \subseteq ledger'
      /\ \A e \in ledger' :
           \/ e \in ledger
           \/ e.type = "WRITE_OFF" /\ e.inv = c.inv /\ e.amount = c.amount
  BY <1>1, <1>3, <1>4, <1>5, OneEntryKeeps DEF TableFacts, EntryType
<1>7. /\ invoice'[c.inv].status = c.to /\ c.to # "NONE"
      /\ invoice'[c.inv].reserveAmount = invoice[c.inv].reserveAmount
      /\ \A i \in Invoice \ {c.inv} : invoice'[i] = invoice[i]
  BY <1>1, WriteStatusKeeps DEF WriteOff
<1>8. \A b \in chargebacks :
        \E x \in chargebacks' : x.inv = b.inv /\ x.amount = b.amount
  <2> SUFFICES ASSUME NEW b \in chargebacks
               PROVE  \E x \in chargebacks' : x.inv = b.inv /\ x.amount = b.amount
    OBVIOUS
  <2> DEFINE x == IF b.id = c.row THEN [b EXCEPT !.status = "WRITTEN_OFF"] ELSE b
  <2>1. x \in chargebacks'
    BY DEF WriteOff
  <2>2. x.inv = b.inv /\ x.amount = b.amount
    BY <1>1 DEF TypeOK, Chargeback
  <2> QED BY <2>1, <2>2
<1>9. Grows
  <2>1. UNCHANGED <<creditLog, matchedTo>> /\ matchedTo \in [Invoice -> Nat]
    BY <1>1 DEF WriteOff, TypeOK
  <2> QED BY <1>6, <1>8, <2>1 DEF Grows
<1>10. EntryFacts'
  <2> SUFFICES ASSUME NEW e \in ledger'
               PROVE  /\ Exists(e.inv)'
                      /\ e.type = "RESERVE_HOLD" =>
                           /\ e.amount = Reserve(e.inv)
                           /\ invoice'[e.inv].reserveAmount = Reserve(e.inv)
                      /\ e.type = "RESERVE_RELEASE" =>
                           /\ e.amount = Reserve(e.inv)
                           /\ HasEntry(e.inv, "RESERVE_HOLD")'
                      /\ e.type = "CHARGEBACK" => HasChargeback(e.inv)'
    BY DEF EntryFacts, Reserve
  <2>1. CASE e \in ledger
    <3>1. e.inv \in Invoice
      BY <1>1, <2>1 DEF TypeOK, Entry
    <3> QED BY <1>1, <1>7, <1>9, <2>1, <3>1, HasGrown
            DEF TableFacts, EntryFacts, Exists
  <2>2. CASE e.type = "WRITE_OFF" /\ e.inv = c.inv
    BY <1>7, <2>2 DEF Exists
  <2> QED BY <1>6, <2>1, <2>2
<1>11. WriteOffMatchesChargeback'
  <2> SUFFICES ASSUME NEW e \in ledger', e.type = "WRITE_OFF"
               PROVE  /\ HasEntry(e.inv, "CHARGEBACK")'
                      /\ \E b \in chargebacks' : b.inv = e.inv /\ b.amount = e.amount
    BY DEF WriteOffMatchesChargeback
  <2>1. /\ HasEntry(e.inv, "CHARGEBACK")
        /\ \E b \in chargebacks : b.inv = e.inv /\ b.amount = e.amount
    BY <1>1, <1>2, <1>6 DEF TableFacts, WriteOffMatchesChargeback
  <2> QED BY <1>8, <1>9, <2>1, HasGrown
<1>12. LogFacts' /\ NotifiedAfterCommit'
  BY <1>1, <1>9, HasGrown DEF TableFacts, LogFacts, NotifiedAfterCommit, WriteOff
<1>13. StatusFacts'
  BY <1>1, <1>7, <1>9, HasGrown DEF TableFacts, StatusFacts, CallFacts, WriteOff
<1>14. \A x \in calls : CallFacts(x)'
  BY <1>1, <1>9, CallFactsKept DEF MoneyInv, TypeOK
<1>15. calls' \subseteq calls
  BY DEF WriteOff, Respond
<1> QED
  BY <1>6, <1>10, <1>11, <1>12, <1>13, <1>14, <1>15 DEF MoneyInv, TableFacts

(* Every handler that moves money keeps the promises.                      *)
LEMMA ServicingKeeps ==
  ASSUME MoneyInv, TypeInv', ServicingNext
  PROVE  MoneyInv'
<1>0. TypeOK /\ TableFacts /\ \A c \in calls : c \in Call /\ CallFacts(c)
  BY DEF MoneyInv, TypeInv, TypeOK
<1>1. ASSUME NEW i \in Invoice, FundBegin(i) PROVE MoneyInv'
  <2>1. Begin("fund", i, DefaultKey("fund", i), "APPROVED_FOR_FUNDING", "FUNDED", 0)
    BY <1>1, BeginMoneyDefault DEF FundBegin
  <2> QED BY <2>1, BeginKeeps
<1>2. ASSUME NEW i \in Invoice, SettleBegin(i) PROVE MoneyInv'
  <2>1. Begin("settle", i, DefaultKey("settle", i), "FUNDED", "SETTLED",
              invoice[i].reserveAmount)
    BY <1>2, BeginMoneyDefault DEF SettleBegin
  <2>2. HasEntry(i, "RESERVE_HOLD") /\ HasLog(i, "credit-limit")
    BY <1>0, <1>2 DEF SettleBegin, TableFacts, StatusFacts
  <2>3. invoice[i].reserveAmount = Reserve(i)
    BY <1>0, <2>2 DEF HasEntry, TableFacts, EntryFacts
  <2> QED BY <2>1, <2>2, <2>3, BeginKeeps
<1>3. ASSUME NEW i \in Invoice, PlaceHoldBegin(i) PROVE MoneyInv'
  BY <1>3, BeginPlainKeeps DEF PlaceHoldBegin
<1>4. ASSUME NEW i \in Invoice, ReleaseHoldBegin(i) PROVE MoneyInv'
  BY <1>4, BeginPlainKeeps DEF ReleaseHoldBegin
<1>5. ASSUME NEW i \in Invoice, WriteOffBegin(i) PROVE MoneyInv'
  <2>1. Begin("writeOff", i, DefaultKey("writeOff", i), "CHARGED_BACK",
              "WRITTEN_OFF", 0)
    BY <1>5, BeginMoneyDefault DEF WriteOffBegin
  <2>2. HasEntry(i, "CHARGEBACK")
    BY <1>0, <1>5 DEF WriteOffBegin, TableFacts, StatusFacts
  <2> QED BY <2>1, <2>2, BeginKeeps
<1>6. ASSUME NEW i \in Invoice, NEW a \in ChargebackAmounts, ChargebackBegin(i, a)
      PROVE  MoneyInv'
  <2>1. Begin("chargeback", i, DefaultKey("chargeback", i), "FUNDED",
              "CHARGED_BACK", a)
    BY <1>6, BeginMoneyDefault DEF ChargebackBegin
  <2>2. HasLog(i, "credit-limit")
    BY <1>0, <1>6 DEF ChargebackBegin, TableFacts, StatusFacts
  <2> QED BY <2>1, <2>2, BeginKeeps
<1>7. ASSUME NEW c \in calls, OpenTx(c) PROVE MoneyInv'
  <2> DEFINE found == KeysFound(c.key)
             row == limit[Debtor[c.inv]]
             used == IF row = NoLimit THEN 0 ELSE row.used
             d == [c EXCEPT !.pc = "tx", !.found = found, !.used = used]
  <2>1. Become(c, d) /\ UNCHANGED tables
    BY <1>7 DEF OpenTx
  <2>2. /\ c \in Call /\ CallFacts(c) /\ c.op \in {"fund", "settle", "chargeback"}
        /\ c.op = "settle" => c.pc = "checked"
    BY <1>0, <1>7 DEF OpenTx, At
  <2>3. /\ \A t \in found \cap EntryType : Recorded(c.key, t)
        /\ \A p \in found \cap LogPart : Logged(c.key, p)
    BY DEF KeysFound, EntryType, LogPart
  <2> HIDE DEF found, used
  <2>4. /\ d.key = c.key /\ d.op = c.op /\ d.inv = c.inv /\ d.to = c.to
        /\ d.pc = "tx" /\ d.found = found /\ d.amount = c.amount
    BY <2>2 DEF Call
  <2> HIDE DEF d
  <2>5. CallFacts(d)
    BY <2>2, <2>3, <2>4 DEF CallFacts
  <2>6. d \in Call
    BY <2>1 DEF Become, TypeInv, TypeOK
  <2> QED BY <2>1, <2>5, <2>6, MoveOnKeeps
<1>8. ASSUME NEW c \in calls, FundCheck(c) PROVE MoneyInv'
  <2>1. c \in Call /\ CallFacts(c) /\ c.op = "fund"
    BY <1>0, <1>8 DEF FundCheck, At
  <2>2. [c EXCEPT !.pc = "checked"] \in Call
    BY <2>1 DEF Call
  <2>3. CallFacts([c EXCEPT !.pc = "checked"])
    BY <2>1 DEF CallFacts, Call
  <2> QED BY <1>8, <2>2, <2>3, MoveOnKeeps DEF FundCheck
<1>9. ASSUME NEW c \in calls, SettleCheck(c) PROVE MoneyInv'
  <2>1. /\ c \in Call /\ CallFacts(c) /\ c.op = "settle"
        /\ matchedTo[c.inv] >= Amount[c.inv]
    BY <1>0, <1>9 DEF SettleCheck, At
  <2>2. [c EXCEPT !.pc = "checked"] \in Call
    BY <2>1 DEF Call
  <2>3. CallFacts([c EXCEPT !.pc = "checked"])
    BY <2>1 DEF CallFacts, Call
  <2> QED BY <1>9, <2>2, <2>3, MoveOnKeeps DEF SettleCheck
<1>10. ASSUME NEW c \in calls, PlaceReserveHold(c) PROVE MoneyInv'
  BY <1>0, <1>10, SideStepKeeps DEF PlaceReserveHold, Respond, TypeOK, InvoiceRow
<1>11. ASSUME NEW c \in calls, ReleaseHoldFind(c) PROVE MoneyInv'
  <2>1. c \in Call /\ CallFacts(c) /\ c.op = "releaseHold"
    BY <1>0, <1>11 DEF ReleaseHoldFind, At
  <2>2. PICK row \in RowId \cup {NoRow} :
          Become(c, [c EXCEPT !.pc = "checked", !.row = row])
    BY <1>0, <1>11 DEF ReleaseHoldFind, ActiveHolds, HoldEvent, TypeOK
  <2>3. [c EXCEPT !.pc = "checked", !.row = row] \in Call
    BY <2>1 DEF Call
  <2>4. CallFacts([c EXCEPT !.pc = "checked", !.row = row])
    BY <2>1 DEF CallFacts, Call
  <2> QED BY <1>11, <2>2, <2>3, <2>4, MoveOnKeeps DEF ReleaseHoldFind
<1>12. ASSUME NEW c \in calls, ReleaseReserveHold(c) PROVE MoneyInv'
  BY <1>0, <1>12, SideStepKeeps DEF ReleaseReserveHold, Respond, TypeOK, InvoiceRow
<1>13. ASSUME NEW c \in calls, WriteOffFind(c) PROVE MoneyInv'
  <2>1. c \in Call /\ CallFacts(c) /\ c.op = "writeOff"
    BY <1>0, <1>13 DEF WriteOffFind, At
  <2>2. ChargebacksOf(c.inv) # {}
    BY <1>0, <2>1 DEF CallFacts, HasEntry, TableFacts, EntryFacts,
                      HasChargeback, ChargebacksOf
  <2>3. PICK b \in chargebacks :
          /\ b.inv = c.inv
          /\ Become(c, [c EXCEPT !.pc = "checked", !.row = b.id,
                                 !.amount = b.amount])
    BY <1>13, <2>2 DEF WriteOffFind, ChargebacksOf
  <2> DEFINE row == b.id
             amount == b.amount
             d == [c EXCEPT !.pc = "checked", !.row = row, !.amount = amount]
  <2>4. Become(c, d)
    BY <2>3
  <2> HIDE DEF row, amount
  <2>5. /\ d.key = c.key /\ d.op = c.op /\ d.inv = c.inv /\ d.to = c.to
        /\ d.pc = "checked" /\ d.amount = amount
    BY <2>1 DEF Call
  <2> HIDE DEF d
  <2>6. CallFacts(d)
    BY <2>1, <2>3, <2>5 DEF CallFacts, amount
  <2>7. d \in Call
    BY <2>4 DEF Become, TypeInv, TypeOK
  <2> QED BY <1>13, <2>4, <2>6, <2>7, MoveOnKeeps DEF WriteOffFind
<1> QED
  BY <1>1, <1>2, <1>3, <1>4, <1>5, <1>6, <1>7, <1>8, <1>9, <1>10, <1>11,
     <1>12, <1>13, FundKeeps, SettleKeeps, ChargeBackKeeps, WriteOffKeeps
     DEF ServicingNext

(* Matching a payment only ever adds to what an invoice has been paid.     *)
LEMMA PaymentKeeps ==
  ASSUME MoneyInv, TypeInv', PaymentStep
  PROVE  MoneyInv'
<1>1. ASSUME NEW i \in Invoice PROVE matchedTo'[i] >= matchedTo[i]
  <2>1. matchedTo \in [Invoice -> Nat] /\ matching \subseteq Pay!MatchCall
    BY DEF MoneyInv, TypeInv, Pay!PaymentsTypeOK
  <2>2. CASE UNCHANGED matchedTo
    BY <2>1, <2>2
  <2>3. ASSUME NEW m \in matching, Pay!MatchCommit(m)
        PROVE  matchedTo'[i] >= matchedTo[i]
    <3>1. m.amount \in Nat
      BY <2>1 DEF Pay!MatchCall
    <3> QED BY <2>1, <2>3, <3>1 DEF Pay!MatchCommit
  <2> QED BY <2>2, <2>3 DEF PaymentStep, Pay!RecordPayment, Pay!MatchOpen,
                            Pay!MatchAbandon
<1>2. Quiet /\ UNCHANGED notified /\ calls' \subseteq calls
  BY <1>1 DEF PaymentStep, Quiet, Exists
<1> QED BY <1>2, QuietAnswer

(* A notification leaves once the entry it announces is in the ledger.     *)
LEMMA NotifyKeeps ==
  ASSUME MoneyInv, TypeInv', NEW c \in calls, Notify(c)
  PROVE  MoneyInv'
<1>1. Quiet
  BY DEF Notify, Quiet, Exists, MoneyInv, TypeInv, TypeOK
<1>2. /\ Grows /\ LedgerKeys' /\ NoDoubleEntry' /\ EntryFacts'
      /\ WriteOffMatchesChargeback' /\ LogFacts' /\ StatusFacts'
  BY <1>1, QuietKeeps DEF MoneyInv
<1>3. NotifiedAfterCommit'
  <2>1. CallFacts(c) /\ c.pc = "notify" /\ NotifiedAfterCommit
    BY DEF MoneyInv, TableFacts, Notify
  <2>2. notified' = notified \cup {<<c.inv, c.to>>}
    BY DEF Notify
  <2> QED BY <1>2, <2>1, <2>2, HasGrown DEF NotifiedAfterCommit, CallFacts
<1>4. \A x \in calls : CallFacts(x)'
  BY <1>2, CallFactsKept DEF MoneyInv, TypeInv, TypeOK
<1>5. calls' \subseteq calls
  BY DEF Notify, Respond
<1> QED BY <1>2, <1>3, <1>4, <1>5 DEF MoneyInv, TableFacts

(* Every step of the system keeps the promises.                            *)
LEMMA MoneyStep == MoneyInv /\ [Next]_vars => MoneyInv'
<1> SUFFICES ASSUME MoneyInv, [Next]_vars PROVE MoneyInv'
  OBVIOUS
<1>1. TypeInv'
  BY TypeStep DEF MoneyInv
<1>2. CASE StoreStep
  <2>1. ASSUME NEW m \in MC, NEW t \in LimitValues, SetLimit(m, t) PROVE MoneyInv'
    BY <1>1, <2>1, SideStepKeeps DEF SetLimit
  <2>2. ASSUME NEW a \in MC \cup Broker, OnboardingMove(a) PROVE MoneyInv'
    BY <1>1, <2>2, SideStepKeeps DEF OnboardingMove
  <2>3. ASSUME NEW c \in calls, Abandon(c) PROVE MoneyInv'
    BY <1>1, <2>3, SideStepKeeps DEF Abandon, Respond, tables
  <2> QED BY <1>1, <1>2, <2>1, <2>2, <2>3, IntakeKeeps, ServicingKeeps,
             NotifyKeeps DEF StoreStep
<1>3. CASE PaymentStep
  BY <1>1, <1>3, PaymentKeeps
<1>4. CASE UNCHANGED vars
  BY <1>1, <1>4, SideStepKeeps DEF vars, storeVars, tables
<1> QED BY <1>2, <1>3, <1>4 DEF Next

(* The empty tables make every promise.                                    *)
LEMMA MoneyInit == ClientKeys = {} /\ Init => MoneyInv
<1> SUFFICES ASSUME ClientKeys = {}, Init PROVE MoneyInv
  OBVIOUS
<1>1. /\ ledger = {} /\ creditLog = {} /\ notified = {} /\ calls = {}
      /\ \A i \in Invoice : invoice[i].status \notin {"FUNDED", "SETTLED",
                                                      "CHARGED_BACK"}
  BY DEF Init, StoreInit
<1> QED
  BY <1>1, TypeInit
     DEF MoneyInv, TableFacts, LedgerKeys, NoDoubleEntry, EntryFacts,
         WriteOffMatchesChargeback, LogFacts, StatusFacts, NotifiedAfterCommit

-----------------------------------------------------------------------------
(* Without client keys no money moves twice: an invoice never has two      *)
(* ledger entries of one type, for any number of overlapping, stale,       *)
(* repeated or interrupted calls.                                          *)
THEOREM NoMoneyMovesTwice == ClientKeys = {} /\ Spec => []NoDoubleEntry
<1>1. MoneyInv => NoDoubleEntry
  BY DEF MoneyInv, TableFacts
<1> QED BY MoneyInit, MoneyStep, <1>1, PTL DEF Spec

(* Without client keys what settle releases is what fund held.             *)
THEOREM ReleasedAsHeld == ClientKeys = {} /\ Spec => []ReleaseMatchesHold
<1>1. MoneyInv => ReleaseMatchesHold
  BY DEF MoneyInv, TableFacts, EntryFacts, ReleaseMatchesHold, HasEntry
<1> QED BY MoneyInit, MoneyStep, <1>1, PTL DEF Spec

(* Without client keys the reserve stored on an invoice is the one held.   *)
THEOREM ReserveStored == ClientKeys = {} /\ Spec => []ReserveAgreesWithLedger
<1>1. MoneyInv => ReserveAgreesWithLedger
  BY DEF MoneyInv, TableFacts, EntryFacts, ReserveAgreesWithLedger
<1> QED BY MoneyInit, MoneyStep, <1>1, PTL DEF Spec

(* Without client keys a write-off repeats the amount of a chargeback.     *)
THEOREM WrittenOffAsChargedBack ==
  ClientKeys = {} /\ Spec => []WriteOffMatchesChargeback
<1>1. MoneyInv => WriteOffMatchesChargeback
  BY DEF MoneyInv, TableFacts
<1> QED BY MoneyInit, MoneyStep, <1>1, PTL DEF Spec

(* Without client keys a FUNDED invoice has been disbursed, its reserve    *)
(* held and its exposure logged, even by a fund that found all three.      *)
THEOREM FundingIsBacked == ClientKeys = {} /\ Spec => []FundedIsBacked
<1>1. MoneyInv => FundedIsBacked
  BY DEF MoneyInv, TableFacts, StatusFacts, FundedIsBacked
<1> QED BY MoneyInit, MoneyStep, <1>1, PTL DEF Spec

(* Without client keys credit is only given back where it was taken.       *)
THEOREM CreditTakenBeforeGivenBack ==
  ClientKeys = {} /\ Spec => []RestoreFollowsFunding
<1>1. MoneyInv => RestoreFollowsFunding
  BY DEF MoneyInv, TableFacts, LogFacts, RestoreFollowsFunding, HasLog
<1> QED BY MoneyInit, MoneyStep, <1>1, PTL DEF Spec

(* Without client keys a SETTLED invoice is paid and its reserve released. *)
THEOREM SettlementIsPaid == ClientKeys = {} /\ Spec => []SettledIsPaid
<1>1. MoneyInv => SettledIsPaid
  BY DEF MoneyInv, TableFacts, StatusFacts, SettledIsPaid
<1> QED BY MoneyInit, MoneyStep, <1>1, PTL DEF Spec

(* Without client keys no Broker is told of money that has not moved.      *)
THEOREM NoEarlyNotification == ClientKeys = {} /\ Spec => []NotifiedAfterCommit
<1>1. MoneyInv => NotifiedAfterCommit
  BY DEF MoneyInv, TableFacts
<1> QED BY MoneyInit, MoneyStep, <1>1, PTL DEF Spec

-----------------------------------------------------------------------------
(* What is entered for the two parts of an invoice, with any keys.         *)
PartAmount(e) ==
  /\ e.type = "FUNDING_DISBURSEMENT" => e.amount = Advance(e.inv)
  /\ e.type = "RESERVE_HOLD" => e.amount = Reserve(e.inv)

PartsAsComputed == \A e \in ledger : PartAmount(e)

(* Two parts of a whole, each rounded to a cent, make up the whole or a    *)
(* cent more.                                                              *)
LEMMA RoundedParts ==
  ASSUME NEW n \in Nat, NEW m \in Nat, NEW a \in Nat, n + m = 100 * a
  PROVE  Rounded(n, 100) + Rounded(m, 100) - a \in {0, 1}
  BY DEF Rounded

(* A share of a whole and the rest of it.                                  *)
LEMMA SharesAddUp ==
  ASSUME NEW a \in Nat, NEW p \in 0..100
  PROVE  /\ a * p \in Nat /\ a * (100 - p) \in Nat
         /\ a * p + a * (100 - p) = 100 * a
<1>1. p \in Nat /\ 100 - p \in Nat
  OBVIOUS
<1>2. \A x, y \in Nat : x * y \in Nat
  OBVIOUS
<1>3. a * (100 - p) = 100 * a - a * p
  BY <1>1
<1> QED BY <1>1, <1>2, <1>3

(* record() adds no more than the entries it is given.                     *)
LEMMA RecordParts ==
  ASSUME PartsAsComputed, NEW c, NEW entries, Record(c, entries),
         \A e \in entries : PartAmount(e)
  PROVE  PartsAsComputed'
  BY DEF PartsAsComputed, PartAmount, Record, Advance, Reserve

(* A handler other than fund that enters one entry enters neither part.    *)
LEMMA OtherEntryParts ==
  ASSUME PartsAsComputed, NEW c, NEW call, NEW type, NEW amount,
         Record(call, {EntryOf(c, type, amount)}),
         type \notin {"FUNDING_DISBURSEMENT", "RESERVE_HOLD"}
  PROVE  PartsAsComputed'
  BY RecordParts DEF PartAmount, EntryOf

(* Intake enters nothing.                                                  *)
LEMMA IntakeParts == IntakeNext => UNCHANGED ledger
  BY DEF IntakeNext, CreateBegin, AttachDocument, RunExtraction,
         SubmitForApproval, McApprove, McDisputeBegin, RespondToInfoRequest,
         Cancel, Underwrite, ResolveDisputeBegin, Create, ExtractionStarted,
         ExtractionDone, UnderwriteCheck, ChangeStatus, McDispute,
         ResolveDisputeFind, ResolveDispute, BeginPlain, Begin, tables

(* Only fund enters the parts, and it enters what it computes.             *)
LEMMA ServicingParts ==
  ASSUME PartsAsComputed, ServicingNext
  PROVE  PartsAsComputed'
<1>1. ASSUME UNCHANGED ledger PROVE PartsAsComputed'
  BY <1>1 DEF PartsAsComputed, PartAmount, Advance, Reserve
<1>2. ASSUME NEW c \in calls, Fund(c) PROVE PartsAsComputed'
  <2> DEFINE entries == {EntryOf(c, "FUNDING_DISBURSEMENT", Advance(c.inv)),
                         EntryOf(c, "RESERVE_HOLD", Reserve(c.inv))}
  <2>1. Record(c, entries)
    BY <1>2 DEF Fund
  <2>2. \A e \in entries : PartAmount(e)
    BY DEF EntryOf, PartAmount
  <2> QED BY <2>1, <2>2, RecordParts
<1>3. ASSUME NEW c \in calls, Settle(c) \/ ChargeBack(c) \/ WriteOff(c)
      PROVE  PartsAsComputed'
  <2>1. CASE Settle(c)
    BY <2>1, OtherEntryParts DEF Settle
  <2>2. CASE ChargeBack(c)
    BY <2>2, OtherEntryParts DEF ChargeBack
  <2>3. CASE WriteOff(c)
    <3>1. Record([c EXCEPT !.found = KeysFound(c.key)],
                 {EntryOf(c, "WRITE_OFF", c.amount)})
      BY <2>3 DEF WriteOff
    <3> QED BY <3>1, OtherEntryParts
  <2> QED BY <1>3, <2>1, <2>2, <2>3
<1>4. ASSUME NEW i \in Invoice,
             \/ FundBegin(i) \/ SettleBegin(i) \/ PlaceHoldBegin(i)
             \/ ReleaseHoldBegin(i) \/ WriteOffBegin(i)
             \/ \E a \in ChargebackAmounts : ChargebackBegin(i, a)
      PROVE  UNCHANGED ledger
  BY <1>4 DEF FundBegin, SettleBegin, PlaceHoldBegin, ReleaseHoldBegin,
     WriteOffBegin, ChargebackBegin, BeginPlain, BeginMoney, Begin, tables
<1>5. ASSUME NEW c \in calls,
             \/ OpenTx(c) \/ FundCheck(c) \/ SettleCheck(c)
             \/ PlaceReserveHold(c) \/ ReleaseHoldFind(c)
             \/ ReleaseReserveHold(c) \/ WriteOffFind(c)
      PROVE  UNCHANGED ledger
  BY <1>5 DEF OpenTx, FundCheck, SettleCheck, PlaceReserveHold,
     ReleaseHoldFind, ReleaseReserveHold, WriteOffFind, tables
<1> QED BY <1>1, <1>2, <1>3, <1>4, <1>5 DEF ServicingNext

(* Every step enters the parts as computed, if it enters any.              *)
LEMMA PartsStep == PartsAsComputed /\ [Next]_vars => PartsAsComputed'
<1> SUFFICES ASSUME PartsAsComputed, [Next]_vars PROVE PartsAsComputed'
  OBVIOUS
<1>1. ASSUME UNCHANGED ledger PROVE PartsAsComputed'
  BY <1>1 DEF PartsAsComputed, PartAmount, Advance, Reserve
<1>2. CASE StoreStep
  BY <1>1, <1>2, IntakeParts, ServicingParts
     DEF StoreStep, SetLimit, OnboardingMove, Notify, Abandon, tables
<1>3. CASE PaymentStep
  BY <1>1, <1>3 DEF PaymentStep
<1>4. CASE UNCHANGED vars
  BY <1>1, <1>4 DEF vars, storeVars, tables
<1> QED BY <1>2, <1>3, <1>4 DEF Next

(* Whatever keys clients send and whatever calls repeat or overlap, the    *)
(* advance and the reserve in the ledger make up the invoice or a cent     *)
(* more, for invoices of no negative amount.                               *)
THEOREM PartsAddUp ==
  ASSUME Amount \in [Invoice -> Nat]
  PROVE  Spec => []AdvanceAndReserveAddUp
<1>1. Init => PartsAsComputed
  BY DEF Init, StoreInit, PartsAsComputed
<1>2. TypeOK /\ PartsAsComputed => AdvanceAndReserveAddUp
  <2> SUFFICES ASSUME TypeOK, PartsAsComputed, NEW e \in ledger, NEW f \in ledger,
                      e.type = "FUNDING_DISBURSEMENT", f.type = "RESERVE_HOLD",
                      e.inv = f.inv
               PROVE  e.amount + f.amount - Amount[e.inv] \in {0, 1}
    BY DEF AdvanceAndReserveAddUp
  <2>1. e.inv \in Invoice /\ Amount[e.inv] \in Nat /\ AdvancePct \in 0..100
    BY StoreAssumption DEF StoreAssumption, TypeOK, Entry
  <2>2. /\ e.amount = Rounded(Amount[e.inv] * AdvancePct, 100)
        /\ f.amount = Rounded(Amount[e.inv] * (100 - AdvancePct), 100)
    BY DEF PartsAsComputed, PartAmount, Advance, Reserve
  <2> QED BY <2>1, <2>2, SharesAddUp, RoundedParts
<1> QED BY <1>1, <1>2, PartsStep, TypeCorrect, PTL DEF Spec
=============================================================================
