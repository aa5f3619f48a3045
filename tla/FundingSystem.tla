---------------------------- MODULE FundingSystem ----------------------------
(***************************************************************************)
(* InvoicesService as a whole, over the tables it shares with payment      *)
(* matching, credit limits and onboarding: any number of calls in flight,  *)
(* each abandoned at any point.                                            *)
(***************************************************************************)
EXTENDS InvoiceIntake, InvoiceServicing, FiniteSetsExt

CONSTANTS Payment, Payer, Paid, MatchAmounts, MaxMatched, Matcher

VARIABLES payment, receipts, matchedFrom, matching

Pay == INSTANCE Payments

ASSUME FundingAssumption == Pay!PaymentsAssumption

paymentOnly == <<payment, receipts, matchedFrom, matching>>
vars == <<storeVars, paymentOnly>>

Init == StoreInit /\ Pay!PaymentsInit

(* Matches refer to an invoice that has been created.                      *)
PaymentStep ==
  /\ \/ \E p \in Payment :
          \/ Pay!RecordPayment(p)
          \/ \E i \in Invoice, x \in MatchAmounts :
               Exists(i) /\ Pay!MatchOpen(p, i, x)
     \/ \E m \in matching : Pay!MatchCommit(m) \/ Pay!MatchAbandon(m)
  /\ UNCHANGED <<invoice, documented, onboarded, disputes, holds, chargebacks,
                 ledger, creditLog, limit, notified, calls>>

StoreStep ==
  \/ IntakeNext
  \/ ServicingNext
  \/ \E m \in MC, t \in LimitValues : SetLimit(m, t)
  \/ \E a \in MC \cup Broker : OnboardingMove(a)
  \/ \E c \in calls : Notify(c) \/ Abandon(c)

Next == \/ StoreStep /\ UNCHANGED paymentOnly
        \/ PaymentStep

Spec == Init /\ [][Next]_vars

-----------------------------------------------------------------------------
(* Type correctness.                                                       *)
TypeOK ==
  /\ invoice \in [Invoice -> InvoiceRow]
  /\ documented \subseteq Invoice
  /\ onboarded \subseteq MC \cup Broker
  /\ disputes \subseteq Dispute
  /\ holds \subseteq HoldEvent
  /\ chargebacks \subseteq Chargeback
  /\ ledger \subseteq Entry
  /\ creditLog \subseteq LogRow
  /\ limit \in [MC -> LimitRow \cup {NoLimit}]
  /\ matchedTo \in [Invoice -> Nat]
  /\ notified \subseteq Invoice \X InvoiceStatus
  /\ calls \subseteq Call

-----------------------------------------------------------------------------
(* What the ledger promises however calls overlap, repeat or are cut off,  *)
(* as long as no client sends keys of its own.                             *)

HasEntry(i, type) == \E e \in ledger : e.inv = i /\ e.type = type
HasLog(i, part)   == \E l \in creditLog : l.inv = i /\ l.part = part

(* No money is moved twice: an invoice never has two ledger entries of one *)
(* type, whatever stale or repeated fund, settle, chargeback and write-off *)
(* calls run (the deterministic default keys of invoices.controller).      *)
NoDoubleEntry ==
  \A e, f \in ledger : e.inv = f.inv /\ e.type = f.type => e = f

(* What is released is what was held: a RESERVE_RELEASE, whose amount was  *)
(* read before its transaction, has a RESERVE_HOLD of the same amount.     *)
ReleaseMatchesHold ==
  \A e \in ledger : e.type = "RESERVE_RELEASE" =>
    \E f \in ledger : /\ f.type = "RESERVE_HOLD" /\ f.inv = e.inv
                      /\ f.amount = e.amount

(* The reserve stored on the invoice, which a later settle will release,   *)
(* stays the one the ledger holds, however often fund is repeated.         *)
ReserveAgreesWithLedger ==
  \A e \in ledger : e.type = "RESERVE_HOLD" =>
    invoice[e.inv].reserveAmount = e.amount

(* The advance and the reserve of an invoice, each rounded on its own when *)
(* it is stored, make up its amount: never less, and at most a cent more,  *)
(* whichever of repeated fund calls wrote which entry.                     *)
AdvanceAndReserveAddUp ==
  \A e, f \in ledger :
    e.type = "FUNDING_DISBURSEMENT" /\ f.type = "RESERVE_HOLD" /\ e.inv = f.inv
      => e.amount + f.amount - Amount[e.inv] \in {0, 1}

(* A write-off follows a chargeback and writes off the amount of one of    *)
(* the invoice's chargeback rows: the fallback to the full invoice amount  *)
(* in writeOff is never taken.                                             *)
WriteOffMatchesChargeback ==
  \A e \in ledger : e.type = "WRITE_OFF" =>
    /\ HasEntry(e.inv, "CHARGEBACK")
    /\ \E b \in chargebacks : b.inv = e.inv /\ b.amount = e.amount

(* An invoice that is FUNDED has been disbursed, has its reserve held and  *)
(* has been charged to the debtor's limit: fund's four writes commit as    *)
(* one, and a repeated fund that skips some finds them already there.      *)
FundedIsBacked ==
  \A i \in Invoice : invoice[i].status = "FUNDED" =>
    /\ HasEntry(i, "FUNDING_DISBURSEMENT")
    /\ HasEntry(i, "RESERVE_HOLD")
    /\ HasLog(i, "credit-limit")

(* Credit is only given back for an invoice that took it: settle and       *)
(* chargeback log a restore only after fund logged the exposure.           *)
RestoreFollowsFunding ==
  \A i \in Invoice : HasLog(i, "credit-limit-restore") => HasLog(i, "credit-limit")

(* Settled means paid: the matches read before the settlement transaction  *)
(* still cover the invoice whenever it is SETTLED.                         *)
SettledIsPaid ==
  \A i \in Invoice : invoice[i].status = "SETTLED" =>
    matchedTo[i] >= Amount[i] /\ HasEntry(i, "RESERVE_RELEASE")

(* A Broker is told that an invoice was funded or charged back only once   *)
(* the money entry is committed: notify() runs after the transaction.      *)
NotifiedAfterCommit ==
  \A i \in Invoice :
    /\ <<i, "FUNDED">> \in notified => HasEntry(i, "FUNDING_DISBURSEMENT")
    /\ <<i, "CHARGED_BACK">> \in notified => HasEntry(i, "CHARGEBACK")

-----------------------------------------------------------------------------
(* What holds of the side tables however calls overlap.                    *)

(* The flag that blocks settlement always has an active hold event behind  *)
(* it, so an Admin can see why: placing and releasing calls may interleave *)
(* but never leave the flag set over released events only.                 *)
HoldHasEvent ==
  \A i \in Invoice : invoice[i].reserveHold => ActiveHolds(i) # {}

(* A disputed invoice always has an open dispute to resolve, even after    *)
(* two resolutions found the same row.                                     *)
DisputedHasDispute ==
  \A i \in Invoice : invoice[i].status = "MC_DISPUTED" => OpenDisputes(i) # {}

(* Two uploads of the same number both pass the duplicate check; only one  *)
(* creates the invoice, and no later call brings it back to UPLOADED.      *)
NeverReuploaded ==
  [][\A i \in Invoice : Exists(i) /\ invoice'[i].status = "UPLOADED"
       => invoice[i].status = "UPLOADED"]_vars

(* However match calls interleave with each other and with the handlers, a *)
(* payment's status never claims more than has been matched: FULLY_MATCHED *)
(* and OVERPAID, which an Admin reads before settling, are backed by       *)
(* committed matches.                                                      *)
NeverOverstated == Pay!NeverOverstated

-----------------------------------------------------------------------------
(* What holds while calls on one invoice do not overlap and clients call a *)
(* handler only while the portal shows its button.                         *)

(* Every status change is one the transition table allows.                 *)
LegalMoves ==
  [][\A i \in Invoice :
       invoice'[i].status # invoice[i].status /\ Exists(i)
         => IsLegalTransition(invoice[i].status, invoice'[i].status)]_vars

(* A reserve hold blocks settlement: no SETTLED invoice has an active one. *)
HoldBlocksSettlement ==
  \A i \in Invoice : invoice[i].status = "SETTLED" => ActiveHolds(i) = {}

(* The hold flag and the hold events tell the same story.                  *)
HoldFlagAgrees ==
  \A i \in Invoice :
    Cardinality(ActiveHolds(i)) = IF invoice[i].reserveHold THEN 1 ELSE 0

Deltas(rows)      == MapThenSumSet(LAMBDA l : l.delta, rows)
LoggedExposure(i) == Deltas({l \in creditLog : l.inv = i})

(* Exposure follows the lifecycle: an invoice's logged deltas add up to    *)
(* its full amount while it is FUNDED and to nothing at any other time.    *)
ExposureFollowsStatus ==
  \A i \in Invoice : LoggedExposure(i) =
    IF invoice[i].status \in CreditExposedStatuses THEN Amount[i] ELSE 0

(* Every chargeback row's amount is that of the ledger entry it points to. *)
ChargebackMatchesLedger ==
  \A b \in chargebacks : \E e \in ledger :
    /\ e.key = b.entry /\ e.type = "CHARGEBACK"
    /\ e.inv = b.inv /\ e.amount = b.amount

-----------------------------------------------------------------------------
(* What holds while, moreover, calls on one account do not overlap.        *)

(* Funding is blocked outright when it would exceed the sub-limit: no step *)
(* that adds exposure leaves an account above its total.                   *)
FundingWithinLimit ==
  [][\A m \in MC :
       LET grows == /\ limit[m] # NoLimit
                    /\ limit'[m].used > limit[m].used
       IN  grows => limit'[m].used <= limit'[m].total]_vars

UsedOf(m) == IF limit[m] = NoLimit THEN 0 ELSE limit[m].used

(* No update of a counter is lost: an account's currentUsed, which         *)
(* applyDelta writes as an absolute value, is what the deltas of its log   *)
(* rows add up to.                                                         *)
CounterMatchesLog ==
  \A m \in MC :
    UsedOf(m) = Deltas({l \in creditLog : Debtor[l.inv] = m})

FullAmounts(invoices) == MapThenSumSet(LAMBDA i : Amount[i], invoices)

(* What a Machinery Company has used of its limit is the full amount of    *)
(* its FUNDED invoices, whatever else happened to the others before.       *)
CounterFollowsStatus ==
  \A m \in MC :
    UsedOf(m) = FullAmounts({i \in Invoice :
                               /\ Debtor[i] = m
                               /\ invoice[i].status \in CreditExposedStatuses})

(* The handlers implement the credit facility the README describes: what   *)
(* is exposed is what is FUNDED, and the counter moves with it.            *)
Facility == INSTANCE CreditFacility WITH
  exposed <- {i \in Invoice : invoice[i].status \in CreditExposedStatuses},
  closed  <- {i \in Invoice : invoice[i].status \in
                {"SETTLED", "CHARGED_BACK", "WRITTEN_OFF"}},
  total   <- [m \in MC |-> IF limit[m] = NoLimit THEN NoLimit
                                               ELSE limit[m].total],
  used    <- [m \in MC |-> IF limit[m] = NoLimit THEN 0 ELSE limit[m].used]

ImplementsFacility == Facility!FacilitySpec
=============================================================================
