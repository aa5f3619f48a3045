------------------------------ MODULE Payments ------------------------------
(***************************************************************************)
(* PaymentsService: an Admin records the payments Machinery Companies make *)
(* and matches them to invoices.  There is no unmatch, and nothing bounds  *)
(* what is matched by the payment's amount.  The PaymentInvoiceMatch table *)
(* is kept as its two sums, per payment and per invoice: all that the code *)
(* reads of it.                                                            *)
(***************************************************************************)
EXTENDS Integers, FiniteSets

CONSTANTS
  Invoice, Debtor,  \* invoices and the Machinery Company each is owed by
  Payment,          \* payments an Admin may record
  Payer, Paid,      \* the Machinery Company and the amount of a payment
  MatchAmounts,     \* amounts an Admin may match
  MaxMatched,       \* bound: matching stops once a payment has this much
  Matcher           \* slots for match calls in flight

(* What is taken of the constants.                                         *)
PaymentsAssumption ==
  /\ Payer \in [Payment -> {Debtor[i] : i \in Invoice}]
  /\ Paid \in [Payment -> Nat \ {0}]
  /\ MatchAmounts \subseteq Nat \ {0}
  /\ MaxMatched \in Nat

VARIABLES
  payment,      \* status of a payment, NONE before it is recorded
  receipts,     \* payments with a PAYMENT_RECEIPT ledger entry
  matchedFrom,  \* sum of the matches of a payment
  matchedTo,    \* sum of the matches of an invoice
  matching      \* match transactions in flight

paymentVars == <<payment, receipts, matchedFrom, matchedTo, matching>>

PaymentStatus == {"UNMATCHED", "PARTIALLY_MATCHED", "FULLY_MATCHED", "OVERPAID"}

MatchCall == [slot: Matcher, payment: Payment, invoice: Invoice,
              amount: Nat, total: Nat]

PaymentsTypeOK ==
  /\ payment \in [Payment -> PaymentStatus \cup {"NONE"}]
  /\ receipts \subseteq Payment
  /\ matchedFrom \in [Payment -> Nat]
  /\ matchedTo \in [Invoice -> Nat]
  /\ matching \subseteq MatchCall

PaymentsInit ==
  /\ payment = [p \in Payment |-> "NONE"]
  /\ receipts = {}
  /\ matchedFrom = [p \in Payment |-> 0]
  /\ matchedTo = [i \in Invoice |-> 0]
  /\ matching = {}

(* The payment row and its ledger entry, keyed by its id, in one           *)
(* transaction.                                                            *)
RecordPayment(p) ==
  /\ payment[p] = "NONE"
  /\ payment' = [payment EXCEPT ![p] = "UNMATCHED"]
  /\ receipts' = receipts \cup {p}
  /\ UNCHANGED <<matchedFrom, matchedTo, matching>>

StatusFor(total, amount) ==
  IF total = amount THEN "FULLY_MATCHED"
  ELSE IF total > amount THEN "OVERPAID" ELSE "PARTIALLY_MATCHED"

(* Mutant: the new match is counted twice.                                 *)
CountedTwice(p, x) == matchedFrom[p] + 2 * x

(* What a match transaction finds matched: what is committed and its own   *)
(* row, not the rows of other transactions in flight.                      *)
TotalMatched(p, x) == matchedFrom[p] + x

(* The transaction inserts its match and sums the payment's matches.       *)
MatchOpen(p, i, x) ==
  /\ payment[p] # "NONE"
  /\ Payer[p] = Debtor[i]
  /\ matchedFrom[p] + x <= MaxMatched
  /\ \E s \in Matcher :
       /\ \A m \in matching : m.slot # s
       /\ matching' = matching \cup
            {[slot |-> s, payment |-> p, invoice |-> i, amount |-> x,
              total |-> TotalMatched(p, x)]}
  /\ UNCHANGED <<payment, receipts, matchedFrom, matchedTo>>

(* It then overwrites the payment's status and commits.                    *)
MatchCommit(m) ==
  /\ m \in matching
  /\ matchedFrom' = [matchedFrom EXCEPT ![m.payment] = @ + m.amount]
  /\ matchedTo' = [matchedTo EXCEPT ![m.invoice] = @ + m.amount]
  /\ payment' = [payment EXCEPT ![m.payment] = StatusFor(m.total, Paid[m.payment])]
  /\ matching' = matching \ {m}
  /\ UNCHANGED receipts

(* The transaction is rolled back.                                         *)
MatchAbandon(m) ==
  /\ m \in matching
  /\ matching' = matching \ {m}
  /\ UNCHANGED <<payment, receipts, matchedFrom, matchedTo>>

PaymentsNext ==
  \/ \E p \in Payment :
       \/ RecordPayment(p)
       \/ \E i \in Invoice, x \in MatchAmounts : MatchOpen(p, i, x)
  \/ \E m \in matching : MatchCommit(m) \/ MatchAbandon(m)

PaymentsSpec == PaymentsInit /\ [][PaymentsNext]_paymentVars

-----------------------------------------------------------------------------
(* However match calls interleave, a payment's status never claims more    *)
(* than has been matched: FULLY_MATCHED and OVERPAID, which an Admin reads *)
(* before settling, are backed by committed matches.                       *)
NeverOverstated ==
  \A p \in Payment :
    /\ payment[p] = "FULLY_MATCHED" => matchedFrom[p] >= Paid[p]
    /\ payment[p] = "OVERPAID" => matchedFrom[p] > Paid[p]
=============================================================================
