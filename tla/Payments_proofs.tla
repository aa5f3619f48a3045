--------------------------- MODULE Payments_proofs ---------------------------
(***************************************************************************)
(* Proofs about payment matching, for any number of overlapping matches.   *)
(***************************************************************************)
EXTENDS Payments, TLAPS

(* The sum a match transaction read still bounds what is matched once the  *)
(* transaction commits: matches are only ever added.                       *)
TotalsKept == \A m \in matching : m.total <= matchedFrom[m.payment] + m.amount

MatchInv == PaymentsTypeOK /\ TotalsKept /\ NeverOverstated

(* A status is claimed only from a sum that supports it.                   *)
LEMMA StatusSupported ==
  ASSUME NEW total \in Nat, NEW amount \in Nat
  PROVE  /\ StatusFor(total, amount) \in PaymentStatus
         /\ StatusFor(total, amount) = "FULLY_MATCHED" => total >= amount
         /\ StatusFor(total, amount) = "OVERPAID" => total > amount
  BY DEF StatusFor, PaymentStatus

(* Recording a payment touches no match.                                   *)
LEMMA RecordMatches ==
  ASSUME MatchInv, NEW p \in Payment, RecordPayment(p)
  PROVE  MatchInv'
<1>1. PaymentsTypeOK'
  BY DEF MatchInv, PaymentsTypeOK, PaymentStatus, RecordPayment
<1>2. TotalsKept'
  BY DEF MatchInv, TotalsKept, RecordPayment
<1>3. NeverOverstated'
  BY DEF MatchInv, PaymentsTypeOK, NeverOverstated, RecordPayment
<1> QED BY <1>1, <1>2, <1>3 DEF MatchInv

(* A match that opens has read a sum that includes its own row.            *)
LEMMA OpenMatches ==
  ASSUME PaymentsAssumption, MatchInv, NEW p \in Payment, NEW i \in Invoice,
         NEW x \in MatchAmounts, MatchOpen(p, i, x)
  PROVE  MatchInv'
<1>1. PICK s \in Matcher :
        matching' = matching \cup
          {[slot |-> s, payment |-> p, invoice |-> i, amount |-> x,
            total |-> TotalMatched(p, x)]}
  BY DEF MatchOpen
<1> DEFINE call == [slot |-> s, payment |-> p, invoice |-> i, amount |-> x,
                    total |-> TotalMatched(p, x)]
<1>2. x \in Nat /\ matchedFrom[p] \in Nat
  BY DEF PaymentsAssumption, MatchInv, PaymentsTypeOK
<1>3. call \in MatchCall
  BY <1>1, <1>2 DEF MatchCall, TotalMatched
<1>4. call.total <= matchedFrom[call.payment] + call.amount
  BY <1>2 DEF TotalMatched
<1> HIDE DEF call
<1>5. /\ matching' = matching \cup {call}
      /\ UNCHANGED <<payment, receipts, matchedFrom, matchedTo>>
  BY <1>1 DEF MatchOpen, call
<1>6. PaymentsTypeOK'
  BY <1>3, <1>5 DEF MatchInv, PaymentsTypeOK
<1>7. TotalsKept'
  BY <1>4, <1>5 DEF MatchInv, TotalsKept
<1>8. NeverOverstated'
  BY <1>5 DEF MatchInv, NeverOverstated
<1> QED BY <1>6, <1>7, <1>8 DEF MatchInv

(* A match that commits adds its row and claims what its sum supports.     *)
LEMMA CommitMatches ==
  ASSUME PaymentsAssumption, MatchInv, NEW m \in matching, MatchCommit(m)
  PROVE  MatchInv'
<1>1. /\ m \in MatchCall /\ m.payment \in Payment /\ m.invoice \in Invoice
      /\ m.amount \in Nat /\ m.total \in Nat /\ Paid[m.payment] \in Nat
  BY DEF PaymentsAssumption, MatchInv, PaymentsTypeOK, MatchCall
<1>2. /\ matchedFrom \in [Payment -> Nat] /\ matchedTo \in [Invoice -> Nat]
      /\ payment \in [Payment -> PaymentStatus \cup {"NONE"}]
      /\ receipts \subseteq Payment /\ matching \subseteq MatchCall
      /\ TotalsKept /\ NeverOverstated
  BY DEF MatchInv, PaymentsTypeOK
<1> DEFINE status == StatusFor(m.total, Paid[m.payment])
<1>3. /\ status \in PaymentStatus
      /\ status = "FULLY_MATCHED" => m.total >= Paid[m.payment]
      /\ status = "OVERPAID" => m.total > Paid[m.payment]
  BY <1>1, StatusSupported
<1>4. payment' = [payment EXCEPT ![m.payment] = status]
  BY DEF MatchCommit
<1> HIDE DEF status
<1>5. PaymentsTypeOK'
  BY <1>1, <1>2, <1>3, <1>4 DEF MatchCommit, PaymentsTypeOK
<1>6. \A p \in Payment : matchedFrom'[p] \in Nat /\ matchedFrom'[p] >= matchedFrom[p]
  BY <1>1, <1>2 DEF MatchCommit
<1>7. m.total <= matchedFrom'[m.payment]
  BY <1>1, <1>2 DEF MatchCommit, TotalsKept
<1>8. TotalsKept'
  <2> SUFFICES ASSUME NEW n \in matching'
               PROVE  n.total <= matchedFrom'[n.payment] + n.amount
    BY DEF TotalsKept
  <2>1. n \in matching /\ n \in MatchCall
    BY <1>2 DEF MatchCommit
  <2>2. /\ n.payment \in Payment /\ n.total \in Nat /\ n.amount \in Nat
        /\ matchedFrom[n.payment] \in Nat
        /\ n.total <= matchedFrom[n.payment] + n.amount
    BY <1>2, <2>1 DEF MatchCall, TotalsKept
  <2> QED BY <1>6, <2>2
<1>9. NeverOverstated'
  <2> SUFFICES ASSUME NEW p \in Payment
               PROVE  /\ payment'[p] = "FULLY_MATCHED" => matchedFrom'[p] >= Paid[p]
                      /\ payment'[p] = "OVERPAID" => matchedFrom'[p] > Paid[p]
    BY DEF NeverOverstated
  <2>1. CASE p = m.payment
    <3>1. payment'[p] = status
      BY <1>1, <1>2, <1>4, <2>1
    <3>2. m.total <= matchedFrom'[p] /\ matchedFrom'[p] \in Nat
      BY <1>6, <1>7, <2>1
    <3> QED BY <1>1, <1>3, <2>1, <3>1, <3>2
  <2>2. CASE p # m.payment
    <3>1. payment'[p] = payment[p]
      BY <1>2, <1>4, <2>2
    <3>2. /\ matchedFrom[p] \in Nat /\ matchedFrom'[p] \in Nat /\ Paid[p] \in Nat
          /\ matchedFrom'[p] >= matchedFrom[p]
      BY <1>2, <1>6 DEF PaymentsAssumption
    <3>3. /\ payment[p] = "FULLY_MATCHED" => matchedFrom[p] >= Paid[p]
          /\ payment[p] = "OVERPAID" => matchedFrom[p] > Paid[p]
      BY <1>2 DEF NeverOverstated
    <3> QED BY <3>1, <3>2, <3>3
  <2> QED BY <2>1, <2>2
<1> QED BY <1>5, <1>8, <1>9 DEF MatchInv

(* A match that is rolled back leaves nothing behind.                      *)
LEMMA AbandonMatches ==
  ASSUME MatchInv, NEW m \in matching, MatchAbandon(m)
  PROVE  MatchInv'
  BY DEF MatchInv, PaymentsTypeOK, TotalsKept, NeverOverstated, MatchAbandon

(* Every step keeps the sums and the statuses in agreement.                *)
LEMMA MatchStep ==
  ASSUME PaymentsAssumption, MatchInv, [PaymentsNext]_paymentVars
  PROVE  MatchInv'
<1>1. CASE PaymentsNext
  BY <1>1, RecordMatches, OpenMatches, CommitMatches, AbandonMatches
     DEF PaymentsNext
<1>2. CASE UNCHANGED paymentVars
  BY <1>2 DEF paymentVars, MatchInv, PaymentsTypeOK, TotalsKept, NeverOverstated
<1> QED BY <1>1, <1>2

(* Before any payment is recorded nothing is matched.                      *)
LEMMA MatchInit == PaymentsInit => MatchInv
  BY DEF PaymentsInit, MatchInv, PaymentsTypeOK, TotalsKept, NeverOverstated

(* Payments, matches and match calls keep their types.                     *)
THEOREM PaymentsTypeCorrect ==
  ASSUME PaymentsAssumption
  PROVE  PaymentsSpec => []PaymentsTypeOK
<1>1. MatchInv => PaymentsTypeOK
  BY DEF MatchInv
<1>2. MatchInv /\ [PaymentsNext]_paymentVars => MatchInv'
  BY MatchStep
<1> QED BY MatchInit, <1>1, <1>2, PTL DEF PaymentsSpec

(* However many match calls overlap, no payment claims more than is        *)
(* matched: an Admin who reads FULLY_MATCHED can rely on it.               *)
THEOREM StatusNeverOverstated ==
  ASSUME PaymentsAssumption
  PROVE  PaymentsSpec => []NeverOverstated
<1>1. MatchInv => NeverOverstated
  BY DEF MatchInv
<1>2. MatchInv /\ [PaymentsNext]_paymentVars => MatchInv'
  BY MatchStep
<1> QED BY MatchInit, <1>1, <1>2, PTL DEF PaymentsSpec
=============================================================================
