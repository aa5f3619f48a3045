--------------------------- MODULE CreditFacility ---------------------------
(***************************************************************************)
(* What the credit sub-limit promises (README, "Credit exposure            *)
(* convention"): per Machinery Company one total and one counter; an       *)
(* invoice adds its full amount when it is funded, only if that stays      *)
(* within the total, and takes the same amount off once, when it is        *)
(* settled or charged back.  The total may be set to anything, even below  *)
(* what is used.                                                           *)
(***************************************************************************)
EXTENDS Integers

CONSTANTS Invoice, MC, Debtor, Amount, NoLimit

VARIABLES exposed,  \* invoices that count against their debtor's limit
          closed,   \* invoices that did and no longer do
          total,    \* the limit of an account, NoLimit when not configured
          used      \* the counter

facilityVars == <<exposed, closed, total, used>>

FacilityInit ==
  /\ exposed = {} /\ closed = {}
  /\ total \in [MC -> Nat \cup {NoLimit}]
  /\ used = [m \in MC |-> 0]

Expose(i) ==
  LET m == Debtor[i] IN
  /\ i \notin exposed \cup closed
  /\ total[m] # NoLimit /\ used[m] + Amount[i] <= total[m]
  /\ exposed' = exposed \cup {i}
  /\ used' = [used EXCEPT ![m] = @ + Amount[i]]
  /\ UNCHANGED <<closed, total>>

Restore(i) ==
  /\ i \in exposed
  /\ exposed' = exposed \ {i}
  /\ closed' = closed \cup {i}
  /\ used' = [used EXCEPT ![Debtor[i]] = @ - Amount[i]]
  /\ UNCHANGED total

SetTotal(m) ==
  /\ total'[m] \in Nat
  /\ total' = [total EXCEPT ![m] = total'[m]]
  /\ UNCHANGED <<exposed, closed, used>>

FacilityNext ==
  \/ \E i \in Invoice : Expose(i) \/ Restore(i)
  \/ \E m \in MC : SetTotal(m)

FacilitySpec == FacilityInit /\ [][FacilityNext]_facilityVars
=============================================================================
