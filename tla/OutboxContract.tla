--------------------------- MODULE OutboxContract ---------------------------
(***************************************************************************)
(* What the notification outbox promises: a letter once posted is closed   *)
(* exactly once, as SENT only when the mail provider has accepted it, and  *)
(* no letter waits for ever.  Nothing is said of when, in which order, or  *)
(* how often a letter reaches the provider before it is closed.            *)
(***************************************************************************)
EXTENDS Naturals, Sequences

VARIABLES
  letters,    \* the letters in the order they were posted
  delivered   \* numbers of the letters the provider accepted

contractVars == <<letters, delivered>>

ContractInit == letters = << >> /\ delivered = {}

Waiting(n) == n \in DOMAIN letters /\ letters[n].status = "PENDING"

PostLetter ==
  /\ Len(letters') = Len(letters) + 1
  /\ \A n \in DOMAIN letters : letters'[n] = letters[n]
  /\ letters'[Len(letters')].status = "PENDING"
  /\ UNCHANGED delivered

DeliverLetter(n) ==
  /\ Waiting(n)
  /\ delivered' = delivered \cup {n}
  /\ UNCHANGED letters

CloseLetter(n) ==
  /\ Waiting(n)
  /\ \/ n \in delivered /\ letters' = [letters EXCEPT ![n].status = "SENT"]
     \/ letters' = [letters EXCEPT ![n].status = "FAILED"]
  /\ UNCHANGED delivered

CloseSome == \E n \in DOMAIN letters : CloseLetter(n)

ContractNext ==
  \/ PostLetter
  \/ \E n \in DOMAIN letters : DeliverLetter(n)
  \/ CloseSome

ContractSpec ==
  ContractInit /\ [][ContractNext]_contractVars /\ WF_contractVars(CloseSome)
=============================================================================
