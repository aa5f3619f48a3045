---------------------------- MODULE MCSideTables ----------------------------
(* The instance of FundingSystem that checks its side tables: the handlers *)
(* of holds, of intake and of payment matching do not touch each other's   *)
(* tables, so a behaviour lets one group of them overlap and leaves the    *)
(* others alone: the group is its scene.                                   *)
EXTENDS MCFunding

CONSTANTS p1

VARIABLE scene

MCSidePaid == [p \in Payment |-> IF p = p1 THEN 100 ELSE 60]

HoldOps   == {"fund", "settle", "placeHold", "releaseHold"}
IntakeOps == {"create", "attach", "extract", "mcDispute", "resolve", "cancel",
              "submit"}

(* Three calls over a funded invoice; one payment may be matched in full.  *)
HoldScene ==
  /\ \A c \in calls' : c.inv = i1 /\ c.op \in HoldOps
  /\ \A m \in matching' : m.payment = p1 /\ m.invoice = i1 /\ m.amount = 100
  /\ Cardinality(matching') <= 1
  /\ \A p \in Payment \ {p1} : payment'[p] = "NONE"
  /\ UNCHANGED documented

(* Two calls over an invoice that is not there yet.                        *)
IntakeScene ==
  /\ Cardinality(calls') <= 2
  /\ \A c \in calls' : c.inv = i2 /\ c.op \in IntakeOps
  /\ documented' \subseteq documented \cup {i2}
  /\ UNCHANGED paymentOnly

(* Two match calls over two payments and two invoices.                     *)
MatchingScene ==
  /\ calls' = {}
  /\ \A m \in matching' : m.amount < 100
  /\ UNCHANGED <<documented, limit>>

SideInit == Init /\ scene \in {"holds", "intake", "matching"}

SideNext ==
  /\ Next
  /\ CASE scene = "holds"    -> HoldScene
       [] scene = "intake"   -> IntakeScene
       [] scene = "matching" -> MatchingScene
  /\ UNCHANGED scene

SideSpec == SideInit /\ [][SideNext]_<<vars, scene>>
=============================================================================
