------------------------------ MODULE MCFunding ------------------------------
(* Values for the model-checked instances of FundingSystem: every invoice  *)
(* of one size is owed by the first Machinery Company to the one Broker,   *)
(* and a payment of that size may arrive.                                  *)
EXTENDS FundingSystem, TLC

CONSTANTS i1, i2, i3, m1, m2, b1

MCOwner       == [i \in Invoice |-> b1]
MCDebtor      == [i \in Invoice |-> m1]
MCDebtorApart == [i \in Invoice |-> IF i = i3 THEN m2 ELSE m1]
MCAmounts     == [i \in Invoice |-> IF i = i1 THEN 100 ELSE 50]
MCAmount      == [i \in Invoice |-> 100]
MCPayer       == [p \in Payment |-> m1]
MCPaid        == [p \in Payment |-> 100]
MCOpening     == [m \in MC |-> 100]
MCRoomForTwo  == [m \in MC |-> 200]
MCNotSet      == [m \in MC |-> NoLimit]

Symmetry == Permutations(Request) \cup Permutations(RowId)
=============================================================================
