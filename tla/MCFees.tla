------------------------------- MODULE MCFees -------------------------------
(* Values for the model-checked instances of the fee run: the invoices are *)
(* the first Broker's, and two of them leave the first band.               *)
EXTENDS Fees

CONSTANTS i1, i2, b1, b2, t1, t2

MCOwner   == [i \in Invoice |-> b1]
MCAmount  == [i \in Invoice |-> 10050]
MCGallons == [i \in Invoice |-> 10]
MCFrom    == [t \in Tier |-> IF t = t1 THEN 0 ELSE 20]
MCTo      == [t \in Tier |-> IF t = t1 THEN 20 ELSE 0]
MCPct     == [t \in Tier |-> IF t = t1 THEN 1500 ELSE 1250]
=============================================================================
