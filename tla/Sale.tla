-------------------------------- MODULE Sale --------------------------------
(***************************************************************************)
(* A purchase to its end: the vehicle ordered is delivered, and what its   *)
(* delivery saves is counted.  Nothing is delivered that was not paid.     *)
(***************************************************************************)
EXTENDS Purchase

Deliver(i) == Move(i, "ordered", "delivered")
Count(i) == Move(i, "delivered", "counted")

SaleNext == Next \/ \E i \in Purchases : Deliver(i) \/ Count(i)

SaleSpec == Init /\ [][SaleNext]_stage
=============================================================================
