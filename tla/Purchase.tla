------------------------------ MODULE Purchase ------------------------------
(***************************************************************************)
(* What the commerce services promise about one purchase, whatever happens *)
(* to the status columns: it is issued once, then confirmed as paid, then  *)
(* ordered, and it never goes back or skips a stage.                       *)
(***************************************************************************)
CONSTANT Purchases

VARIABLE stage

Stages == {"none", "issued", "paid", "ordered"}

Init == stage = [i \in Purchases |-> "none"]

Move(i, from, to) == stage[i] = from /\ stage' = [stage EXCEPT ![i] = to]

Issue(i) == Move(i, "none", "issued")
Pay(i) == Move(i, "issued", "paid")
PlaceOrder(i) == Move(i, "paid", "ordered")

Next == \E i \in Purchases : Issue(i) \/ Pay(i) \/ PlaceOrder(i)

Spec == Init /\ [][Next]_stage
=============================================================================
