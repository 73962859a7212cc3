------------------------------- MODULE Sales --------------------------------
(***************************************************************************)
(* Commerce and Fulfilment together: the order a confirmed payment brings  *)
(* about is the one that is shipped and delivered.  Both write the Order   *)
(* table.  createFromInvoice inserts the row, with its number, first stage *)
(* and first event, in one transaction; every other step is one of either  *)
(* part.                                                                   *)
(*                                                                         *)
(* `order` is the number of an invoice's order, `progress` its stage and   *)
(* shipment, `task` and `errand` are the requests of either part.          *)
(***************************************************************************)
EXTENDS Commerce

CONSTANTS
  SellerTypes, MaxEvents, MaxShipments,  \* as in Fulfilment
  Couriers                               \* requests about orders in progress at once

VARIABLES progress, track, metric, shipments, errand, contended, uncounted

F == INSTANCE Fulfilment WITH Orders <- Invoices, order <- progress,
                              Handlers <- Couriers, task <- errand

\* What Fulfilment assumes of its constants.
SaleBoundsOK ==
  /\ SellerTypes \subseteq F!SellerType /\ None \notin Invoices
  /\ MaxEvents \in Nat /\ MaxShipments \in Nat

fulfilment == <<progress, track, metric, shipments, errand, contended, uncounted>>
saleVars == <<listing, invoice, payment, order, verified, task, progress, track, metric,
              shipments, errand, contended, uncounted>>

SalesInit == Init /\ F!Init

\* A step of invoices and payments; an order that is inserted gets its row.
CommerceStep ==
  /\ Next
  /\ IF order' = order THEN UNCHANGED fulfilment
       ELSE \E i \in Invoices : order'[i] # order[i] /\ F!CreateOrder(i)

\* A step of a request about an order.
FulfilmentStep ==
  /\ \E h \in Couriers : F!Begin(h) \/ F!Continue(h) \/ F!Crash(h)
  /\ UNCHANGED vars

SalesNext == CommerceStep \/ FulfilmentStep

SalesSpec == SalesInit /\ [][SalesNext]_saleVars

-----------------------------------------------------------------------------
(* Properties *)

\* The stage of each sale, read off the tables and the history of both parts.
SaleStage ==
  [i \in Invoices |->
     IF metric[i] > 0 THEN "counted"
     ELSE IF F!Deliveries(i) # {} THEN "delivered" ELSE PurchaseStage[i]]

SaleForm == INSTANCE Sale WITH Purchases <- Invoices, stage <- SaleStage

\* An order that was delivered, or counted as delivered, is that of an invoice of which some
\* confirmation has committed a payment, whatever the invoice and the order became since.
OnlyPaidIsDelivered ==
  \A i \in Invoices :
    F!Deliveries(i) # {} \/ metric[i] > 0
      => order[i] # 0 /\ PaymentsOf(i) \cap verified # {}

\* Whatever requests about invoices, payments and orders overlap or die, every sale goes
\* its way stage by stage: a vehicle is delivered only to who has paid for it and ordered
\* it, and only what was delivered is counted.
RefinesSale == SaleForm!SaleSpec
=============================================================================
