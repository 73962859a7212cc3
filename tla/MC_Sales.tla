------------------------------ MODULE MC_Sales ------------------------------
(***************************************************************************)
(* A small instance of Sales for TLC, seen from the orders: the names of   *)
(* Fulfilment are as they are in that module, whose properties and         *)
(* fairness are checked as they stand, but an order is inserted only when  *)
(* the invoices and payments of Commerce bring it about.                   *)
(***************************************************************************)
EXTENDS Fulfilment

CONSTANTS
  Buyers, Listings, Payments, MaxInvoices, AdminStatuses, FleetListings, MayCrash,
  Clerks       \* the requests about invoices and payments

VARIABLES
  listing, invoice, payment, verified,
  number,      \* of the order of an invoice
  request      \* the clerks' tasks

S == INSTANCE Sales WITH Handlers <- Clerks, task <- request, order <- number,
                         Couriers <- Handlers, errand <- task, progress <- order

ASSUME OrdersAreOfInvoices == Orders = 1 .. MaxInvoices /\ S!SaleBoundsOK

SalesSpec == S!SalesSpec /\ Fairness

\* Every sale is issued, paid, ordered, delivered and counted in this order.
RefinesSale == S!RefinesSale
=============================================================================
