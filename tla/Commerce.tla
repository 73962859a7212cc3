------------------------------ MODULE Commerce ------------------------------
(***************************************************************************)
(* Invoices, payments and the creation of orders: InvoicesService,         *)
(* PaymentsService and OrdersService.createFromInvoice over the tables     *)
(* Listing, Invoice, Payment and Order.                                    *)
(*                                                                         *)
(* Every handler reads rows, checks them, awaits other queries and writes  *)
(* later with `update where id`: nothing rechecks the status it read.  A   *)
(* handler in progress is therefore a task, with what it has read so far,  *)
(* and each of its steps is one round trip to the database.  The writes of *)
(* one $transaction become visible in one step; the listing it reads at    *)
(* READ COMMITTED is read in an earlier step, while the transaction holds  *)
(* the lock of the invoice row.                                            *)
(***************************************************************************)
EXTENDS Integers

CONSTANTS
  Buyers,         \* users with a buyer profile
  Listings,       \* vehicles on offer
  Payments,       \* payment rows that may ever be created (bound)
  MaxInvoices,    \* invoice rows that may ever be created (bound)
  Handlers,       \* requests and cron runs that may be in progress at once
  AdminStatuses,  \* listing statuses an administrator sets by hand (bound)
  FleetListings,  \* what the optional listingId of a fleet invoice may be (bound)
  MayCrash,       \* whether a handler may die between two steps
  None            \* SQL null

ASSUME NoneIsNoRow == None \notin Buyers \cup Listings \cup Payments
ASSUME BoundsOK == MaxInvoices \in Nat /\ MayCrash \in BOOLEAN

\* An invoice row is known by the sequence number in its invoiceNumber.
Invoices == 1 .. MaxInvoices

ListingStatus == {"DRAFT", "PENDING_REVIEW", "APPROVED", "PUBLISHED", "SOLD",
                  "RESERVED", "SUSPENDED", "REJECTED", "EXPIRED", "ARCHIVED"}
InvoiceStatus == {"DRAFT", "SENT", "AWAITING_PAYMENT", "PAYMENT_SUBMITTED",
                  "UNDER_VERIFICATION", "PAYMENT_CONFIRMED", "PARTIALLY_PAID",
                  "FULLY_PAID", "EXPIRED", "REJECTED", "REFUNDED", "CANCELLED"}
PaymentStatus == {"SUBMITTED", "UNDER_VERIFICATION", "CONFIRMED", "REJECTED",
                  "REFUNDED"}

ASSUME AdminStatusesOK == AdminStatuses \subseteq ListingStatus
ASSUME FleetListingsOK == FleetListings \subseteq Listings \cup {None}

ActiveInvoiceStatuses == {"SENT", "AWAITING_PAYMENT", "PAYMENT_SUBMITTED",
                          "UNDER_VERIFICATION", "PARTIALLY_PAID"}
PayableInvoiceStatuses == {"SENT", "AWAITING_PAYMENT", "PARTIALLY_PAID"}
BuyerCancellableStatuses == {"SENT", "AWAITING_PAYMENT"}

PaymentTransitions ==
  {<<"SUBMITTED", "UNDER_VERIFICATION">>, <<"UNDER_VERIFICATION", "CONFIRMED">>,
   <<"UNDER_VERIFICATION", "REJECTED">>, <<"CONFIRMED", "REFUNDED">>}
CanPaymentTransition(from, to) == <<from, to>> \in PaymentTransitions

\* What an administrator may do by hand to a listing that invoices refer to.
ListingTransitions ==
  {<<"PUBLISHED", "RESERVED">>, <<"PUBLISHED", "SOLD">>,
   <<"PUBLISHED", "SUSPENDED">>, <<"PUBLISHED", "EXPIRED">>,
   <<"PUBLISHED", "ARCHIVED">>, <<"RESERVED", "PUBLISHED">>,
   <<"RESERVED", "SOLD">>, <<"SUSPENDED", "PUBLISHED">>, <<"SOLD", "ARCHIVED">>}

VARIABLES
  listing,   \* status of each listing
  invoice,   \* rows of the invoice table; status "ABSENT" before the insert
  payment,   \* rows of the payment table
  order,     \* number of the invoice's order row; 0 while there is none
  verified,  \* history: payments that some confirmation has committed
  task       \* the handlers in progress

vars == <<listing, invoice, payment, order, verified, task>>

AbsentInvoice == [status |-> "ABSENT", buyer |-> None, listing |-> None,
                  overdue |-> FALSE]
AbsentPayment == [status |-> "ABSENT", invoice |-> 0]

Idle == [pc |-> "idle", buyer |-> None, listing |-> None, inv |-> 0,
         pay |-> None, no |-> 0, saw |-> "nothing", todo |-> {}]

Init ==
  /\ listing = [l \in Listings |-> "PUBLISHED"]
  /\ invoice = [i \in Invoices |-> AbsentInvoice]
  /\ payment = [p \in Payments |-> AbsentPayment]
  /\ order = [i \in Invoices |-> 0]
  /\ verified = {}
  /\ task = [h \in Handlers |-> Idle]

-----------------------------------------------------------------------------
IsIdle(h) == task[h].pc = "idle"
At(h, pc) == task[h].pc = pc
Start(h, t) == IsIdle(h) /\ task' = [task EXCEPT ![h] = t]
Goto(h, pc) == task' = [task EXCEPT ![h].pc = pc]
Finish(h) == task' = [task EXCEPT ![h] = Idle]

\* generateReferenceNumber: one more than the latest number in the table.
IsNextNumber(used, n) ==
  /\ n \in {u + 1 : u \in used}
  /\ \A u \in used : u < n

UsedInvoiceNumbers == {0} \cup {i \in Invoices : invoice[i].status # "ABSENT"}
UsedOrderNumbers == {0} \cup {order[i] : i \in Invoices}

HasActiveInvoice(b, l) ==
  \E i \in Invoices : /\ invoice[i].buyer = b
                      /\ invoice[i].listing = l
                      /\ invoice[i].status \in ActiveInvoiceStatuses

PaymentsOf(i) == {p \in Payments : payment[p].invoice = i}

\* The row lock of invoice i: an open release transaction has updated the row.
InvoiceFree(h, i) ==
  \A g \in Handlers \ {h} : ~(task[g].saw # "nothing" /\ task[g].inv = i)

SetInvoiceStatus(i, s) == invoice' = [invoice EXCEPT ![i].status = s]

-----------------------------------------------------------------------------
(* requestInvoice and createFleetInvoice *)

BeginRequestInvoice(h, b, l) ==
  /\ listing[l] = "PUBLISHED"
  /\ \E i \in Invoices : invoice[i].status = "ABSENT"
  /\ Start(h, [Idle EXCEPT !.pc = "check", !.buyer = b, !.listing = l])
  /\ UNCHANGED <<listing, invoice, payment, order, verified>>

CheckActiveInvoice(h) ==
  /\ At(h, "check")
  /\ IF HasActiveInvoice(task[h].buyer, task[h].listing)
       THEN Finish(h)
       ELSE Goto(h, "number")
  /\ UNCHANGED <<listing, invoice, payment, order, verified>>

BeginFleetInvoice(h, b, l) ==
  /\ \E i \in Invoices : invoice[i].status = "ABSENT"
  /\ Start(h, [Idle EXCEPT !.pc = "number", !.buyer = b, !.listing = l])
  /\ UNCHANGED <<listing, invoice, payment, order, verified>>

\* A request that finds all MaxInvoices numbers taken is dropped (bound).
TakeInvoiceNumber(h) ==
  /\ At(h, "number")
  /\ \E n \in 1 .. MaxInvoices + 1 :
       /\ IsNextNumber(UsedInvoiceNumbers, n)
       /\ IF n \in Invoices
            THEN task' = [task EXCEPT ![h].pc = "create", ![h].no = n]
            ELSE Finish(h)
  /\ UNCHANGED <<listing, invoice, payment, order, verified>>

\* The insert violates the unique invoiceNumber when another request has taken
\* the same number since it was generated; the request then fails.
CreateInvoice(h) ==
  LET n == task[h].no IN
  /\ At(h, "create")
  /\ \/ /\ invoice[n].status = "ABSENT"
        /\ invoice' = [invoice EXCEPT ![n] =
             [status |-> "SENT", buyer |-> task[h].buyer,
              listing |-> task[h].listing, overdue |-> FALSE]]
     \/ /\ invoice[n].status # "ABSENT"
        /\ UNCHANGED invoice
  /\ Finish(h)
  /\ UNCHANGED <<listing, payment, order, verified>>

-----------------------------------------------------------------------------
(* PaymentsService *)

BeginSubmitPayment(h, i) ==
  /\ invoice[i].status \in PayableInvoiceStatuses
  /\ \E p \in Payments : payment[p].status = "ABSENT"
  /\ Start(h, [Idle EXCEPT !.pc = "submit", !.inv = i])
  /\ UNCHANGED <<listing, invoice, payment, order, verified>>

CommitSubmitPaymentUnbundled(h) ==   \* faulty: two writes, no transaction
  LET i == task[h].inv IN
  /\ At(h, "submit")
  /\ InvoiceFree(h, i)
  /\ SetInvoiceStatus(i, "PAYMENT_SUBMITTED")
  /\ \/ UNCHANGED payment
     \/ \E p \in Payments :
          /\ payment[p].status = "ABSENT"
          /\ payment' = [payment EXCEPT ![p] =
               [status |-> "UNDER_VERIFICATION", invoice |-> i]]
  /\ Finish(h)
  /\ UNCHANGED <<listing, order, verified>>

\* A submission beyond the last payment row is dropped (bound).
CommitSubmitPayment(h) ==
  LET i == task[h].inv IN
  /\ At(h, "submit")
  /\ InvoiceFree(h, i)
  /\ \/ \E p \in Payments :
          /\ payment[p].status = "ABSENT"
          /\ payment' = [payment EXCEPT ![p] =
               [status |-> "UNDER_VERIFICATION", invoice |-> i]]
          /\ SetInvoiceStatus(i, "PAYMENT_SUBMITTED")
     \/ /\ \A p \in Payments : payment[p].status # "ABSENT"
        /\ UNCHANGED <<payment, invoice>>
  /\ Finish(h)
  /\ UNCHANGED <<listing, order, verified>>

BeginDecision(h, p, pc) ==
  /\ Start(h, [Idle EXCEPT !.pc = pc, !.pay = p, !.inv = payment[p].invoice])
  /\ UNCHANGED <<listing, invoice, payment, order, verified>>

BeginConfirmPaymentEagerly(h, p) ==   \* faulty: the order before the confirmation
  /\ CanPaymentTransition(payment[p].status, "CONFIRMED")
  /\ BeginDecision(h, p, "order")

BeginConfirmPayment(h, p) ==
  /\ CanPaymentTransition(payment[p].status, "CONFIRMED")
  /\ BeginDecision(h, p, "confirm")

CommitConfirmPaymentOnly(h) ==   \* faulty: never calls createFromInvoice
  LET p == task[h].pay IN
  /\ At(h, "confirm")
  /\ InvoiceFree(h, task[h].inv)
  /\ payment' = [payment EXCEPT ![p].status = "CONFIRMED"]
  /\ SetInvoiceStatus(task[h].inv, "PAYMENT_CONFIRMED")
  /\ verified' = verified \cup {p}
  /\ Finish(h)
  /\ UNCHANGED <<listing, order>>

CommitConfirmPayment(h) ==
  LET p == task[h].pay IN
  /\ At(h, "confirm")
  /\ InvoiceFree(h, task[h].inv)
  /\ payment' = [payment EXCEPT ![p].status = "CONFIRMED"]
  /\ SetInvoiceStatus(task[h].inv, "PAYMENT_CONFIRMED")
  /\ verified' = verified \cup {p}
  /\ Goto(h, "order")
  /\ UNCHANGED <<listing, order>>

BeginRejectPaymentLate(h, p) ==   \* faulty: a confirmed payment can be rejected
  /\ payment[p].status \in {"UNDER_VERIFICATION", "CONFIRMED"}
  /\ BeginDecision(h, p, "reject")

BeginRejectPayment(h, p) ==
  /\ CanPaymentTransition(payment[p].status, "REJECTED")
  /\ BeginDecision(h, p, "reject")

CommitRejectPayment(h) ==
  /\ At(h, "reject")
  /\ InvoiceFree(h, task[h].inv)
  /\ payment' = [payment EXCEPT ![task[h].pay].status = "REJECTED"]
  /\ SetInvoiceStatus(task[h].inv, "AWAITING_PAYMENT")
  /\ Finish(h)
  /\ UNCHANGED <<listing, order, verified>>

\* The payment itself stays under verification.
BeginMarkPartial(h, p) ==
  /\ payment[p].status = "UNDER_VERIFICATION"
  /\ BeginDecision(h, p, "partial")

CommitMarkPartialReopening(h) ==   \* faulty: puts the payment back under verification
  /\ At(h, "partial")
  /\ InvoiceFree(h, task[h].inv)
  /\ SetInvoiceStatus(task[h].inv, "PARTIALLY_PAID")
  /\ payment' = [payment EXCEPT ![task[h].pay].status = "UNDER_VERIFICATION"]
  /\ Finish(h)
  /\ UNCHANGED <<listing, order, verified>>

CommitMarkPartial(h) ==
  /\ At(h, "partial")
  /\ InvoiceFree(h, task[h].inv)
  /\ SetInvoiceStatus(task[h].inv, "PARTIALLY_PAID")
  /\ Finish(h)
  /\ UNCHANGED <<listing, payment, order, verified>>

-----------------------------------------------------------------------------
(* OrdersService.createFromInvoice, called when a confirmation has committed *)

\* An existing order is returned; an invoice without a vehicle is refused,
\* though its payment is already confirmed.
PrepareOrder(h) ==
  LET i == task[h].inv IN
  /\ At(h, "order")
  /\ IF order[i] # 0 \/ invoice[i].listing = None
       THEN Finish(h)
       ELSE Goto(h, "orderNumber")
  /\ UNCHANGED <<listing, invoice, payment, order, verified>>

TakeOrderNumber(h) ==
  /\ At(h, "orderNumber")
  /\ \E n \in {u + 1 : u \in UsedOrderNumbers} :
       /\ IsNextNumber(UsedOrderNumbers, n)
       /\ task' = [task EXCEPT ![h].pc = "createOrder", ![h].no = n]
  /\ UNCHANGED <<listing, invoice, payment, order, verified>>

\* orderNumber and invoiceId are unique: a second insert fails the request.
OrderInsertAllowed(i, n) == order[i] = 0 /\ n \notin UsedOrderNumbers

CreateOrder(h) ==
  LET i == task[h].inv
      n == task[h].no IN
  /\ At(h, "createOrder")
  /\ \/ OrderInsertAllowed(i, n) /\ order' = [order EXCEPT ![i] = n]
     \/ ~OrderInsertAllowed(i, n) /\ UNCHANGED order
  /\ Finish(h)
  /\ UNCHANGED <<listing, invoice, payment, verified>>

-----------------------------------------------------------------------------
(* Cancellation and expiry: both end an invoice and release its listing *)

BeginCancelByBuyerPaid(h, i) ==   \* faulty: does not count the payments
  /\ invoice[i].status \in BuyerCancellableStatuses
  /\ Start(h, [Idle EXCEPT !.pc = "cancelByBuyer", !.todo = {i}])
  /\ UNCHANGED <<listing, invoice, payment, order, verified>>

BeginCancelByBuyer(h, i) ==
  /\ invoice[i].status \in BuyerCancellableStatuses
  /\ PaymentsOf(i) = {}
  /\ Start(h, [Idle EXCEPT !.pc = "cancelByBuyer", !.todo = {i}])
  /\ UNCHANGED <<listing, invoice, payment, order, verified>>

BeginCancelByAdmin(h, i) ==
  /\ invoice[i].status \notin
       {"ABSENT", "CANCELLED", "PAYMENT_CONFIRMED", "FULLY_PAID"}
  /\ Start(h, [Idle EXCEPT !.pc = "cancelByAdmin", !.todo = {i}])
  /\ UNCHANGED <<listing, invoice, payment, order, verified>>

IsDue(i) == invoice[i].overdue /\ invoice[i].status \in {"SENT", "AWAITING_PAYMENT"}
DueInvoicesSent == {i \in Invoices : IsDue(i) /\ invoice[i].status = "SENT"}   \* faulty
DueInvoices == {i \in Invoices : IsDue(i)}

\* The midnight cron: one findMany, then one transaction per invoice found.
BeginExpiry(h) ==
  /\ DueInvoices # {}
  /\ Start(h, [Idle EXCEPT !.pc = "expire", !.todo = DueInvoices])
  /\ UNCHANGED <<listing, invoice, payment, order, verified>>

EndStatusUnknown(pc) == IF pc = "expire" THEN "OVERDUE" ELSE "CANCELLED"   \* faulty
EndStatus(pc) == IF pc = "expire" THEN "EXPIRED" ELSE "CANCELLED"

\* The transaction updates invoice i (the row is locked) and reads its listing.
OpenRelease(h, i) ==
  LET l == invoice[i].listing IN
  /\ task[h].pc \in {"cancelByBuyer", "cancelByAdmin", "expire"}
  /\ task[h].saw = "nothing"
  /\ i \in task[h].todo
  /\ InvoiceFree(h, i)
  /\ task' = [task EXCEPT ![h].inv = i,
       ![h].saw = IF l \in Listings /\ listing[l] = "RESERVED"
                    THEN "reserved" ELSE "other"]
  /\ UNCHANGED <<listing, invoice, payment, order, verified>>

\* It commits: the invoice is over, a listing it saw RESERVED is PUBLISHED.
CommitRelease(h) ==
  LET i == task[h].inv
      rest == task[h].todo \ {i} IN
  /\ task[h].saw # "nothing"
  /\ SetInvoiceStatus(i, EndStatus(task[h].pc))
  /\ listing' = IF task[h].saw = "reserved"
                  THEN [listing EXCEPT ![invoice[i].listing] = "PUBLISHED"]
                  ELSE listing
  /\ task' = [task EXCEPT ![h] =
       IF rest = {} THEN Idle
                    ELSE [@ EXCEPT !.inv = 0, !.saw = "nothing", !.todo = rest]]
  /\ UNCHANGED <<payment, order, verified>>

-----------------------------------------------------------------------------
(* The environment *)

\* Seven days pass since the invoice was issued.
PassDeadline(i) ==
  /\ invoice[i].status # "ABSENT" /\ ~invoice[i].overdue
  /\ invoice' = [invoice EXCEPT ![i].overdue = TRUE]
  /\ UNCHANGED <<listing, payment, order, verified, task>>

\* No handler here reserves or sells a vehicle: administrators do, by hand.
SetListingStatus(l, s) ==
  /\ <<listing[l], s>> \in ListingTransitions
  /\ listing' = [listing EXCEPT ![l] = s]
  /\ UNCHANGED <<invoice, payment, order, verified, task>>

\* A failing query, mail or process ends a handler; an open transaction rolls back.
Crash(h) ==
  /\ MayCrash /\ ~IsIdle(h)
  /\ Finish(h)
  /\ UNCHANGED <<listing, invoice, payment, order, verified>>

-----------------------------------------------------------------------------
Begin(h) ==
  \/ \E b \in Buyers, l \in Listings : BeginRequestInvoice(h, b, l)
  \/ \E b \in Buyers, l \in FleetListings : BeginFleetInvoice(h, b, l)
  \/ \E i \in Invoices : \/ BeginSubmitPayment(h, i)
                         \/ BeginCancelByBuyer(h, i)
                         \/ BeginCancelByAdmin(h, i)
  \/ \E p \in Payments : \/ BeginConfirmPayment(h, p)
                         \/ BeginRejectPayment(h, p)
                         \/ BeginMarkPartial(h, p)
  \/ BeginExpiry(h)

\* A step of a handler in progress.
Continue(h) ==
  \/ CheckActiveInvoice(h) \/ TakeInvoiceNumber(h) \/ CreateInvoice(h)
  \/ CommitSubmitPayment(h) \/ CommitConfirmPayment(h)
  \/ CommitRejectPayment(h) \/ CommitMarkPartial(h)
  \/ PrepareOrder(h) \/ TakeOrderNumber(h) \/ CreateOrder(h)
  \/ \E i \in Invoices : OpenRelease(h, i)
  \/ CommitRelease(h)

Next ==
  \/ \E h \in Handlers : Begin(h) \/ Continue(h) \/ Crash(h)
  \/ \E i \in Invoices : PassDeadline(i)
  \/ \E l \in Listings, s \in AdminStatuses : SetListingStatus(l, s)

Spec == Init /\ [][Next]_vars

\* The event loop resumes every pending await, and the cron runs every midnight.
Fairness == \A h \in Handlers : WF_vars(Continue(h)) /\ SF_vars(BeginExpiry(h))

FairSpec == Spec /\ Fairness

-----------------------------------------------------------------------------
(* Properties *)

TaskPCs == {"idle", "check", "number", "create", "submit", "confirm", "order",
            "orderNumber", "createOrder", "reject", "partial", "cancelByBuyer",
            "cancelByAdmin", "expire"}

\* A confirmation that has committed and is creating the order.
OrderPCs == {"order", "orderNumber", "createOrder"}

TaskType ==
  [pc : TaskPCs, buyer : Buyers \cup {None}, listing : Listings \cup {None},
   inv : Invoices \cup {0}, pay : Payments \cup {None}, no : Nat,
   saw : {"nothing", "reserved", "other"}, todo : SUBSET Invoices]

InvoiceType ==
  [status : InvoiceStatus \cup {"ABSENT"}, buyer : Buyers \cup {None},
   listing : Listings \cup {None}, overdue : BOOLEAN]

PaymentType ==
  [status : PaymentStatus \cup {"ABSENT"}, invoice : Invoices \cup {0}]

\* The tables hold well-formed rows and every task is well formed.
TypeOK ==
  /\ listing \in [Listings -> ListingStatus]
  /\ invoice \in [Invoices -> InvoiceType]
  /\ payment \in [Payments -> PaymentType]
  /\ order \in [Invoices -> Nat]
  /\ verified \in SUBSET Payments
  /\ task \in [Handlers -> TaskType]

\* An order exists only for an invoice on a vehicle, one of whose own payments
\* an administrator has confirmed (createFromInvoice is reached from nowhere else).
HasBacking(i) ==
  /\ invoice[i].listing \in Listings
  /\ \E p \in verified : payment[p].invoice = i

OrderIsBacked == \A i \in Invoices : order[i] # 0 => HasBacking(i)

\* A task refers only to rows that exist, and what it carries from its first read
\* to its last write stays true however long it is suspended: the payment's
\* invoice, the confirmation behind an order, the vehicle behind a release.
TaskIsSound(h) ==
  LET t == task[h] IN
  /\ t.pc \in {"submit", "confirm", "reject", "partial"} \cup OrderPCs =>
       t.inv \in Invoices /\ invoice[t.inv].status # "ABSENT"
  /\ t.pc \in {"confirm", "reject", "partial"} =>
       /\ t.pay \in Payments
       /\ payment[t.pay].status # "ABSENT"
       /\ payment[t.pay].invoice = t.inv
  /\ t.pc \in OrderPCs =>
       \E p \in verified : payment[p].invoice = t.inv
  /\ t.pc = "create" => t.no \in Invoices
  /\ t.pc \in {"orderNumber", "createOrder"} => invoice[t.inv].listing \in Listings
  /\ t.pc = "createOrder" => t.no # 0
  /\ t.saw # "nothing" =>
       /\ t.pc \in {"cancelByBuyer", "cancelByAdmin", "expire"}
       /\ t.inv \in t.todo
  /\ t.saw = "reserved" => invoice[t.inv].listing \in Listings
  /\ \A i \in t.todo : invoice[i].status # "ABSENT"

TasksAreSound == \A h \in Handlers : TaskIsSound(h)

\* A payment row belongs to an issued invoice for good, and a payment that a
\* confirmation committed has been decided.
PaymentsAreSound ==
  /\ \A p \in Payments :
       IF payment[p].status = "ABSENT"
         THEN payment[p].invoice = 0
         ELSE /\ payment[p].invoice \in Invoices
              /\ invoice[payment[p].invoice].status # "ABSENT"
  /\ \A p \in verified : payment[p].status \in {"CONFIRMED", "REJECTED"}

\* However the status updates of concurrent handlers overwrite one another, an
\* invoice that claims a payment has one, and one that claims a confirmed payment
\* has one that was confirmed.
HasEvidence(i) ==
  /\ invoice[i].status \in {"PAYMENT_SUBMITTED", "PARTIALLY_PAID"} =>
       PaymentsOf(i) # {}
  /\ invoice[i].status = "PAYMENT_CONFIRMED" => PaymentsOf(i) \cap verified # {}

StatusHasEvidence == \A i \in Invoices : HasEvidence(i)

\* What an order or an invoice status claims about payments is always so: nothing is
\* ordered unpaid, and no handler leaves a status without the payment it speaks of.
ClaimsAreBacked == OrderIsBacked /\ StatusHasEvidence

\* Two confirmations that both find no order, or that generate the same order
\* number, leave two different orders with different numbers or one order.
OrderNumbersUnique ==
  \A i, j \in Invoices : order[i] = order[j] /\ order[i] # 0 => i = j

\* The order of an invoice, once created, is never replaced by another one
\* (a second confirmed payment of the invoice, two confirmations at once).
OrderIsPermanent ==
  [][\A i \in Invoices : order[i] # 0 => order'[i] = order[i]]_vars

\* A decided payment never becomes undecided or moves to another invoice, not
\* even when a resubmission or a second decision is committed late.
DecisionIsFinal ==
  [][\A p \in Payments : payment[p].status \in {"CONFIRMED", "REJECTED"} =>
       /\ payment'[p].status \in {"CONFIRMED", "REJECTED"}
       /\ payment'[p].invoice = payment[p].invoice]_vars

\* A payment changes its status only along PAYMENT_TRANSITIONS, as
\* assertPaymentTransition means to enforce.
PaymentStatusMachine ==
  [][\A p \in Payments :
       payment'[p].status # payment[p].status =>
         \/ payment[p].status = "ABSENT"
         \/ CanPaymentTransition(payment[p].status, payment'[p].status)]_vars

\* A buyer's cancellation never ends an invoice that has received a payment.
BuyerCancelsUnpaidOnly ==
  [][\A i \in Invoices :
       (/\ invoice[i].status # "CANCELLED" /\ invoice'[i].status = "CANCELLED"
        /\ PaymentsOf(i) # {})
       => \A h \in Handlers : ~(task[h].pc = "cancelByBuyer" /\ task[h].inv = i)]_vars

\* The expiry job ends only invoices that still await a payment: one whose
\* payment is submitted, confirmed or partial is not expired under the buyer.
ExpiresUnpaidOnly ==
  [][\A i \in Invoices :
       (invoice[i].status # "EXPIRED" /\ invoice'[i].status = "EXPIRED")
       => invoice[i].status \in {"SENT", "AWAITING_PAYMENT"}]_vars

\* Neither the buyer nor the nightly job ends an invoice that is being paid.
EndsUnpaidOnly == BuyerCancelsUnpaidOnly /\ ExpiresUnpaidOnly

\* A buyer has at most one active invoice per vehicle requested through
\* requestInvoice ("You already have an active invoice for this vehicle").
OneActiveInvoice ==
  \A i, j \in Invoices :
    (/\ i # j /\ invoice[i].listing # None
     /\ invoice[i].listing = invoice[j].listing
     /\ invoice[i].buyer = invoice[j].buyer)
    => ~({invoice[i].status, invoice[j].status} \subseteq ActiveInvoiceStatuses)

\* Once a payment for a vehicle is confirmed, its order is eventually created.
ConfirmedIsOrdered ==
  \A i \in Invoices :
    ((\E p \in verified : payment[p].invoice = i) /\ invoice[i].listing # None)
      ~> (order[i] # 0)

\* A confirmed payment for a vehicle has its order as soon as the confirmation
\* that recorded it is over: it is not left behind without one.
NoStrandedPayment ==
  \A p \in verified :
    LET i == payment[p].invoice IN
    \/ invoice[i].listing = None
    \/ order[i] # 0
    \/ \E h \in Handlers : task[h].pc \in OrderPCs /\ task[h].inv = i

\* An invoice past its deadline does not await payment forever.
OverdueIsEnded == \A i \in Invoices : IsDue(i) ~> ~IsDue(i)

\* The stage of each purchase, read off the tables and the history.
PurchaseStage ==
  [i \in Invoices |->
     IF order[i] # 0 THEN "ordered"
     ELSE IF \E p \in verified : payment[p].invoice = i THEN "paid"
     ELSE IF invoice[i].status # "ABSENT" THEN "issued" ELSE "none"]

PurchaseSpec == INSTANCE Purchase WITH Purchases <- Invoices,
                                       stage <- PurchaseStage

\* Every behaviour of the handlers is a behaviour of the abstract purchase: none
\* is ordered before it is paid or loses its order.
RefinesPurchase == PurchaseSpec!Spec
=============================================================================
