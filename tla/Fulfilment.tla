----------------------------- MODULE Fulfilment -----------------------------
(***************************************************************************)
(* OrdersService after payment: the stages of an order, its tracking       *)
(* timeline, its shipment, and the sustainability metric of its delivery.  *)
(*                                                                         *)
(* As in Commerce a handler is a task that reads, awaits and writes later  *)
(* by id.  History variables record the orders on which two tasks were in  *)
(* progress at once and the orders whose delivery a handler died on.       *)
(***************************************************************************)
EXTENDS Integers, Sequences

CONSTANTS
  Orders,
  SellerTypes,   \* the seller types that occur
  MaxEvents,     \* length of a timeline (bound)
  MaxShipments,  \* shipments that may ever be created (bound)
  Handlers,      \* requests that may be in progress at once
  None           \* no order

SellerType == {"UZA_RWANDA_STOCK", "LOCAL_SELLER", "UZA_CHINA_SOURCING",
               "INTERNATIONAL_SELLER"}

ASSUME SellersOK == SellerTypes \subseteq SellerType
ASSUME NoneIsNoOrder == None \notin Orders
ASSUME EventBoundsOK == MaxEvents \in Nat /\ MaxShipments \in Nat

ImportStages ==
  <<"PAYMENT_CONFIRMED", "VEHICLE_RESERVED", "PROCESSING", "IN_TRANSIT", "ARRIVED",
    "CLEARANCE", "READY_FOR_HANDOVER", "DELIVERED">>

ORDER_STAGES ==
  [UZA_RWANDA_STOCK |->
     <<"PAYMENT_CONFIRMED", "VEHICLE_RESERVED", "READY_FOR_HANDOVER", "DELIVERED">>,
   LOCAL_SELLER |->
     <<"PAYMENT_CONFIRMED", "VEHICLE_RESERVED", "PROCESSING", "READY_FOR_HANDOVER",
       "DELIVERED">>,
   UZA_CHINA_SOURCING |-> ImportStages,
   INTERNATIONAL_SELLER |-> ImportStages]

OrderStatus == {"PAYMENT_CONFIRMED", "VEHICLE_RESERVED", "PROCESSING", "IN_TRANSIT",
                "ARRIVED", "CLEARANCE", "READY_FOR_HANDOVER", "DELIVERED", "CANCELLED"}

\* getNextOrderStatus, as the relation "next is the stage that follows".
IsNextOrderStatus(seller, current, next) ==
  LET stages == ORDER_STAGES[seller] IN
  \E k \in 1 .. Len(stages) - 1 : stages[k] = current /\ stages[k + 1] = next

VARIABLES
  order,      \* rows: status ("ABSENT" before the insert), seller, shipment (0: none)
  track,      \* the tracking events of each order, oldest first
  metric,     \* sustainability metrics recorded for each order
  shipments,  \* number of shipments created
  task,       \* the handlers in progress
  contended,  \* history: orders two tasks were in progress on at once
  uncounted   \* history: orders whose delivering handler died

vars == <<order, track, metric, shipments, task, contended, uncounted>>

Idle == [pc |-> "idle", on |-> {}, order |-> None, next |-> "none", ship |-> 0]

Init ==
  /\ order \in [Orders -> [status : {"ABSENT"}, seller : SellerTypes, shipment : {0}]]
  /\ track = [o \in Orders |-> <<>>]
  /\ metric = [o \in Orders |-> 0]
  /\ shipments = 0
  /\ task = [h \in Handlers |-> Idle]
  /\ contended = {}
  /\ uncounted = {}

-----------------------------------------------------------------------------
At(h, pc) == task[h].pc = pc
Finish(h) == task' = [task EXCEPT ![h] = Idle]
HasRoom(o) == Len(track[o]) < MaxEvents

\* Handler h starts work on the orders os, one of which it was called for.
StartOn(h, os, t) ==
  /\ At(h, "idle")
  /\ task' = [task EXCEPT ![h] = [t EXCEPT !.on = os]]
  /\ contended' = contended \cup
       {o \in os : \E g \in Handlers \ {h} : o \in task[g].on}
  /\ UNCHANGED <<order, track, metric, shipments, uncounted>>

\* One transaction: the new status of order o and its tracking event.
SetStage(o, s) ==
  /\ order' = [order EXCEPT ![o].status = s]
  /\ track' = [track EXCEPT ![o] = Append(@, s)]

\* createFromInvoice's transaction.
CreateOrder(o) ==
  /\ order[o].status = "ABSENT"
  /\ HasRoom(o)
  /\ SetStage(o, "PAYMENT_CONFIRMED")
  /\ UNCHANGED <<metric, shipments, task, contended, uncounted>>

-----------------------------------------------------------------------------
(* advanceOrderStatus *)

BeginAdvanceUnchecked(h, o) ==   \* faulty: does not refuse a missing next stage
  /\ order[o].status # "ABSENT"
  /\ \E next \in OrderStatus \cup {"none"} :
       /\ \/ IsNextOrderStatus(order[o].seller, order[o].status, next)
          \/ /\ next = "none"
             /\ \A s \in OrderStatus :
                  ~IsNextOrderStatus(order[o].seller, order[o].status, s)
       /\ StartOn(h, {o}, [Idle EXCEPT !.pc = "advance", !.order = o, !.next = next])

\* A cancelled or delivered order has no next stage and is refused.
BeginAdvance(h, o) ==
  \E next \in OrderStatus :
    /\ IsNextOrderStatus(order[o].seller, order[o].status, next)
    /\ StartOn(h, {o}, [Idle EXCEPT !.pc = "advance", !.order = o, !.next = next])

CommitAdvanceUncounted(h, o) ==   \* faulty: never calls recordDelivery
  /\ At(h, "advance") /\ o = task[h].order
  /\ HasRoom(o)
  /\ SetStage(o, task[h].next)
  /\ Finish(h)
  /\ UNCHANGED <<metric, shipments, contended, uncounted>>

CommitAdvanceCountingEarly(h, o) ==   \* faulty: counts a vehicle that is ready
  /\ At(h, "advance") /\ o = task[h].order
  /\ HasRoom(o)
  /\ SetStage(o, task[h].next)
  /\ IF task[h].next \in {"READY_FOR_HANDOVER", "DELIVERED"}
       THEN task' = [task EXCEPT ![h].pc = "metric"]
       ELSE Finish(h)
  /\ UNCHANGED <<metric, shipments, contended, uncounted>>

CommitAdvance(h, o) ==
  /\ At(h, "advance") /\ o = task[h].order
  /\ HasRoom(o)
  /\ SetStage(o, task[h].next)
  /\ IF task[h].next = "DELIVERED"
       THEN task' = [task EXCEPT ![h].pc = "metric"]
       ELSE Finish(h)
  /\ UNCHANGED <<metric, shipments, contended, uncounted>>

\* recordDelivery, after the transaction and outside it.
RecordDelivery(h, o) ==
  /\ At(h, "metric") /\ o = task[h].order
  /\ metric' = [metric EXCEPT ![o] = @ + 1]
  /\ Finish(h)
  /\ UNCHANGED <<order, track, shipments, contended, uncounted>>

-----------------------------------------------------------------------------
(* cancelOrder *)

BeginCancelTwice(h, o) ==   \* faulty: also an order that is cancelled already
  /\ order[o].status # "ABSENT"
  /\ StartOn(h, {o}, [Idle EXCEPT !.pc = "cancel", !.order = o])

BeginCancel(h, o) ==
  /\ order[o].status \notin {"ABSENT", "CANCELLED"}
  /\ StartOn(h, {o}, [Idle EXCEPT !.pc = "cancel", !.order = o])

CommitCancel(h, o) ==
  /\ At(h, "cancel") /\ o = task[h].order
  /\ HasRoom(o)
  /\ SetStage(o, "CANCELLED")
  /\ Finish(h)
  /\ UNCHANGED <<metric, shipments, contended, uncounted>>

-----------------------------------------------------------------------------
(* upsertShipment and assignFulfillment *)

\* upsertShipment: a new shipment for the orders os.
BeginShipment(h, os) == StartOn(h, os, [Idle EXCEPT !.pc = "ship"])

\* assignFulfillment with a new shipment, for order o and the orders os.
BeginAssignNew(h, o, os) ==
  /\ order[o].status # "ABSENT"
  /\ StartOn(h, {o} \cup os, [Idle EXCEPT !.pc = "ship", !.order = o])

BeginAssignForgetting(h, o, s) ==   \* faulty: no shipment given means none
  /\ order[o].status # "ABSENT"
  /\ s \in 0 .. shipments
  /\ StartOn(h, {o}, [Idle EXCEPT !.pc = "assign", !.order = o, !.ship = s])

\* assignFulfillment with an existing shipment s; with s = 0 only the VIN is given
\* and the shipment read here is written back.
BeginAssign(h, o, s) ==
  /\ order[o].status # "ABSENT"
  /\ s \in 0 .. shipments
  /\ StartOn(h, {o}, [Idle EXCEPT !.pc = "assign", !.order = o,
                        !.ship = IF s = 0 THEN order[o].shipment ELSE s])

\* A request that finds all MaxShipments shipments created is dropped (bound).
CreateShipment(h) ==
  /\ At(h, "ship")
  /\ IF shipments < MaxShipments
       THEN /\ shipments' = shipments + 1
            /\ task' = [task EXCEPT ![h].pc = "attach", ![h].ship = shipments + 1]
       ELSE Finish(h) /\ UNCHANGED shipments
  /\ UNCHANGED <<order, track, metric, contended, uncounted>>

\* The update writes the rows that exist.
PutOn(os, s) ==
  order' = [o \in Orders |->
    IF o \in os /\ order[o].status # "ABSENT" THEN [order[o] EXCEPT !.shipment = s]
                                              ELSE order[o]]

AttachOrders(h) ==
  /\ At(h, "attach")
  /\ PutOn(task[h].on, task[h].ship)
  /\ IF task[h].order = None THEN Finish(h)
                             ELSE task' = [task EXCEPT ![h].pc = "assign"]
  /\ UNCHANGED <<track, metric, shipments, contended, uncounted>>

CommitAssign(h) ==
  /\ At(h, "assign")
  /\ PutOn({task[h].order}, task[h].ship)
  /\ Finish(h)
  /\ UNCHANGED <<track, metric, shipments, contended, uncounted>>

\* A failing query, mail or process ends a handler.
Crash(h) ==
  /\ ~At(h, "idle")
  /\ Finish(h)
  /\ uncounted' = IF At(h, "metric") THEN uncounted \cup {task[h].order} ELSE uncounted
  /\ UNCHANGED <<order, track, metric, shipments, contended>>

-----------------------------------------------------------------------------
Begin(h) ==
  \/ \E o \in Orders : BeginAdvance(h, o) \/ BeginCancel(h, o)
  \/ \E os \in SUBSET Orders : BeginShipment(h, os)
  \/ \E o \in Orders, os \in SUBSET Orders : BeginAssignNew(h, o, os)
  \/ \E o \in Orders, s \in 0 .. MaxShipments : BeginAssign(h, o, s)

Continue(h) ==
  \/ \E o \in Orders : CommitAdvance(h, o) \/ RecordDelivery(h, o) \/ CommitCancel(h, o)
  \/ CreateShipment(h) \/ AttachOrders(h) \/ CommitAssign(h)

Next ==
  \/ \E o \in Orders : CreateOrder(o)
  \/ \E h \in Handlers : Begin(h) \/ Continue(h) \/ Crash(h)

Spec == Init /\ [][Next]_vars

\* The event loop resumes every pending await.
Fairness == \A h \in Handlers : WF_vars(Continue(h))

-----------------------------------------------------------------------------
(* Properties *)

TaskType ==
  [pc : {"idle", "advance", "metric", "cancel", "ship", "attach", "assign"},
   on : SUBSET Orders, order : Orders \cup {None},
   next : OrderStatus \cup {"none"}, ship : Nat]

OrderType ==
  [status : OrderStatus \cup {"ABSENT"}, seller : SellerTypes, shipment : Nat]

\* The rows, the timelines and the tasks are well formed.
TypeOK ==
  /\ order \in [Orders -> OrderType]
  /\ track \in [Orders -> Seq(OrderStatus)]
  /\ metric \in [Orders -> Nat]
  /\ shipments \in Nat
  /\ task \in [Handlers -> TaskType]
  /\ contended \subseteq Orders
  /\ uncounted \subseteq Orders

Last(s) == s[Len(s)]

EndsAtStatus(o) ==
  IF order[o].status = "ABSENT" THEN track[o] = <<>>
  ELSE Len(track[o]) > 0 /\ Last(track[o]) = order[o].status

\* The buyer's timeline ends at the stage the order is in, however the handlers of
\* the order overlap.  When no two requests touched the order at once it walks the
\* stages of its seller type one by one from the first, and nothing follows CANCELLED.
TimelineIsPath ==
  (\A o \in Orders : EndsAtStatus(o)) /\
  \A o \in Orders \ contended :
    /\ Len(track[o]) > 0 => track[o][1] = "PAYMENT_CONFIRMED"
    /\ \A k \in 1 .. Len(track[o]) - 1 :
         \/ IsNextOrderStatus(order[o].seller, track[o][k], track[o][k + 1])
         \/ track[o][k] # "CANCELLED" /\ track[o][k + 1] = "CANCELLED"

Deliveries(o) == {k \in 1 .. Len(track[o]) : track[o][k] = "DELIVERED"}

\* An order that was never delivered is not counted in the impact figures, and one
\* that no two requests touched at once is counted at most once.
CountedIsDelivered ==
  \A o \in Orders :
    /\ metric[o] > 0 => Deliveries(o) # {}
    /\ o \notin contended => metric[o] <= 1

\* An order that is on a shipment does not fall off it, but by overlapping requests.
ShipmentIsKept ==
  [][\A o \in Orders \ contended' :
       order[o].shipment # 0 => order'[o].shipment # 0]_vars

\* A delivered order is eventually counted, unless its handler dies.
DeliveredIsCounted ==
  \A o \in Orders : (Deliveries(o) # {}) ~> (metric[o] > 0 \/ o \in uncounted)

\* The impact figures count the deliveries: no more than happened, and each in the end.
DeliveriesAreCounted == []CountedIsDelivered /\ DeliveredIsCounted

\* Nobody leaves CANCELLED but by overlapping requests.
CancelledIsFinal ==
  [][\A o \in Orders \ contended' : order[o].status = "CANCELLED"
       => order'[o].status = "CANCELLED"]_vars

\* "Cancelled orders cannot be advanced."
CancelledStaysCancelled ==
  [][\A o \in Orders : order[o].status = "CANCELLED"
       => order'[o].status = "CANCELLED"]_vars
=============================================================================
