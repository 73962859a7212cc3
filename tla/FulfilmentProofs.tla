-------------------------- MODULE FulfilmentProofs --------------------------
(***************************************************************************)
(* Proofs about Fulfilment, for every set of orders, seller types and      *)
(* handlers, and whatever the bounds: the rows are well formed, the        *)
(* buyer's timeline is a path through the stages, a delivery is counted    *)
(* at most once and only if it happened, and an order stays on its         *)
(* shipment.                                                               *)
(***************************************************************************)
EXTENDS Fulfilment, TLAPS

\* What a handler has read about the orders it is on still holds, unless another handler
\* was on them at the same time.
TaskIsSound(t) ==
  /\ t.pc = "idle" => t.on = {} /\ t.order = None
  /\ t.pc \in {"advance", "metric", "cancel"} => t.order \in Orders /\ t.on = {t.order}
  /\ t.pc \in {"ship", "attach"} /\ t.order # None => t.order \in t.on
  /\ t.pc = "assign" => t.order \in Orders /\ t.order \in t.on
  /\ t.pc = "attach" => t.ship > 0
  /\ t.order # None => order[t.order].status # "ABSENT"
  /\ t.pc = "advance" => t.next \in OrderStatus
  /\ t.pc = "metric" => Deliveries(t.order) # {}
  /\ t.order \notin contended =>
       /\ t.pc = "advance" =>
            IsNextOrderStatus(order[t.order].seller, order[t.order].status, t.next)
       /\ t.pc = "cancel" => order[t.order].status # "CANCELLED"
       /\ t.pc = "metric" => metric[t.order] = 0
       /\ t.pc = "assign" /\ order[t.order].shipment # 0 => t.ship # 0

TasksAreSound == \A h \in Handlers : TaskIsSound(task[h])

\* Two handlers on one order have contended for it.
OverlapsAreNoted ==
  \A g, h \in Handlers : g # h => task[g].on \cap task[h].on \subseteq contended

\* After its delivery an uncontended order can only be cancelled.
DeliveryIsLast ==
  \A o \in Orders \ contended :
    Deliveries(o) # {} => order[o].status \in {"DELIVERED", "CANCELLED"}

\* The inductive invariant.
IInv ==
  /\ TypeOK
  /\ TasksAreSound
  /\ OverlapsAreNoted
  /\ TimelineIsPath
  /\ DeliveryIsLast
  /\ CountedIsDelivered

-----------------------------------------------------------------------------
(* The stages *)

\* No stage follows the delivery or a cancellation, and no stage is a cancellation.
LEMMA StagesAreClosed ==
  ASSUME NEW s \in SellerType, NEW c, NEW n, IsNextOrderStatus(s, c, n)
  PROVE  /\ c \notin {"ABSENT", "DELIVERED", "CANCELLED"}
         /\ n \in OrderStatus \ {"CANCELLED"}
<1>1. CASE s = "UZA_RWANDA_STOCK"
  <2>1. ORDER_STAGES[s] = <<"PAYMENT_CONFIRMED", "VEHICLE_RESERVED", "READY_FOR_HANDOVER",
                            "DELIVERED">>
    BY <1>1 DEF ORDER_STAGES
  <2>2. QED
    BY <2>1 DEF IsNextOrderStatus, OrderStatus
<1>2. CASE s = "LOCAL_SELLER"
  <2>1. ORDER_STAGES[s] = <<"PAYMENT_CONFIRMED", "VEHICLE_RESERVED", "PROCESSING",
                            "READY_FOR_HANDOVER", "DELIVERED">>
    BY <1>2 DEF ORDER_STAGES
  <2>2. QED
    BY <2>1 DEF IsNextOrderStatus, OrderStatus
<1>3. CASE s \in {"UZA_CHINA_SOURCING", "INTERNATIONAL_SELLER"}
  <2>1. ORDER_STAGES[s] = ImportStages
    BY <1>3 DEF ORDER_STAGES
  <2>2. QED
    BY <2>1 DEF IsNextOrderStatus, ImportStages, OrderStatus
<1>4. QED
  BY <1>1, <1>2, <1>3 DEF SellerType

LEMMA InitIInv == Init => IInv
  BY SellersOK, NoneIsNoOrder
  DEF Init, IInv, TypeOK, OrderType, TaskType, TasksAreSound, TaskIsSound, OverlapsAreNoted,
      TimelineIsPath, EndsAtStatus, DeliveryIsLast, CountedIsDelivered, Deliveries, Idle

-----------------------------------------------------------------------------
(* One stage more *)

\* Order o has the stage s, which is appended to its timeline; the other orders are left alone.
Appended(o, s) ==
  /\ order' \in [Orders -> OrderType]
  /\ track' \in [Orders -> Seq(OrderStatus)]
  /\ order'[o] = [order[o] EXCEPT !.status = s]
  /\ \A p \in Orders \ {o} : order'[p] = order[p] /\ track'[p] = track[p]
  /\ Len(track[o]) \in Nat
  /\ Len(track'[o]) = Len(track[o]) + 1
  /\ \A k \in 1 .. Len(track[o]) : track'[o][k] = track[o][k]
  /\ track'[o][Len(track[o]) + 1] = s

LEMMA StageIsAppended ==
  ASSUME TypeOK, NEW o \in Orders, NEW s \in OrderStatus, SetStage(o, s)
  PROVE  Appended(o, s)
<1>1. order[o] \in OrderType /\ track[o] \in Seq(OrderStatus)
  BY DEF TypeOK
<1>2. track'[o] = Append(track[o], s)
  BY DEF SetStage, TypeOK
<1>3. Len(track[o]) \in Nat
  BY <1>1
<1>4. /\ Append(track[o], s) \in Seq(OrderStatus)
      /\ Len(track'[o]) = Len(track[o]) + 1
      /\ \A k \in 1 .. Len(track[o]) : track'[o][k] = track[o][k]
      /\ track'[o][Len(track[o]) + 1] = s
  BY <1>1, <1>2
<1>5. /\ order' \in [Orders -> OrderType]
      /\ order'[o] = [order[o] EXCEPT !.status = s]
      /\ \A p \in Orders \ {o} : order'[p] = order[p]
  BY <1>1 DEF SetStage, TypeOK, OrderType
<1>6. /\ track' \in [Orders -> Seq(OrderStatus)]
      /\ \A p \in Orders \ {o} : track'[p] = track[p]
  BY <1>4 DEF SetStage, TypeOK
<1>7. QED
  BY <1>3, <1>4, <1>5, <1>6 DEF Appended

\* Deliveries are never taken back, and only a delivery adds one.
LEMMA DeliveriesGrow ==
  ASSUME TypeOK, NEW o \in Orders, NEW s \in OrderStatus, SetStage(o, s)
  PROVE  /\ \A p \in Orders : Deliveries(p) \subseteq Deliveries(p)'
         /\ \A p \in Orders \ {o} : Deliveries(p)' = Deliveries(p)
         /\ s # "DELIVERED" => Deliveries(o)' = Deliveries(o)
         /\ s = "DELIVERED" => Deliveries(o)' # {}
<1>. Appended(o, s)
  BY StageIsAppended
<1>1. \A p \in Orders \ {o} : Deliveries(p)' = Deliveries(p)
  BY DEF Appended, Deliveries
<1>2. Deliveries(o) \subseteq Deliveries(o)'
  BY DEF Appended, Deliveries
<1>3. ASSUME s # "DELIVERED"
      PROVE  Deliveries(o)' \subseteq Deliveries(o)
  BY <1>3 DEF Appended, Deliveries
<1>4. ASSUME s = "DELIVERED"
      PROVE  Len(track[o]) + 1 \in Deliveries(o)'
  BY <1>4 DEF Appended, Deliveries
<1>5. QED
  BY <1>1, <1>2, <1>3, <1>4

\* What may be appended to the timeline of order o: its first stage, the stage that follows,
\* a cancellation; anything once two handlers have contended for it.
MayFollow(o, s) ==
  /\ order[o].status = "ABSENT" => s = "PAYMENT_CONFIRMED"
  /\ order[o].status # "ABSENT" /\ o \notin contended =>
       \/ IsNextOrderStatus(order[o].seller, order[o].status, s)
       \/ order[o].status # "CANCELLED" /\ s = "CANCELLED"

\* Two stages of order o that follow each other on its timeline.
Follows(o, a, b) ==
  \/ IsNextOrderStatus(order[o].seller, a, b)
  \/ a # "CANCELLED" /\ b = "CANCELLED"

IsPath(o) ==
  /\ Len(track[o]) > 0 => track[o][1] = "PAYMENT_CONFIRMED"
  /\ \A k \in 1 .. Len(track[o]) - 1 : Follows(o, track[o][k], track[o][k + 1])

LEMMA TimelinePreserved ==
  ASSUME IInv, NEW o \in Orders, NEW s \in OrderStatus, SetStage(o, s), MayFollow(o, s),
         contended' = contended
  PROVE  TimelineIsPath'
<1>1. TypeOK /\ Appended(o, s)
  BY StageIsAppended DEF IInv
<1>2. /\ \A p \in Orders : EndsAtStatus(p)
      /\ \A p \in Orders \ contended : IsPath(p)
  BY DEF IInv, TimelineIsPath, IsPath, Follows
<1>3. order'[o].seller = order[o].seller /\ order'[o].status = s /\ s # "ABSENT"
  BY <1>1 DEF Appended, TypeOK, OrderType, OrderStatus
<1>4. ASSUME NEW p \in Orders
      PROVE  EndsAtStatus(p)'
  <2>1. CASE p = o
    <3>1. Len(track'[o]) > 0 /\ track'[o][Len(track'[o])] = order'[o].status
      BY <1>1, <1>3 DEF Appended
    <3>2. QED
      BY <1>3, <2>1, <3>1 DEF EndsAtStatus, Last
  <2>2. CASE p # o
    <3>1. order'[p] = order[p] /\ track'[p] = track[p] /\ EndsAtStatus(p)
      BY <1>1, <1>2, <2>2 DEF Appended
    <3>2. QED
      BY <3>1 DEF EndsAtStatus, Last
  <2>3. QED
    BY <2>1, <2>2
<1>5. ASSUME NEW p \in Orders \ contended, p # o
      PROVE  IsPath(p)'
  <2>1. order'[p] = order[p] /\ track'[p] = track[p] /\ IsPath(p)
    BY <1>1, <1>2, <1>5 DEF Appended
  <2>2. QED
    BY <2>1 DEF IsPath, Follows
<1>6. ASSUME o \notin contended
      PROVE  IsPath(o)'
  <2>1. EndsAtStatus(o) /\ IsPath(o)
    BY <1>2, <1>6
  <2>2. (Len(track[o]) > 0 => track[o][1] = "PAYMENT_CONFIRMED")'
    <3>1. CASE Len(track[o]) = 0
      BY <1>1, <2>1, <3>1 DEF Appended, EndsAtStatus, MayFollow
    <3>2. CASE Len(track[o]) > 0
      BY <1>1, <2>1, <3>2 DEF Appended, IsPath
    <3>3. QED
      BY <1>1, <3>1, <3>2 DEF Appended
  <2>3. ASSUME NEW k \in 1 .. Len(track'[o]) - 1
        PROVE  Follows(o, track[o][k], track[o][k + 1])'
    <3>1. CASE k \in 1 .. Len(track[o]) - 1
      <4>1. track'[o][k] = track[o][k] /\ track'[o][k + 1] = track[o][k + 1]
        <5>1. k \in 1 .. Len(track[o]) /\ k + 1 \in 1 .. Len(track[o])
          BY <1>1, <3>1 DEF Appended
        <5>2. QED
          BY <1>1, <5>1 DEF Appended
      <4>2. QED
        BY <1>3, <2>1, <3>1, <4>1 DEF IsPath, Follows, IsNextOrderStatus
    <3>2. CASE k = Len(track[o])
      <4>1. track'[o][k] = track[o][k] /\ track'[o][k + 1] = s
        BY <1>1, <2>3, <3>2 DEF Appended
      <4>2. Len(track[o]) > 0
        BY <1>1, <2>3, <3>2 DEF Appended
      <4>3. order[o].status # "ABSENT" /\ track[o][k] = order[o].status
        <5>1. track[o] # <<>>
          BY <4>2
        <5>2. order[o].status # "ABSENT" /\ Last(track[o]) = order[o].status
          BY <2>1, <5>1 DEF EndsAtStatus
        <5>3. QED
          BY <3>2, <5>2 DEF Last
      <4>4. QED
        BY <1>3, <1>6, <4>1, <4>3 DEF MayFollow, Follows, IsNextOrderStatus
    <3>3. QED
      BY <1>1, <2>3, <3>1, <3>2 DEF Appended
  <2>4. QED
    BY <2>2, <2>3 DEF IsPath
<1>7. QED
  BY <1>4, <1>5, <1>6 DEF TimelineIsPath, IsPath, Follows

LEMMA DeliveryLastPreserved ==
  ASSUME IInv, NEW o \in Orders, NEW s \in OrderStatus, SetStage(o, s), MayFollow(o, s),
         contended' = contended
  PROVE  /\ DeliveryIsLast'
         /\ o \notin contended /\ s # "CANCELLED" => Deliveries(o) = {}
<1>1. TypeOK /\ Appended(o, s)
  BY StageIsAppended DEF IInv
<1>2. ASSUME NEW p \in Orders \ contended, p # o, Deliveries(p)' # {}
      PROVE  order'[p].status \in {"DELIVERED", "CANCELLED"}
  <2>1. order'[p] = order[p] /\ Deliveries(p)' = Deliveries(p)
    BY <1>1, <1>2, DeliveriesGrow DEF Appended
  <2>2. QED
    BY <1>2, <2>1 DEF IInv, DeliveryIsLast
<1>3. ASSUME o \notin contended, s # "CANCELLED"
      PROVE  Deliveries(o) = {}
  <2>1. CASE order[o].status = "ABSENT"
    BY <2>1 DEF IInv, TimelineIsPath, EndsAtStatus, Deliveries
  <2>2. CASE order[o].status # "ABSENT"
    <3>1. IsNextOrderStatus(order[o].seller, order[o].status, s)
      BY <1>3, <2>2 DEF MayFollow
    <3>2. order[o].seller \in SellerType
      BY <1>1, SellersOK DEF TypeOK, OrderType
    <3>3. order[o].status \notin {"DELIVERED", "CANCELLED"}
      BY <3>1, <3>2, StagesAreClosed
    <3>4. QED
      BY <1>3, <3>3 DEF IInv, DeliveryIsLast
  <2>3. QED
    BY <2>1, <2>2
<1>4. ASSUME o \notin contended, Deliveries(o)' # {}
      PROVE  order'[o].status \in {"DELIVERED", "CANCELLED"}
  BY <1>1, <1>3, <1>4, DeliveriesGrow DEF Appended, TypeOK, OrderType
<1>5. QED
  BY <1>2, <1>3, <1>4 DEF DeliveryIsLast

-----------------------------------------------------------------------------
(* The tasks *)

LEMMA IdleFacts ==
  /\ Idle \in TaskType
  /\ Idle.pc = "idle" /\ Idle.on = {} /\ Idle.order = None
  BY DEF Idle, TaskType

\* What another step does to an order a handler is on, without contention and with it.
Untouched(o) == order'[o] = order[o] /\ metric'[o] = metric[o]
NotUndone(o) ==
  /\ order[o].status # "ABSENT" => order'[o].status # "ABSENT"
  /\ Deliveries(o) \subseteq Deliveries(o)'

LEMMA TaskStaysSound ==
  ASSUME TypeOK, NEW t \in TaskType, TaskIsSound(t), contended \subseteq contended',
         t.order \in Orders =>
           NotUndone(t.order) /\ (t.order \in contended' \/ Untouched(t.order))
  PROVE  TaskIsSound(t)'
<1>1. CASE t.order = None
  BY <1>1, NoneIsNoOrder DEF TaskIsSound
<1>2. CASE t.order \in Orders
  <2>1. NotUndone(t.order) /\ (t.order \in contended' \/ Untouched(t.order))
    BY <1>2
  <2>2. CASE t.order \in contended'
    BY <2>1, <2>2 DEF TaskIsSound, NotUndone
  <2>3. CASE t.order \notin contended' /\ Untouched(t.order)
    BY <2>1, <2>3 DEF TaskIsSound, NotUndone, Untouched, IsNextOrderStatus
  <2>4. QED
    BY <2>1, <2>2, <2>3
<1>3. QED
  BY <1>1, <1>2 DEF TaskType

\* A handler that goes on with its task, and touches only the orders it is on, leaves the
\* tasks of the others sound.
LEMMA OthersStaySound ==
  ASSUME IInv, NEW h \in Handlers, NEW t \in TaskType, task' = [task EXCEPT ![h] = t],
         t.on \subseteq task[h].on, contended' = contended, TaskIsSound(t)',
         \A o \in Orders : NotUndone(o) /\ (o \in task[h].on \/ Untouched(o))
  PROVE  task' \in [Handlers -> TaskType] /\ TasksAreSound' /\ OverlapsAreNoted'
<1>1. TypeOK /\ task \in [Handlers -> TaskType]
  BY DEF IInv, TypeOK
<1>2. task' \in [Handlers -> TaskType]
  BY <1>1
<1>3. ASSUME NEW g \in Handlers
      PROVE  TaskIsSound(task[g])'
  <2>1. CASE g = h
    BY <1>1, <2>1 DEF TaskIsSound
  <2>2. CASE g # h
    <3>1. task'[g] = task[g] /\ task[g] \in TaskType /\ TaskIsSound(task[g])
      BY <1>1, <2>2 DEF IInv, TasksAreSound
    <3>2. ASSUME task[g].order \in Orders
          PROVE  task[g].order \in contended' \/ Untouched(task[g].order)
      <4>1. task[g].order \in task[g].on
        BY <3>1, <3>2, NoneIsNoOrder DEF TaskIsSound, TaskType
      <4>2. task[g].on \cap task[h].on \subseteq contended
        BY <2>2 DEF IInv, OverlapsAreNoted
      <4>3. QED
        BY <3>2, <4>1, <4>2
    <3>3. ASSUME NEW u \in TaskType, u = task[g]
          PROVE  TaskIsSound(u)'
      BY <1>1, <3>1, <3>2, <3>3, TaskStaysSound
    <3>4. QED
      BY <3>1, <3>3 DEF TaskIsSound
  <2>3. QED
    BY <2>1, <2>2
<1>4. OverlapsAreNoted'
  BY <1>1 DEF IInv, OverlapsAreNoted
<1>5. QED
  BY <1>2, <1>3, <1>4 DEF TasksAreSound

-----------------------------------------------------------------------------
(* The steps *)

LEMMA StartPreservesIInv ==
  ASSUME IInv, NEW h \in Handlers, NEW os \in SUBSET Orders, NEW t \in TaskType,
         t.on = {}, StartOn(h, os, t), TaskIsSound([t EXCEPT !.on = os])
  PROVE  IInv'
<1> DEFINE r == [t EXCEPT !.on = os]
<1>1. TypeOK /\ task \in [Handlers -> TaskType] /\ r \in TaskType
  BY DEF IInv, TypeOK, TaskType
<1>2. /\ task' = [task EXCEPT ![h] = r]
      /\ UNCHANGED <<order, track, metric, shipments, uncounted>>
      /\ contended \subseteq contended' /\ contended' \subseteq contended \cup os
      /\ \A g \in Handlers \ {h} : task[g].on \cap os \subseteq contended'
  BY DEF StartOn
<1>3. TypeOK'
  BY <1>1, <1>2 DEF TypeOK
<1>4. ASSUME NEW g \in Handlers
      PROVE  TaskIsSound(task[g])'
  <2>1. PICK u \in TaskType : u = task'[g] /\ TaskIsSound(u)
    BY <1>1, <1>2 DEF IInv, TasksAreSound
  <2>2. TaskIsSound(u)'
    BY <1>1, <1>2, <2>1, TaskStaysSound DEF NotUndone, Untouched, Deliveries
  <2>3. QED
    BY <2>1, <2>2 DEF TaskIsSound
<1>5. OverlapsAreNoted'
  <2>1. r.on = os
    BY DEF TaskType
  <2>2. ASSUME NEW f \in Handlers, NEW g \in Handlers, f # g
        PROVE  task'[f].on \cap task'[g].on \subseteq contended'
    <3>1. CASE f # h /\ g # h
      BY <1>1, <1>2, <2>2, <3>1 DEF IInv, OverlapsAreNoted
    <3>2. CASE f = h
      BY <1>1, <1>2, <2>1, <2>2, <3>2
    <3>3. CASE g = h
      BY <1>1, <1>2, <2>1, <2>2, <3>3
    <3>4. QED
      BY <3>1, <3>2, <3>3
  <2>3. QED
    BY <2>2 DEF OverlapsAreNoted
<1>6. TimelineIsPath' /\ DeliveryIsLast' /\ CountedIsDelivered'
  <2>1. TimelineIsPath'
    BY <1>2 DEF IInv, TimelineIsPath, EndsAtStatus, IsNextOrderStatus
  <2>2. DeliveryIsLast' /\ CountedIsDelivered'
    BY <1>2 DEF IInv, DeliveryIsLast, CountedIsDelivered, Deliveries
  <2>3. QED
    BY <2>1, <2>2
<1>7. QED
  BY <1>3, <1>4, <1>5, <1>6 DEF IInv, TasksAreSound

LEMMA BeginPreservesIInv ==
  ASSUME IInv, NEW h \in Handlers, Begin(h)
  PROVE  IInv'
<1>1. TypeOK /\ order \in [Orders -> OrderType]
  BY DEF IInv, TypeOK
<1>2. ASSUME NEW o \in Orders, BeginAdvance(h, o)
      PROVE  IInv'
  <2>1. PICK next \in OrderStatus :
          /\ IsNextOrderStatus(order[o].seller, order[o].status, next)
          /\ StartOn(h, {o}, [Idle EXCEPT !.pc = "advance", !.order = o, !.next = next])
    BY <1>2 DEF BeginAdvance
  <2> DEFINE t == [Idle EXCEPT !.pc = "advance", !.order = o, !.next = next]
  <2>2. t \in TaskType /\ t.on = {}
    BY DEF Idle, TaskType
  <2>3. order[o].status # "ABSENT"
    BY <1>1, <2>1, SellersOK, StagesAreClosed DEF OrderType
  <2>4. TaskIsSound([t EXCEPT !.on = {o}])
    BY <2>1, <2>3 DEF TaskIsSound, Idle
  <2>5. QED
    BY <2>1, <2>2, <2>4, StartPreservesIInv
<1>3. ASSUME NEW o \in Orders, BeginCancel(h, o)
      PROVE  IInv'
  <2> DEFINE t == [Idle EXCEPT !.pc = "cancel", !.order = o]
  <2>1. t \in TaskType /\ t.on = {}
    BY DEF Idle, TaskType
  <2>2. TaskIsSound([t EXCEPT !.on = {o}])
    BY <1>3 DEF BeginCancel, TaskIsSound, Idle
  <2>3. QED
    BY <1>3, <2>1, <2>2, StartPreservesIInv DEF BeginCancel
<1>4. ASSUME NEW os \in SUBSET Orders, BeginShipment(h, os)
      PROVE  IInv'
  <2> DEFINE t == [Idle EXCEPT !.pc = "ship"]
  <2>1. t \in TaskType /\ t.on = {}
    BY DEF Idle, TaskType
  <2>2. TaskIsSound([t EXCEPT !.on = os])
    BY NoneIsNoOrder DEF TaskIsSound, Idle
  <2>3. QED
    BY <1>4, <2>1, <2>2, StartPreservesIInv DEF BeginShipment
<1>5. ASSUME NEW o \in Orders, NEW os \in SUBSET Orders, BeginAssignNew(h, o, os)
      PROVE  IInv'
  <2> DEFINE t == [Idle EXCEPT !.pc = "ship", !.order = o]
  <2>1. t \in TaskType /\ t.on = {}
    BY DEF Idle, TaskType
  <2>2. TaskIsSound([t EXCEPT !.on = {o} \cup os])
    BY <1>5 DEF BeginAssignNew, TaskIsSound, Idle
  <2>3. QED
    BY <1>5, <2>1, <2>2, StartPreservesIInv DEF BeginAssignNew
<1>6. ASSUME NEW o \in Orders, NEW s \in 0 .. MaxShipments, BeginAssign(h, o, s)
      PROVE  IInv'
  <2> DEFINE t == [Idle EXCEPT !.pc = "assign", !.order = o,
                               !.ship = IF s = 0 THEN order[o].shipment ELSE s]
  <2>1. s \in Nat /\ order[o].shipment \in Nat
    BY <1>1, EventBoundsOK DEF OrderType
  <2>2. t \in TaskType /\ t.on = {}
    BY <2>1 DEF Idle, TaskType
  <2>3. TaskIsSound([t EXCEPT !.on = {o}])
    BY <1>6 DEF BeginAssign, TaskIsSound, Idle
  <2>4. QED
    BY <1>6, <2>2, <2>3, StartPreservesIInv DEF BeginAssign
<1>7. QED
  BY <1>2, <1>3, <1>4, <1>5, <1>6 DEF Begin

\* The rows after a new stage; what the tasks make of it is seen at each step.
LEMMA StageStep ==
  ASSUME IInv, NEW o \in Orders, NEW s \in OrderStatus, SetStage(o, s), MayFollow(o, s),
         UNCHANGED <<metric, shipments, contended, uncounted>>
  PROVE  /\ order' \in [Orders -> OrderType] /\ track' \in [Orders -> Seq(OrderStatus)]
         /\ TimelineIsPath' /\ DeliveryIsLast' /\ CountedIsDelivered'
         /\ \A p \in Orders : NotUndone(p) /\ (p = o \/ Untouched(p))
<1>1. TypeOK /\ Appended(o, s)
  BY StageIsAppended DEF IInv
<1>2. \A p \in Orders : Deliveries(p) \subseteq Deliveries(p)'
  BY <1>1, DeliveriesGrow
<1>3. \A p \in Orders : NotUndone(p) /\ (p = o \/ Untouched(p))
  <2>1. s # "ABSENT"
    BY DEF OrderStatus
  <2>2. order'[o].status = s
    BY <1>1 DEF Appended, TypeOK, OrderType
  <2>3. QED
    BY <1>1, <1>2, <2>1, <2>2 DEF Appended, NotUndone, Untouched
<1>4. CountedIsDelivered'
  BY <1>2 DEF IInv, CountedIsDelivered
<1>5. QED
  BY <1>1, <1>3, <1>4, TimelinePreserved, DeliveryLastPreserved DEF Appended

LEMMA CreateOrderPreservesIInv ==
  ASSUME IInv, NEW o \in Orders, CreateOrder(o)
  PROVE  IInv'
<1>1. TypeOK /\ task' = task /\ contended' = contended
  BY DEF IInv, CreateOrder
<1>2. SetStage(o, "PAYMENT_CONFIRMED") /\ MayFollow(o, "PAYMENT_CONFIRMED")
  BY DEF CreateOrder, MayFollow
<1>3. /\ order' \in [Orders -> OrderType] /\ track' \in [Orders -> Seq(OrderStatus)]
      /\ TimelineIsPath' /\ DeliveryIsLast' /\ CountedIsDelivered'
      /\ \A p \in Orders : NotUndone(p) /\ (p = o \/ Untouched(p))
  BY <1>2, StageStep DEF CreateOrder, OrderStatus
<1>4. ASSUME NEW g \in Handlers
      PROVE  TaskIsSound(task[g])'
  <2>1. PICK t \in TaskType : t = task[g] /\ TaskIsSound(t)
    BY <1>1 DEF IInv, TypeOK, TasksAreSound
  <2>2. t.order # o
    BY <2>1, NoneIsNoOrder DEF CreateOrder, TaskIsSound
  <2>3. TaskIsSound(t)'
    BY <1>1, <1>3, <2>1, <2>2, TaskStaysSound
  <2>4. QED
    BY <1>1, <2>1, <2>3 DEF TaskIsSound
<1>5. OverlapsAreNoted'
  BY <1>1 DEF IInv, OverlapsAreNoted
<1>6. QED
  BY <1>1, <1>3, <1>4, <1>5 DEF IInv, TypeOK, TasksAreSound, CreateOrder

LEMMA CommitAdvancePreservesIInv ==
  ASSUME IInv, NEW h \in Handlers, NEW o \in Orders, CommitAdvance(h, o)
  PROVE  IInv'
<1>. PICK s : s = task[h].next
  OBVIOUS
<1> DEFINE t == IF s = "DELIVERED" THEN [task[h] EXCEPT !.pc = "metric"] ELSE Idle
<1>1. TypeOK /\ task[h] \in TaskType /\ TaskIsSound(task[h]) /\ task[h].pc = "advance"
  BY DEF IInv, TypeOK, TasksAreSound, CommitAdvance, At
<1>2. task[h].order = o /\ task[h].on = {o} /\ s \in OrderStatus /\ MayFollow(o, s)
  BY <1>1, NoneIsNoOrder DEF TaskIsSound, CommitAdvance, MayFollow
<1>3. SetStage(o, s) /\ UNCHANGED <<metric, shipments, contended, uncounted>>
  BY DEF CommitAdvance
<1>4. /\ order' \in [Orders -> OrderType] /\ track' \in [Orders -> Seq(OrderStatus)]
      /\ TimelineIsPath' /\ DeliveryIsLast' /\ CountedIsDelivered'
      /\ \A p \in Orders : NotUndone(p) /\ (p = o \/ Untouched(p))
  BY <1>2, <1>3, StageStep
<1>5. PICK u \in TaskType : u = t /\ task' = [task EXCEPT ![h] = u]
  BY <1>1, <1>3, IdleFacts DEF CommitAdvance, Finish, TaskType, TypeOK
<1>6. u.on \subseteq {o}
  BY <1>1, <1>2, <1>5, IdleFacts DEF TaskType
<1>7. TaskIsSound(u)'
  <2>1. CASE s = "DELIVERED"
    <3>1. Deliveries(o)' # {} /\ order'[o].status # "ABSENT"
      <4>1. Deliveries(o)' # {}
        BY <1>1, <1>2, <1>3, <2>1, DeliveriesGrow
      <4>2. order[o].status # "ABSENT" /\ NotUndone(o)
        BY <1>1, <1>2, <1>4, NoneIsNoOrder DEF TaskIsSound
      <4>3. QED
        BY <4>1, <4>2 DEF NotUndone
    <3>2. o \notin contended' => metric'[o] = 0
      BY <1>1, <1>2, <1>3, <2>1, DeliveryLastPreserved DEF IInv, CountedIsDelivered, TypeOK
    <3>3. u.pc = "metric" /\ u.order = o /\ u.on = {o}
      BY <1>1, <1>2, <1>5, <2>1 DEF TaskType
    <3>4. QED
      BY <3>1, <3>2, <3>3 DEF TaskIsSound
  <2>2. CASE s # "DELIVERED"
    BY <1>5, <2>2, IdleFacts, NoneIsNoOrder DEF TaskIsSound
  <2>3. QED
    BY <2>1, <2>2
<1>8. task' \in [Handlers -> TaskType] /\ TasksAreSound' /\ OverlapsAreNoted'
  BY <1>2, <1>3, <1>4, <1>5, <1>6, <1>7, OthersStaySound
<1>9. QED
  BY <1>1, <1>3, <1>4, <1>8 DEF IInv, TypeOK

LEMMA CommitCancelPreservesIInv ==
  ASSUME IInv, NEW h \in Handlers, NEW o \in Orders, CommitCancel(h, o)
  PROVE  IInv'
<1>1. TypeOK /\ task[h] \in TaskType /\ TaskIsSound(task[h]) /\ task[h].pc = "cancel"
  BY DEF IInv, TypeOK, TasksAreSound, CommitCancel, At
<1>2. task[h].order = o /\ task[h].on = {o} /\ MayFollow(o, "CANCELLED")
  BY <1>1, NoneIsNoOrder DEF TaskIsSound, CommitCancel, MayFollow
<1>3. /\ SetStage(o, "CANCELLED") /\ UNCHANGED <<metric, shipments, contended, uncounted>>
      /\ task' = [task EXCEPT ![h] = Idle]
  BY DEF CommitCancel, Finish
<1>4. /\ order' \in [Orders -> OrderType] /\ track' \in [Orders -> Seq(OrderStatus)]
      /\ TimelineIsPath' /\ DeliveryIsLast' /\ CountedIsDelivered'
      /\ \A p \in Orders : NotUndone(p) /\ (p = o \/ Untouched(p))
  BY <1>2, <1>3, StageStep DEF OrderStatus
<1>5. TaskIsSound(Idle)'
  BY IdleFacts, NoneIsNoOrder DEF TaskIsSound
<1>6. task' \in [Handlers -> TaskType] /\ TasksAreSound' /\ OverlapsAreNoted'
  BY <1>2, <1>3, <1>4, <1>5, IdleFacts, OthersStaySound
<1>7. QED
  BY <1>1, <1>3, <1>4, <1>6 DEF IInv, TypeOK

\* A step that writes neither a status nor a timeline.
LEMMA TimelineUntouched ==
  ASSUME IInv, order' \in [Orders -> OrderType], UNCHANGED <<track, contended>>,
         \A o \in Orders : order'[o].status = order[o].status
                            /\ order'[o].seller = order[o].seller
  PROVE  TimelineIsPath' /\ DeliveryIsLast' /\ \A o \in Orders : NotUndone(o)
<1>1. TimelineIsPath'
  <2>1. ASSUME NEW o \in Orders
        PROVE  EndsAtStatus(o)'
    BY DEF IInv, TimelineIsPath, EndsAtStatus, Last
  <2>2. ASSUME NEW o \in Orders \ contended
        PROVE  IsPath(o)'
    <3>1. IsPath(o)
      BY DEF IInv, TimelineIsPath, IsPath, Follows
    <3>2. order'[o].seller = order[o].seller /\ track' = track
      OBVIOUS
    <3>3. QED
      BY <3>1, <3>2 DEF IsPath, Follows, IsNextOrderStatus
  <2>3. QED
    BY <2>1, <2>2 DEF TimelineIsPath, IsPath, Follows
<1>2. DeliveryIsLast' /\ \A o \in Orders : NotUndone(o)
  BY DEF IInv, DeliveryIsLast, NotUndone, Deliveries
<1>3. QED
  BY <1>1, <1>2

LEMMA RecordDeliveryPreservesIInv ==
  ASSUME IInv, NEW h \in Handlers, NEW o \in Orders, RecordDelivery(h, o)
  PROVE  IInv'
<1>1. TypeOK /\ task[h] \in TaskType /\ TaskIsSound(task[h]) /\ task[h].pc = "metric"
  BY DEF IInv, TypeOK, TasksAreSound, RecordDelivery, At
<1>2. task[h].order = o /\ task[h].on = {o} /\ Deliveries(o) # {}
      /\ (o \notin contended => metric[o] = 0)
  BY <1>1 DEF TaskIsSound, RecordDelivery
<1>3. /\ UNCHANGED <<order, track, shipments, contended, uncounted>>
      /\ task' = [task EXCEPT ![h] = Idle] /\ metric' = [metric EXCEPT ![o] = @ + 1]
  BY DEF RecordDelivery, Finish
<1>4. TimelineIsPath' /\ DeliveryIsLast' /\ \A p \in Orders : NotUndone(p)
  BY <1>1, <1>3, TimelineUntouched DEF TypeOK
<1>5. metric' \in [Orders -> Nat] /\ CountedIsDelivered'
  <2>1. metric \in [Orders -> Nat] /\ metric[o] \in Nat
    BY <1>1 DEF TypeOK
  <2>2. \A p \in Orders : Deliveries(p)' = Deliveries(p)
    BY <1>3 DEF Deliveries
  <2>3. metric'[o] = metric[o] + 1 /\ \A p \in Orders \ {o} : metric'[p] = metric[p]
    BY <1>3, <2>1
  <2>4. metric' \in [Orders -> Nat]
    BY <1>3, <2>1
  <2>5. CountedIsDelivered
    BY DEF IInv
  <2>6. ASSUME NEW p \in Orders
        PROVE  /\ metric'[p] > 0 => Deliveries(p)' # {}
               /\ p \notin contended' => metric'[p] <= 1
    BY <1>2, <1>3, <2>1, <2>2, <2>3, <2>5 DEF CountedIsDelivered
  <2>7. QED
    BY <2>4, <2>6 DEF CountedIsDelivered
<1>6. TaskIsSound(Idle)'
  BY IdleFacts, NoneIsNoOrder DEF TaskIsSound
<1>7. \A p \in Orders : p \in task[h].on \/ Untouched(p)
  BY <1>1, <1>2, <1>3 DEF Untouched, TypeOK
<1>8. task' \in [Handlers -> TaskType] /\ TasksAreSound' /\ OverlapsAreNoted'
  BY <1>3, <1>4, <1>6, <1>7, IdleFacts, OthersStaySound
<1>9. QED
  BY <1>1, <1>3, <1>4, <1>5, <1>8 DEF IInv, TypeOK

\* A step of a handler that goes on with task u, of which the orders see their shipment at
\* most.
LEMMA ShippingStep ==
  ASSUME IInv, NEW h \in Handlers, NEW u \in TaskType, task' = [task EXCEPT ![h] = u],
         u.on \subseteq task[h].on, TaskIsSound(u)',
         order' \in [Orders -> OrderType],
         \A o \in Orders : order'[o].status = order[o].status
                            /\ order'[o].seller = order[o].seller,
         \A o \in Orders : o \in task[h].on \/ order'[o] = order[o],
         UNCHANGED <<track, metric, contended>>, shipments' \in Nat,
         uncounted' \subseteq Orders
  PROVE  IInv'
<1>1. TimelineIsPath' /\ DeliveryIsLast' /\ \A o \in Orders : NotUndone(o)
  BY TimelineUntouched
<1>2. CountedIsDelivered'
  BY DEF IInv, CountedIsDelivered, Deliveries
<1>3. task' \in [Handlers -> TaskType] /\ TasksAreSound' /\ OverlapsAreNoted'
  BY <1>1, OthersStaySound DEF Untouched
<1>4. QED
  BY <1>1, <1>2, <1>3 DEF IInv, TypeOK

LEMMA CreateShipmentPreservesIInv ==
  ASSUME IInv, NEW h \in Handlers, CreateShipment(h)
  PROVE  IInv'
<1>1. TypeOK /\ task[h] \in TaskType /\ TaskIsSound(task[h]) /\ task[h].pc = "ship"
  BY DEF IInv, TypeOK, TasksAreSound, CreateShipment, At
<1>2. /\ UNCHANGED <<order, track, metric, contended, uncounted>>
      /\ order' \in [Orders -> OrderType] /\ uncounted' \subseteq Orders /\ shipments \in Nat
  BY <1>1 DEF CreateShipment, TypeOK
<1>3. CASE shipments < MaxShipments
  <2>1. PICK n \in Nat : n = shipments + 1
    BY <1>2
  <2>2. PICK u \in TaskType : u = [task[h] EXCEPT !.pc = "attach", !.ship = n]
    BY <1>1 DEF TaskType
  <2>3. task' = [task EXCEPT ![h] = u] /\ shipments' \in Nat
    BY <1>1, <1>3, <2>1, <2>2 DEF CreateShipment, TypeOK
  <2>4. u.on = task[h].on /\ u.order = task[h].order /\ u.pc = "attach" /\ u.ship > 0
    BY <1>1, <1>2, <2>1, <2>2 DEF TaskType
  <2>5. TaskIsSound(u)'
    BY <1>1, <1>2, <2>4 DEF TaskIsSound
  <2>6. /\ u.on \subseteq task[h].on
        /\ \A o \in Orders : order'[o].status = order[o].status
                             /\ order'[o].seller = order[o].seller
        /\ \A o \in Orders : o \in task[h].on \/ order'[o] = order[o]
        /\ UNCHANGED <<track, metric, contended>>
    BY <1>2, <2>4
  <2>7. QED
    BY <1>2, <2>3, <2>5, <2>6, ShippingStep
<1>4. CASE ~(shipments < MaxShipments)
  <2>1. task' = [task EXCEPT ![h] = Idle] /\ shipments' = shipments
    BY <1>4 DEF CreateShipment, Finish
  <2>2. TaskIsSound(Idle)'
    BY IdleFacts, NoneIsNoOrder DEF TaskIsSound
  <2>3. QED
    BY <1>2, <2>1, <2>2, IdleFacts, ShippingStep
<1>5. QED
  BY <1>3, <1>4

\* Only the shipment of the orders os is written.
LEMMA PutOnFacts ==
  ASSUME TypeOK, NEW os, NEW s \in Nat, PutOn(os, s)
  PROVE  /\ order' \in [Orders -> OrderType]
         /\ \A o \in Orders : /\ order'[o].status = order[o].status
                              /\ order'[o].seller = order[o].seller
                              /\ (o \in os \/ order'[o] = order[o])
                              /\ order'[o].shipment \in {order[o].shipment, s}
  BY DEF TypeOK, PutOn, OrderType

LEMMA AttachOrdersPreservesIInv ==
  ASSUME IInv, NEW h \in Handlers, AttachOrders(h)
  PROVE  IInv'
<1>1. TypeOK /\ task[h] \in TaskType /\ TaskIsSound(task[h]) /\ task[h].pc = "attach"
  BY DEF IInv, TypeOK, TasksAreSound, AttachOrders, At
<1>2. /\ PutOn(task[h].on, task[h].ship) /\ task[h].ship \in Nat
      /\ UNCHANGED <<track, metric, shipments, contended, uncounted>>
  BY <1>1 DEF AttachOrders, TaskType
<1>3. /\ order' \in [Orders -> OrderType]
      /\ \A o \in Orders : /\ order'[o].status = order[o].status
                           /\ order'[o].seller = order[o].seller
                           /\ (o \in task[h].on \/ order'[o] = order[o])
  BY <1>1, <1>2, PutOnFacts
<1>4. CASE task[h].order = None
  <2>1. task' = [task EXCEPT ![h] = Idle]
    BY <1>4 DEF AttachOrders, Finish
  <2>2. TaskIsSound(Idle)'
    BY IdleFacts, NoneIsNoOrder DEF TaskIsSound
  <2>3. QED
    BY <1>1, <1>2, <1>3, <2>1, <2>2, IdleFacts, ShippingStep DEF TypeOK
<1>5. CASE task[h].order # None
  <2>1. PICK u \in TaskType : u = [task[h] EXCEPT !.pc = "assign"]
    BY <1>1 DEF TaskType
  <2>2. task' = [task EXCEPT ![h] = u]
    BY <1>1, <1>5, <2>1 DEF AttachOrders, TypeOK
  <2>3. u.on = task[h].on /\ u.order = task[h].order /\ u.pc = "assign" /\ u.ship > 0
    BY <1>1, <2>1 DEF TaskType, TaskIsSound
  <2>4. u.order \in Orders
    BY <1>1, <1>5, <2>3 DEF TaskType
  <2>5. TaskIsSound(u)'
    BY <1>1, <1>3, <1>5, <2>3, <2>4 DEF TaskIsSound
  <2>6. QED
    BY <1>1, <1>2, <1>3, <2>2, <2>3, <2>5, ShippingStep DEF TypeOK
<1>6. QED
  BY <1>4, <1>5

LEMMA CommitAssignPreservesIInv ==
  ASSUME IInv, NEW h \in Handlers, CommitAssign(h)
  PROVE  IInv'
<1>1. TypeOK /\ task[h] \in TaskType /\ TaskIsSound(task[h]) /\ task[h].pc = "assign"
  BY DEF IInv, TypeOK, TasksAreSound, CommitAssign, At
<1>2. /\ PutOn({task[h].order}, task[h].ship) /\ task[h].ship \in Nat
      /\ task' = [task EXCEPT ![h] = Idle] /\ task[h].order \in task[h].on
      /\ UNCHANGED <<track, metric, shipments, contended, uncounted>>
  BY <1>1 DEF CommitAssign, TaskType, Finish, TaskIsSound
<1>3. /\ order' \in [Orders -> OrderType]
      /\ \A o \in Orders : /\ order'[o].status = order[o].status
                           /\ order'[o].seller = order[o].seller
                           /\ (o \in {task[h].order} \/ order'[o] = order[o])
  BY <1>1, <1>2, PutOnFacts
<1>4. TaskIsSound(Idle)'
  BY IdleFacts, NoneIsNoOrder DEF TaskIsSound
<1>5. QED
  BY <1>1, <1>2, <1>3, <1>4, IdleFacts, ShippingStep DEF TypeOK

LEMMA CrashPreservesIInv ==
  ASSUME IInv, NEW h \in Handlers, Crash(h)
  PROVE  IInv'
<1>1. TypeOK /\ task[h] \in TaskType /\ TaskIsSound(task[h])
  BY DEF IInv, TypeOK, TasksAreSound
<1>2. /\ UNCHANGED <<order, track, metric, shipments, contended>>
      /\ task' = [task EXCEPT ![h] = Idle]
      /\ uncounted' \subseteq Orders
  BY <1>1 DEF Crash, Finish, At, TaskIsSound, TypeOK
<1>3. TaskIsSound(Idle)'
  BY IdleFacts, NoneIsNoOrder DEF TaskIsSound
<1>4. QED
  BY <1>1, <1>2, <1>3, IdleFacts, ShippingStep DEF TypeOK

\* Every step of the program preserves the invariant.
LEMMA NextPreservesIInv ==
  ASSUME IInv, [Next]_vars
  PROVE  IInv'
<1>1. CASE UNCHANGED vars
  <2>1. /\ order' = order /\ track' = track /\ metric' = metric /\ shipments' = shipments
        /\ task' = task /\ contended' = contended /\ uncounted' = uncounted
    BY <1>1 DEF vars
  <2>2. \A o \in Orders : /\ order'[o].status = order[o].status
                         /\ order'[o].seller = order[o].seller
    BY <2>1
  <2>3. TypeOK /\ TypeOK'
    BY <2>1 DEF IInv, TypeOK
  <2>4. order' \in [Orders -> OrderType]
    BY <2>3 DEF TypeOK
  <2>5. TimelineIsPath' /\ DeliveryIsLast'
    BY <2>1, <2>2, <2>4, TimelineUntouched
  <2>6. CountedIsDelivered'
    BY <2>1 DEF IInv, CountedIsDelivered, Deliveries
  <2>7. ASSUME NEW g \in Handlers
        PROVE  TaskIsSound(task[g])'
    BY <2>1 DEF IInv, TasksAreSound, TaskIsSound, IsNextOrderStatus, Deliveries
  <2>8. OverlapsAreNoted'
    BY <2>1 DEF IInv, OverlapsAreNoted
  <2>9. QED
    BY <2>3, <2>5, <2>6, <2>7, <2>8 DEF IInv, TasksAreSound
<1>2. ASSUME NEW o \in Orders, CreateOrder(o)
      PROVE  IInv'
  BY <1>2, CreateOrderPreservesIInv
<1>3. ASSUME NEW h \in Handlers, Begin(h) \/ Continue(h) \/ Crash(h)
      PROVE  IInv'
  <2>1. CASE Begin(h)
    BY <2>1, BeginPreservesIInv
  <2>2. CASE Continue(h)
    BY <2>2, CommitAdvancePreservesIInv, RecordDeliveryPreservesIInv,
       CommitCancelPreservesIInv, CreateShipmentPreservesIInv, AttachOrdersPreservesIInv,
       CommitAssignPreservesIInv DEF Continue
  <2>3. CASE Crash(h)
    BY <2>3, CrashPreservesIInv
  <2>4. QED
    BY <1>3, <2>1, <2>2, <2>3
<1>4. QED
  BY <1>1, <1>2, <1>3 DEF Next

-----------------------------------------------------------------------------
(* The theorems *)

THEOREM InductiveInvariant == Spec => []IInv
<1>1. Init => IInv
  BY InitIInv
<1>2. IInv /\ [Next]_vars => IInv'
  BY NextPreservesIInv
<1>3. QED
  BY <1>1, <1>2, PTL DEF Spec

\* The rows, the timelines and the tasks are well formed.
THEOREM FulfilmentTypeCorrect == Spec => []TypeOK
<1>1. IInv => TypeOK
  BY DEF IInv
<1>2. QED
  BY <1>1, InductiveInvariant, PTL

\* The buyer's timeline ends at the stage the order is in, and without contention it walks
\* the stages one by one and is never continued after a cancellation.
THEOREM TimelineIsAlwaysAPath == Spec => []TimelineIsPath
<1>1. IInv => TimelineIsPath
  BY DEF IInv
<1>2. QED
  BY <1>1, InductiveInvariant, PTL

\* The impact figures count no order that was not delivered, and no order twice unless two
\* requests touched it at once: the safety half of DeliveriesAreCounted.
THEOREM CountedWasDelivered == Spec => []CountedIsDelivered
<1>1. IInv => CountedIsDelivered
  BY DEF IInv
<1>2. QED
  BY <1>1, InductiveInvariant, PTL

\* The orders of a shipment stay on one.
ShipmentStep ==
  \A o \in Orders \ contended' :
    order[o].shipment # 0 => order'[o].shipment # 0

\* The one write of a handler that puts orders on a shipment.
LEMMA PutOnKeepsShipment ==
  ASSUME IInv, NEW h \in Handlers, AttachOrders(h) \/ CommitAssign(h)
  PROVE  ShipmentStep
<1>1. TypeOK /\ task[h] \in TaskType /\ TaskIsSound(task[h]) /\ contended' = contended
  BY DEF IInv, TypeOK, TasksAreSound, AttachOrders, CommitAssign
<1>2. CASE AttachOrders(h)
  <2>1. PutOn(task[h].on, task[h].ship) /\ task[h].ship \in Nat /\ task[h].ship > 0
    BY <1>1, <1>2 DEF AttachOrders, TaskType, At, TaskIsSound
  <2>2. QED
    BY <1>1, <2>1, PutOnFacts DEF ShipmentStep
<1>3. CASE CommitAssign(h)
  <2>1. /\ PutOn({task[h].order}, task[h].ship) /\ task[h].ship \in Nat
        /\ task[h].pc = "assign"
    BY <1>1, <1>3 DEF CommitAssign, TaskType, At
  <2>2. ASSUME NEW o \in Orders \ contended', order[o].shipment # 0
        PROVE  order'[o].shipment # 0
    <3>1. CASE o = task[h].order
      <4>1. task[h].ship # 0
        BY <1>1, <2>1, <2>2, <3>1 DEF TaskIsSound
      <4>2. order'[o].shipment \in {order[o].shipment, task[h].ship}
        BY <1>1, <2>1, PutOnFacts
      <4>3. QED
        BY <2>2, <4>1, <4>2
    <3>2. CASE o # task[h].order
      <4>1. order'[o] = order[o]
        BY <1>1, <2>1, <3>2, PutOnFacts
      <4>2. QED
        BY <2>2, <4>1
    <3>3. QED
      BY <3>1, <3>2
  <2>3. QED
    BY <2>2 DEF ShipmentStep
<1>4. QED
  BY <1>2, <1>3

\* Every other step leaves the shipment of every order as it is.
LEMMA NextKeepsShipment ==
  ASSUME IInv, Next
  PROVE  ShipmentStep
<1>1. order \in [Orders -> OrderType]
  BY DEF IInv, TypeOK
<1>2. ASSUME NEW o \in Orders, NEW s, SetStage(o, s)
      PROVE  ShipmentStep
  BY <1>1, <1>2 DEF SetStage, ShipmentStep, OrderType
<1>3. ASSUME order' = order
      PROVE  ShipmentStep
  BY <1>3 DEF ShipmentStep
<1>4. ASSUME NEW h \in Handlers, Begin(h)
      PROVE  order' = order
  BY <1>4 DEF Begin, BeginAdvance, BeginCancel, BeginShipment, BeginAssignNew, BeginAssign,
              StartOn
<1>5. ASSUME NEW h \in Handlers, Continue(h)
      PROVE  ShipmentStep
  <2>1. ASSUME NEW o \in Orders, CommitAdvance(h, o) \/ CommitCancel(h, o)
        PROVE  ShipmentStep
    BY <1>2, <2>1 DEF CommitAdvance, CommitCancel
  <2>2. ASSUME NEW o \in Orders, RecordDelivery(h, o)
        PROVE  ShipmentStep
    BY <1>3, <2>2 DEF RecordDelivery
  <2>3. CASE CreateShipment(h)
    BY <1>3, <2>3 DEF CreateShipment
  <2>4. CASE AttachOrders(h) \/ CommitAssign(h)
    BY <2>4, PutOnKeepsShipment
  <2>5. QED
    BY <1>5, <2>1, <2>2, <2>3, <2>4 DEF Continue
<1>6. QED
  BY <1>2, <1>3, <1>4, <1>5 DEF Next, CreateOrder, Crash

\* An order on a shipment does not fall off it, but by overlapping requests.
THEOREM ShipmentIsAlwaysKept == Spec => ShipmentIsKept
<1>1. IInv /\ Next => ShipmentStep
  BY NextKeepsShipment
<1>2. ShipmentStep =>
        \A o \in Orders \ contended' : order[o].shipment # 0 => order'[o].shipment # 0
  BY DEF ShipmentStep
<1>3. Spec => [][\A o \in Orders \ contended' :
                   order[o].shipment # 0 => order'[o].shipment # 0]_vars
  BY <1>1, <1>2, InductiveInvariant, PTL DEF Spec
<1>4. QED
  BY <1>3 DEF ShipmentIsKept

-----------------------------------------------------------------------------
(* What becomes of an order *)

Exists(o) == order[o].status # "ABSENT"
Delivered(o) == Deliveries(o) # {}
Counted(o) == metric[o] > 0

AsBefore(o) ==
  (Exists(o)' <=> Exists(o)) /\ (Delivered(o)' <=> Delivered(o)) /\ (Counted(o)' <=> Counted(o))

\* An order that exists is delivered, or counted after its delivery.
GoesOn(o) ==
  /\ Exists(o) /\ Exists(o)'
  /\ \/ ~Delivered(o) /\ Delivered(o)' /\ (Counted(o)' <=> Counted(o))
     \/ Delivered(o) /\ Delivered(o)' /\ ~Counted(o) /\ Counted(o)'

OneGoesOn ==
  \E o \in Orders : GoesOn(o) /\ \A p \in Orders \ {o} : AsBefore(p)

LEMMA InsertStep ==
  ASSUME IInv, NEW o \in Orders, CreateOrder(o)
  PROVE  /\ ~Exists(o) /\ Exists(o)' /\ \A p \in Orders \ {o} : Exists(p)' <=> Exists(p)
         /\ \A p \in Orders : (Delivered(p)' <=> Delivered(p)) /\ (Counted(p)' <=> Counted(p))
<1>1. TypeOK /\ SetStage(o, "PAYMENT_CONFIRMED") /\ order[o].status = "ABSENT" /\ metric' = metric
  BY DEF IInv, CreateOrder
<1>2. Appended(o, "PAYMENT_CONFIRMED")
  BY <1>1, StageIsAppended DEF OrderStatus
<1>3. \A p \in Orders : Deliveries(p)' = Deliveries(p)
  BY <1>1, DeliveriesGrow DEF OrderStatus
<1>4. order'[o].status = "PAYMENT_CONFIRMED" /\ \A p \in Orders \ {o} : order'[p] = order[p]
  BY <1>1, <1>2 DEF Appended, TypeOK, OrderType
<1>5. QED
  BY <1>1, <1>3, <1>4 DEF Exists, Delivered, Counted

\* A new stage of an order that exists.
LEMMA NewStageStep ==
  ASSUME IInv, NEW o \in Orders, NEW s \in OrderStatus, SetStage(o, s), Exists(o),
         metric' = metric
  PROVE  (\A p \in Orders : AsBefore(p)) \/ OneGoesOn
<1>1. TypeOK /\ Appended(o, s)
  BY StageIsAppended DEF IInv
<1>2. order'[o].status = s /\ s # "ABSENT"
  BY <1>1 DEF Appended, TypeOK, OrderType, OrderStatus
<1>3. \A p \in Orders \ {o} : AsBefore(p)
  BY <1>1, DeliveriesGrow DEF Appended, AsBefore, Exists, Delivered, Counted
<1>4. Deliveries(o) \subseteq Deliveries(o)'
  BY <1>1, DeliveriesGrow
<1>5. AsBefore(o) \/ GoesOn(o)
  BY <1>2, <1>4 DEF AsBefore, GoesOn, Exists, Delivered, Counted
<1>6. QED
  BY <1>3, <1>5 DEF OneGoesOn

\* A step of a request delivers or counts one order that exists, or leaves all as they were.
LEMMA RequestStep ==
  ASSUME IInv, NEW h \in Handlers, Begin(h) \/ Continue(h) \/ Crash(h)
  PROVE  (\A o \in Orders : AsBefore(o)) \/ OneGoesOn
<1>1. TypeOK /\ task[h] \in TaskType /\ TaskIsSound(task[h])
  BY DEF IInv, TypeOK, TasksAreSound
<1>2. ASSUME UNCHANGED <<track, metric>>,
             \A o \in Orders : order'[o].status = order[o].status
      PROVE  \A o \in Orders : AsBefore(o)
  BY <1>2 DEF AsBefore, Exists, Delivered, Counted, Deliveries
<1>3. CASE UNCHANGED <<order, track, metric>>
  BY <1>2, <1>3
<1>4. ASSUME NEW o \in Orders, CommitAdvance(h, o) \/ CommitCancel(h, o)
      PROVE  (\A p \in Orders : AsBefore(p)) \/ OneGoesOn
  <2>1. PICK s \in OrderStatus : SetStage(o, s)
    BY <1>1, <1>4 DEF CommitAdvance, CommitCancel, TaskIsSound, At, OrderStatus
  <2>2. Exists(o) /\ metric' = metric
    BY <1>1, <1>4, NoneIsNoOrder DEF CommitAdvance, CommitCancel, TaskIsSound, At, Exists
  <2>3. QED
    BY <2>1, <2>2, NewStageStep
<1>5. ASSUME NEW o \in Orders, RecordDelivery(h, o)
      PROVE  (\A p \in Orders : AsBefore(p)) \/ OneGoesOn
  <2>1. Exists(o) /\ Delivered(o)
    BY <1>1, <1>5, NoneIsNoOrder DEF RecordDelivery, TaskIsSound, At, Exists, Delivered
  <2>2. /\ UNCHANGED <<order, track>> /\ metric'[o] = metric[o] + 1 /\ metric[o] \in Nat
        /\ \A p \in Orders \ {o} : metric'[p] = metric[p]
    BY <1>1, <1>5 DEF RecordDelivery, TypeOK
  <2>3. \A p \in Orders \ {o} : AsBefore(p)
    BY <2>2 DEF AsBefore, Exists, Delivered, Counted, Deliveries
  <2>4. AsBefore(o) \/ GoesOn(o)
    BY <2>1, <2>2 DEF AsBefore, GoesOn, Exists, Delivered, Counted, Deliveries
  <2>5. QED
    BY <2>3, <2>4 DEF OneGoesOn
<1>6. CASE AttachOrders(h)
  <2>1. PutOn(task[h].on, task[h].ship) /\ task[h].ship \in Nat /\ UNCHANGED <<track, metric>>
    BY <1>1, <1>6 DEF AttachOrders, TaskType
  <2>2. \A o \in Orders : order'[o].status = order[o].status
    BY <1>1, <2>1, PutOnFacts
  <2>3. QED
    BY <1>2, <2>1, <2>2
<1>7. CASE CommitAssign(h)
  <2>1. /\ PutOn({task[h].order}, task[h].ship) /\ task[h].ship \in Nat
        /\ UNCHANGED <<track, metric>>
    BY <1>1, <1>7 DEF CommitAssign, TaskType
  <2>2. \A o \in Orders : order'[o].status = order[o].status
    BY <1>1, <2>1, PutOnFacts
  <2>3. QED
    BY <1>2, <2>1, <2>2
<1>8. CASE Begin(h)
  <2>1. \A os, t : StartOn(h, os, t) => UNCHANGED <<order, track, metric>>
    BY DEF StartOn
  <2>2. UNCHANGED <<order, track, metric>>
    BY <1>8, <2>1 DEF Begin, BeginAdvance, BeginCancel, BeginShipment, BeginAssignNew, BeginAssign
  <2>3. QED
    BY <1>3, <2>2
<1>9. QED
  BY <1>3, <1>4, <1>5, <1>6, <1>7, <1>8 DEF Continue, CreateShipment, Crash

-----------------------------------------------------------------------------
(* The end of an order *)

CancelledStep ==
  \A o \in Orders \ contended' :
    order[o].status = "CANCELLED" => order'[o].status = "CANCELLED"

\* A decision of a handler leaves what is cancelled, unless another was on it.
LEMMA DecisionKeepsCancelled ==
  ASSUME IInv, NEW h \in Handlers, NEW o \in Orders, CommitAdvance(h, o) \/ CommitCancel(h, o)
  PROVE  CancelledStep
<1>1. TypeOK /\ task[h] \in TaskType /\ TaskIsSound(task[h]) /\ contended' = contended
  BY DEF IInv, TypeOK, TasksAreSound, CommitAdvance, CommitCancel
<1>2. PICK s \in OrderStatus : SetStage(o, s)
  BY <1>1 DEF CommitAdvance, CommitCancel, TaskIsSound, At, OrderStatus
<1>3. order'[o].status = s /\ \A p \in Orders \ {o} : order'[p] = order[p]
  BY <1>1, <1>2, StageIsAppended DEF Appended, TypeOK, OrderType
<1>4. ASSUME o \notin contended, order[o].status = "CANCELLED"
      PROVE  FALSE
  <2>1. order[o].seller \in SellerType
    BY <1>1, SellersOK DEF TypeOK, OrderType
  <2>2. CASE CommitCancel(h, o)
    BY <1>1, <1>4, <2>2 DEF CommitCancel, TaskIsSound, At
  <2>3. CASE CommitAdvance(h, o)
    <3>1. IsNextOrderStatus(order[o].seller, order[o].status, task[h].next)
      BY <1>1, <1>4, <2>3 DEF CommitAdvance, TaskIsSound, At
    <3>2. QED
      BY <1>4, <2>1, <3>1, StagesAreClosed
  <2>4. QED
    BY <2>2, <2>3
<1>5. QED
  BY <1>1, <1>3, <1>4 DEF CancelledStep

LEMMA NextKeepsCancelled ==
  ASSUME IInv, Next
  PROVE  CancelledStep
<1>1. ASSUME \A o \in Orders : order'[o].status = order[o].status
      PROVE  CancelledStep
  BY <1>1 DEF CancelledStep
<1>2. TypeOK
  BY DEF IInv
<1>3. ASSUME NEW o \in Orders, CreateOrder(o)
      PROVE  CancelledStep
  <2>1. Appended(o, "PAYMENT_CONFIRMED") /\ order[o].status = "ABSENT"
    BY <1>2, <1>3, StageIsAppended DEF CreateOrder, OrderStatus
  <2>2. QED
    BY <2>1 DEF Appended, CancelledStep
<1>4. ASSUME NEW h \in Handlers, Begin(h)
      PROVE  CancelledStep
  <2>1. \A os, t : StartOn(h, os, t) => order' = order
    BY DEF StartOn
  <2>2. order' = order
    BY <1>4, <2>1 DEF Begin, BeginAdvance, BeginCancel, BeginShipment, BeginAssignNew, BeginAssign
  <2>3. QED
    BY <1>1, <2>2
<1>5. ASSUME NEW h \in Handlers, AttachOrders(h) \/ CommitAssign(h)
      PROVE  CancelledStep
  <2>1. task[h].ship \in Nat /\ (PutOn(task[h].on, task[h].ship)
                                 \/ PutOn({task[h].order}, task[h].ship))
    BY <1>2, <1>5 DEF AttachOrders, CommitAssign, TypeOK, TaskType
  <2>2. \A o \in Orders : order'[o].status = order[o].status
    BY <1>2, <2>1, PutOnFacts
  <2>3. QED
    BY <1>1, <2>2
<1>6. ASSUME NEW h \in Handlers, Continue(h)
      PROVE  CancelledStep
  BY <1>1, <1>5, <1>6, DecisionKeepsCancelled DEF Continue, RecordDelivery, CreateShipment
<1>7. QED
  BY <1>1, <1>3, <1>4, <1>6 DEF Next, Crash

\* Nobody leaves CANCELLED but by overlapping requests (advanceOrderStatus, cancelOrder).
THEOREM CancelledIsAlwaysFinal == Spec => CancelledIsFinal
<1>1. IInv /\ Next => CancelledStep
  BY NextKeepsCancelled
<1>2. CancelledStep => (\A o \in Orders \ contended' :
                          order[o].status = "CANCELLED" => order'[o].status = "CANCELLED")
  BY DEF CancelledStep
<1>3. QED
  BY <1>1, <1>2, InductiveInvariant, PTL DEF Spec, CancelledIsFinal

OneHandler == \A g, h \in Handlers : g = h
Uncontended == contended = {}

\* With one request at a time nothing is contended for, ...
THEOREM NothingContended ==
  ASSUME OneHandler
  PROVE  Spec => []Uncontended
<1>1. Init => Uncontended
  BY DEF Init, Uncontended
<1>2. Uncontended /\ [Next]_vars => Uncontended'
  <2>1. SUFFICES ASSUME contended = {}, [Next]_vars
                 PROVE  contended' = {}
    BY DEF Uncontended
  <2>2. \A h \in Handlers : \A os, t : StartOn(h, os, t) => contended' = {}
    BY <2>1 DEF StartOn, OneHandler
  <2>3. ASSUME NEW h \in Handlers, Begin(h)
        PROVE  contended' = {}
    BY <2>2, <2>3 DEF Begin, BeginAdvance, BeginCancel, BeginShipment, BeginAssignNew, BeginAssign
  <2>4. ASSUME ~\E h \in Handlers : Begin(h)
        PROVE  contended' = contended
    BY <2>1, <2>4 DEF Next, CreateOrder, Continue, CommitAdvance, RecordDelivery, CommitCancel,
      CreateShipment, AttachOrders, CommitAssign, Crash, vars
  <2>5. QED
    BY <2>1, <2>3, <2>4
<1>3. QED
  BY <1>1, <1>2, PTL DEF Spec

\* ... and the rule of orders.service.ts holds as it stands: "Cancelled orders cannot be
\* advanced."
THEOREM SerialCancelled ==
  ASSUME OneHandler
  PROVE  Spec => CancelledStaysCancelled
<1>1. IInv /\ Uncontended' /\ Next =>
        (\A o \in Orders : order[o].status = "CANCELLED" => order'[o].status = "CANCELLED")
  BY NextKeepsCancelled DEF CancelledStep, Uncontended
<1>2. Spec => []Uncontended
  BY NothingContended
<1>3. QED
  BY <1>1, <1>2, InductiveInvariant, PTL DEF Spec, CancelledStaysCancelled
=============================================================================
