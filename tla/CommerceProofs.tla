--------------------------- MODULE CommerceProofs ---------------------------
(***************************************************************************)
(* Proofs about Commerce, for every set of buyers, listings, payments and  *)
(* handlers, every number of invoices, with and without crashes; and about *)
(* Sales, which composes it with Fulfilment.                               *)
(***************************************************************************)
EXTENDS Sales, TLAPS

\* The inductive invariant.
IInv ==
  /\ TypeOK
  /\ OrderIsBacked
  /\ StatusHasEvidence
  /\ OrderNumbersUnique
  /\ TasksAreSound
  /\ PaymentsAreSound

LEMMA InitIInv == Init => IInv
  BY NoneIsNoRow, BoundsOK
  DEF Init, IInv, TypeOK, OrderIsBacked, StatusHasEvidence, HasEvidence, OrderNumbersUnique,
      TasksAreSound, TaskIsSound, PaymentsAreSound, AbsentInvoice, AbsentPayment,
      Idle, InvoiceType, PaymentType, TaskType, TaskPCs, ListingStatus, Invoices,
      InvoiceStatus, PaymentStatus, PaymentsOf, OrderPCs

USE DEF OrderPCs, Start, Goto, Finish, IsIdle, At, SetInvoiceStatus

LEMMA IdleFacts ==
  /\ Idle \in TaskType
  /\ Idle.pc = "idle" /\ Idle.saw = "nothing" /\ Idle.todo = {}
  BY DEF Idle, TaskType, TaskPCs, Invoices

LEMMA BeginTypes ==
  ASSUME TypeOK, NEW h \in Handlers, Begin(h)
  PROVE  TypeOK'
<1>1. ASSUME NEW b \in Buyers, NEW l \in Listings, BeginRequestInvoice(h, b, l)
      PROVE  TypeOK'
  BY IdleFacts, <1>1 DEF TypeOK, BeginRequestInvoice, TaskType, TaskPCs
<1>2. ASSUME NEW b \in Buyers, NEW l \in FleetListings, BeginFleetInvoice(h, b, l)
      PROVE  TypeOK'
  BY IdleFacts, <1>2, FleetListingsOK DEF TypeOK, BeginFleetInvoice, TaskType, TaskPCs
<1>3. ASSUME NEW i \in Invoices, BeginSubmitPayment(h, i)
      PROVE  TypeOK'
  BY IdleFacts, <1>3 DEF TypeOK, BeginSubmitPayment, TaskType, TaskPCs
<1>4. ASSUME NEW i \in Invoices, BeginCancelByBuyer(h, i)
      PROVE  TypeOK'
  BY IdleFacts, <1>4 DEF TypeOK, BeginCancelByBuyer, TaskType, TaskPCs
<1>5. ASSUME NEW i \in Invoices, BeginCancelByAdmin(h, i)
      PROVE  TypeOK'
  BY IdleFacts, <1>5 DEF TypeOK, BeginCancelByAdmin, TaskType, TaskPCs
<1>6. ASSUME NEW p \in Payments, NEW pc \in TaskPCs, BeginDecision(h, p, pc)
      PROVE  TypeOK'
  BY IdleFacts, <1>6 DEF TypeOK, BeginDecision, TaskType, PaymentType
<1>7. ASSUME BeginExpiry(h)
      PROVE  TypeOK'
  BY IdleFacts, <1>7 DEF TypeOK, BeginExpiry, DueInvoices, TaskType, TaskPCs
<1>8. QED
  BY <1>1, <1>2, <1>3, <1>4, <1>5, <1>6, <1>7
  DEF Begin, BeginConfirmPayment, BeginRejectPayment, BeginMarkPartial, TaskPCs

LEMMA FinishTypes ==
  ASSUME TypeOK, NEW h \in Handlers, Finish(h)
  PROVE  task' \in [Handlers -> TaskType]
  BY IdleFacts DEF TypeOK

LEMMA GotoTypes ==
  ASSUME TypeOK, NEW h \in Handlers, NEW pc \in TaskPCs, Goto(h, pc)
  PROVE  task' \in [Handlers -> TaskType]
  BY DEF TypeOK, TaskType

LEMMA NumberTypes ==
  ASSUME TypeOK, NEW h \in Handlers, NEW pc \in TaskPCs, NEW n \in Nat,
         task' = [task EXCEPT ![h].pc = pc, ![h].no = n]
  PROVE  task' \in [Handlers -> TaskType]
<1> DEFINE t == [task[h] EXCEPT !.pc = pc, !.no = n]
<1>1. t \in TaskType
  BY DEF TypeOK, TaskType
<1>2. task' = [task EXCEPT ![h] = t]
  BY DEF TypeOK
<1>3. QED
  <2> HIDE DEF t
  <2> QED
    BY <1>1, <1>2 DEF TypeOK

LEMMA InvoiceStatusTypes ==
  ASSUME TypeOK, NEW i \in Invoices, NEW s \in InvoiceStatus, SetInvoiceStatus(i, s)
  PROVE  invoice' \in [Invoices -> InvoiceType]
  BY DEF TypeOK, InvoiceType

LEMMA PaymentStatusTypes ==
  ASSUME TypeOK, NEW p \in Payments, NEW s \in PaymentStatus,
         payment' = [payment EXCEPT ![p].status = s]
  PROVE  payment' \in [Payments -> PaymentType]
  BY DEF TypeOK, PaymentType

\* What a task that is about to write knows of the rows it will write.
LEMMA TaskRows ==
  ASSUME TypeOK, TasksAreSound, NEW h \in Handlers
  PROVE  /\ task[h] \in TaskType
         /\ task[h].pc \in {"submit", "confirm", "reject", "partial"} \cup OrderPCs
              => task[h].inv \in Invoices
         /\ task[h].pc \in {"confirm", "reject", "partial"} => task[h].pay \in Payments
         /\ task[h].saw # "nothing" => task[h].inv \in Invoices
  BY DEF TypeOK, TasksAreSound, TaskIsSound, TaskType

LEMMA ContinueTypes ==
  ASSUME TypeOK, TasksAreSound, NEW h \in Handlers, Continue(h)
  PROVE  TypeOK'
<1>1. CASE CheckActiveInvoice(h)
  BY FinishTypes, GotoTypes, <1>1 DEF TypeOK, CheckActiveInvoice, TaskPCs
<1>2. CASE TakeInvoiceNumber(h)
  <2>1. task' \in [Handlers -> TaskType]
    <3>1. PICK n \in 1 .. MaxInvoices + 1 :
            IF n \in Invoices
              THEN task' = [task EXCEPT ![h].pc = "create", ![h].no = n]
              ELSE Finish(h)
      BY <1>2 DEF TakeInvoiceNumber
    <3>2. n \in Nat
      BY BoundsOK
    <3>3. QED
      BY <3>1, <3>2, FinishTypes, NumberTypes DEF TaskPCs
  <2>2. QED
    BY <2>1, <1>2 DEF TypeOK, TakeInvoiceNumber
<1>3. CASE CreateInvoice(h)
  <2> DEFINE row == [status |-> "SENT", buyer |-> task[h].buyer,
                     listing |-> task[h].listing, overdue |-> FALSE]
  <2>0. row \in InvoiceType
    BY TaskRows DEF TaskType, InvoiceType, InvoiceStatus
  <2>1. invoice' \in [Invoices -> InvoiceType]
    <3> HIDE DEF row
    <3>1. \/ invoice' = [invoice EXCEPT ![task[h].no] = row]
          \/ invoice' = invoice
      BY <1>3 DEF CreateInvoice, row
    <3>2. QED
      BY <2>0, <3>1 DEF TypeOK
  <2>2. QED
    BY <1>3, <2>1, FinishTypes DEF TypeOK, CreateInvoice
<1>4. CASE CommitSubmitPayment(h)
  <2>1. task[h].inv \in Invoices
    BY <1>4, TaskRows DEF CommitSubmitPayment
  <2>2. payment' \in [Payments -> PaymentType]
    BY <1>4, <2>1 DEF TypeOK, CommitSubmitPayment, PaymentType, PaymentStatus
  <2>3. invoice' \in [Invoices -> InvoiceType]
    BY <1>4, <2>1, InvoiceStatusTypes DEF TypeOK, CommitSubmitPayment, InvoiceStatus
  <2>4. QED
    BY <1>4, <2>2, <2>3, FinishTypes DEF TypeOK, CommitSubmitPayment
<1>5. CASE CommitConfirmPayment(h)
  <2>1. task[h].inv \in Invoices /\ task[h].pay \in Payments
    BY <1>5, TaskRows DEF CommitConfirmPayment
  <2>2. payment' \in [Payments -> PaymentType]
    BY <1>5, <2>1, PaymentStatusTypes DEF CommitConfirmPayment, PaymentStatus
  <2>3. invoice' \in [Invoices -> InvoiceType]
    BY <1>5, <2>1, InvoiceStatusTypes DEF CommitConfirmPayment, InvoiceStatus
  <2>4. QED
    BY <1>5, <2>1, <2>2, <2>3, GotoTypes DEF TypeOK, CommitConfirmPayment, TaskPCs
<1>6. CASE CommitRejectPayment(h)
  <2>1. task[h].inv \in Invoices /\ task[h].pay \in Payments
    BY <1>6, TaskRows DEF CommitRejectPayment
  <2>2. payment' \in [Payments -> PaymentType]
    BY <1>6, <2>1, PaymentStatusTypes DEF CommitRejectPayment, PaymentStatus
  <2>3. invoice' \in [Invoices -> InvoiceType]
    BY <1>6, <2>1, InvoiceStatusTypes DEF CommitRejectPayment, InvoiceStatus
  <2>4. QED
    BY <1>6, <2>2, <2>3, FinishTypes DEF TypeOK, CommitRejectPayment
<1>7. CASE CommitMarkPartial(h)
  <2>1. invoice' \in [Invoices -> InvoiceType]
    BY <1>7, TaskRows, InvoiceStatusTypes DEF CommitMarkPartial, InvoiceStatus
  <2>2. QED
    BY <1>7, <2>1, FinishTypes DEF TypeOK, CommitMarkPartial
<1>8. CASE PrepareOrder(h)
  BY <1>8, FinishTypes, GotoTypes DEF TypeOK, PrepareOrder, TaskPCs
<1>8a. CASE TakeOrderNumber(h)
  <2>1. UsedOrderNumbers \subseteq Nat
    BY DEF TypeOK, UsedOrderNumbers
  <2>2. PICK n \in {u + 1 : u \in UsedOrderNumbers} :
          task' = [task EXCEPT ![h].pc = "createOrder", ![h].no = n]
    BY <1>8a DEF TakeOrderNumber
  <2>3. n \in Nat
    BY <2>1
  <2>4. task' \in [Handlers -> TaskType]
    BY <2>2, <2>3, NumberTypes DEF TaskPCs
  <2>5. QED
    BY <1>8a, <2>4 DEF TypeOK, TakeOrderNumber
<1>9. CASE CreateOrder(h)
  <2>1. order' \in [Invoices -> Nat]
    BY <1>9, TaskRows DEF TypeOK, CreateOrder, TaskType
  <2>2. QED
    BY <1>9, <2>1, FinishTypes DEF TypeOK, CreateOrder
<1>10. ASSUME NEW i \in Invoices, OpenRelease(h, i)
       PROVE  TypeOK'
  BY <1>10 DEF TypeOK, OpenRelease, TaskType
<1>11. CASE CommitRelease(h)
  <2>1. task[h].inv \in Invoices
    BY <1>11, TaskRows DEF CommitRelease
  <2>2. invoice' \in [Invoices -> InvoiceType]
    BY <1>11, <2>1, InvoiceStatusTypes DEF CommitRelease, EndStatus, InvoiceStatus
  <2>3. listing' \in [Listings -> ListingStatus]
    BY <1>11 DEF TypeOK, CommitRelease, ListingStatus
  <2>4. task' \in [Handlers -> TaskType]
    BY <1>11, IdleFacts DEF TypeOK, CommitRelease, TaskType
  <2>5. QED
    BY <1>11, <2>2, <2>3, <2>4 DEF TypeOK, CommitRelease
<1>12. QED
  BY <1>1, <1>2, <1>3, <1>4, <1>5, <1>6, <1>7, <1>8, <1>8a, <1>9, <1>10, <1>11
  DEF Continue

LEMMA TypesPreserved ==
  ASSUME TypeOK, TasksAreSound, [Next]_vars
  PROVE  TypeOK'
<1>1. ASSUME NEW h \in Handlers, Crash(h)
      PROVE  TypeOK'
  BY IdleFacts, <1>1 DEF TypeOK, Crash
<1>2. ASSUME NEW i \in Invoices, PassDeadline(i)
      PROVE  TypeOK'
  BY <1>2 DEF TypeOK, PassDeadline, InvoiceType
<1>3. ASSUME NEW l \in Listings, NEW s \in AdminStatuses, SetListingStatus(l, s)
      PROVE  TypeOK'
  BY <1>3, AdminStatusesOK DEF TypeOK, SetListingStatus
<1>4. CASE UNCHANGED vars
  BY <1>4 DEF TypeOK, vars
<1>5. QED
  BY <1>1, <1>2, <1>3, <1>4, BeginTypes, ContinueTypes DEF Next

-----------------------------------------------------------------------------
(* What no step takes back: rows keep their identity, confirmations are kept. *)

RowsKept ==
  /\ \A i \in Invoices : invoice[i].status # "ABSENT" =>
       invoice'[i].status # "ABSENT" /\ invoice'[i].listing = invoice[i].listing
  /\ \A p \in Payments : payment[p].status # "ABSENT" =>
       payment'[p].status # "ABSENT" /\ payment'[p].invoice = payment[p].invoice
  /\ verified \subseteq verified'

LEMMA BeginWritesNothing ==
  ASSUME NEW h \in Handlers, Begin(h)
  PROVE  UNCHANGED <<listing, invoice, payment, order, verified>>
  BY DEF Begin, BeginRequestInvoice, BeginFleetInvoice, BeginSubmitPayment, BeginDecision,
    BeginCancelByBuyer, BeginCancelByAdmin, BeginConfirmPayment, BeginRejectPayment,
    BeginMarkPartial, BeginExpiry

\* A handler writes no task but its own.
LEMMA OnlyOwnTask ==
  ASSUME NEW h \in Handlers, Begin(h) \/ Continue(h) \/ Crash(h),
         NEW g \in Handlers \ {h}, TypeOK
  PROVE  task'[g] = task[g]
<1>1. CASE Begin(h)
  BY <1>1 DEF TypeOK, Begin, BeginRequestInvoice, BeginFleetInvoice, BeginSubmitPayment,
    BeginDecision, BeginCancelByBuyer, BeginCancelByAdmin, BeginConfirmPayment,
    BeginRejectPayment, BeginMarkPartial, BeginExpiry
<1>2. CASE Continue(h)
  BY <1>2 DEF TypeOK, Continue, CheckActiveInvoice, TakeInvoiceNumber, CreateInvoice,
    CommitSubmitPayment, CommitConfirmPayment, CommitRejectPayment, CommitMarkPartial,
    PrepareOrder, TakeOrderNumber, CreateOrder, OpenRelease, CommitRelease
<1>3. CASE Crash(h)
  BY <1>3 DEF TypeOK, Crash
<1>4. QED
  BY <1>1, <1>2, <1>3

LEMMA StatusKeepsRows ==
  ASSUME TypeOK, NEW i \in Invoices, NEW s \in InvoiceStatus, SetInvoiceStatus(i, s)
  PROVE  \A j \in Invoices : invoice[j].status # "ABSENT" =>
           invoice'[j].status # "ABSENT" /\ invoice'[j].listing = invoice[j].listing
  BY DEF TypeOK, InvoiceType, InvoiceStatus

LEMMA DecisionKeepsRows ==
  ASSUME TypeOK, NEW p \in Payments, NEW s \in PaymentStatus,
         payment' = [payment EXCEPT ![p].status = s]
  PROVE  \A q \in Payments : payment[q].status # "ABSENT" =>
           payment'[q].status # "ABSENT" /\ payment'[q].invoice = payment[q].invoice
  BY DEF TypeOK, PaymentType, PaymentStatus

LEMMA RowsAreKept ==
  ASSUME TypeOK, TasksAreSound, [Next]_vars
  PROVE  RowsKept
<1>1. ASSUME NEW h \in Handlers, Begin(h)
      PROVE  RowsKept
  BY <1>1, BeginWritesNothing DEF RowsKept
<1>2. ASSUME NEW h \in Handlers, Continue(h)
      PROVE  RowsKept
  <2>1. CASE CheckActiveInvoice(h)
    BY <2>1 DEF CheckActiveInvoice, RowsKept
  <2>2. CASE TakeInvoiceNumber(h)
    BY <2>2 DEF TakeInvoiceNumber, RowsKept
  <2>3. CASE CreateInvoice(h)
    BY <2>3 DEF CreateInvoice, RowsKept, TypeOK
  <2>4. CASE CommitSubmitPayment(h)
    <3>1. \A j \in Invoices : invoice[j].status # "ABSENT" =>
             invoice'[j].status # "ABSENT" /\ invoice'[j].listing = invoice[j].listing
      BY <2>4, TaskRows, StatusKeepsRows DEF CommitSubmitPayment, InvoiceStatus
    <3>2. QED
      BY <2>4, <3>1 DEF CommitSubmitPayment, RowsKept, TypeOK
  <2>5. CASE CommitConfirmPayment(h)
    BY <2>5, TaskRows, StatusKeepsRows, DecisionKeepsRows
    DEF CommitConfirmPayment, RowsKept, InvoiceStatus, PaymentStatus
  <2>6. CASE CommitRejectPayment(h)
    BY <2>6, TaskRows, StatusKeepsRows, DecisionKeepsRows
    DEF CommitRejectPayment, RowsKept, InvoiceStatus, PaymentStatus
  <2>7. CASE CommitMarkPartial(h)
    BY <2>7, TaskRows, StatusKeepsRows DEF CommitMarkPartial, RowsKept, InvoiceStatus
  <2>8. CASE PrepareOrder(h) \/ TakeOrderNumber(h)
    BY <2>8 DEF PrepareOrder, TakeOrderNumber, RowsKept
  <2>9. CASE CreateOrder(h)
    BY <2>9 DEF CreateOrder, RowsKept
  <2>10. ASSUME NEW i \in Invoices, OpenRelease(h, i)
         PROVE  RowsKept
    BY <2>10 DEF OpenRelease, RowsKept
  <2>11. CASE CommitRelease(h)
    BY <2>11, TaskRows, StatusKeepsRows
    DEF CommitRelease, EndStatus, RowsKept, InvoiceStatus
  <2>12. QED
    BY <1>2, <2>1, <2>2, <2>3, <2>4, <2>5, <2>6, <2>7, <2>8, <2>9, <2>10, <2>11
    DEF Continue
<1>3. ASSUME NEW h \in Handlers, Crash(h)
      PROVE  RowsKept
  BY <1>3 DEF Crash, RowsKept
<1>4. ASSUME NEW i \in Invoices, PassDeadline(i)
      PROVE  RowsKept
  BY <1>4 DEF PassDeadline, RowsKept, TypeOK
<1>5. ASSUME NEW l \in Listings, NEW s \in AdminStatuses, SetListingStatus(l, s)
      PROVE  RowsKept
  BY <1>5 DEF SetListingStatus, RowsKept
<1>6. CASE UNCHANGED vars
  BY <1>6 DEF vars, RowsKept
<1>7. QED
  BY <1>1, <1>2, <1>3, <1>4, <1>5, <1>6 DEF Next

-----------------------------------------------------------------------------
(* The task invariant *)

\* A task that does nothing stays sound while the others write.
LEMMA SoundTaskFrame ==
  ASSUME TypeOK, PaymentsAreSound, RowsKept, NEW g \in Handlers, TaskIsSound(g),
         task'[g] = task[g]
  PROVE  TaskIsSound(g)'
<1> DEFINE t == task[g]
<1>0. t \in TaskType /\ TypeOK
  BY DEF TypeOK
<1>1. t.pc \in {"submit", "confirm", "reject", "partial"} \cup OrderPCs =>
        t.inv \in Invoices /\ invoice'[t.inv].status # "ABSENT"
  BY DEF TaskIsSound, RowsKept
<1>2. t.pc \in {"confirm", "reject", "partial"} =>
        /\ t.pay \in Payments
        /\ payment'[t.pay].status # "ABSENT"
        /\ payment'[t.pay].invoice = t.inv
  BY DEF TaskIsSound, RowsKept
<1>3. t.pc \in OrderPCs => \E p \in verified' : payment'[p].invoice = t.inv
  BY DEF TaskIsSound, RowsKept, PaymentsAreSound, TypeOK
<1>4. /\ t.pc \in {"orderNumber", "createOrder"} => invoice'[t.inv].listing \in Listings
      /\ t.pc = "createOrder" => t.no # 0
  BY DEF TaskIsSound, RowsKept, OrderPCs
<1>5. \A i \in t.todo : invoice'[i].status # "ABSENT"
  BY <1>0 DEF TaskIsSound, RowsKept, TaskType
<1>6. t.saw = "reserved" => invoice'[t.inv].listing \in Listings
  BY <1>0 DEF TaskIsSound, RowsKept, TaskType
<1>7. t.pc = "create" => t.no \in Invoices
  BY DEF TaskIsSound
<1>8. t.saw # "nothing" =>
        t.pc \in {"cancelByBuyer", "cancelByAdmin", "expire"} /\ t.inv \in t.todo
  BY DEF TaskIsSound
<1>9. QED
  BY <1>1, <1>2, <1>3, <1>4, <1>5, <1>6, <1>7, <1>8 DEF TaskIsSound, Invoices

LEMMA FinishedIsSound ==
  ASSUME TypeOK, NEW h \in Handlers, Finish(h)
  PROVE  TaskIsSound(h)'
<1>1. task'[h] = Idle
  BY DEF TypeOK
<1>2. QED
  BY <1>1, IdleFacts DEF TaskIsSound

LEMMA BeginIsSound ==
  ASSUME TypeOK, PaymentsAreSound, NEW h \in Handlers, Begin(h)
  PROVE  TaskIsSound(h)'
<1>0. UNCHANGED <<invoice, payment, verified>>
  BY BeginWritesNothing
<1>1. ASSUME NEW b \in Buyers, NEW l \in Listings, BeginRequestInvoice(h, b, l)
      PROVE  TaskIsSound(h)'
  BY <1>1, IdleFacts DEF TypeOK, BeginRequestInvoice, TaskIsSound, TaskType
<1>2. ASSUME NEW b \in Buyers, NEW l \in FleetListings, BeginFleetInvoice(h, b, l)
      PROVE  TaskIsSound(h)'
  BY <1>2, IdleFacts DEF TypeOK, BeginFleetInvoice, TaskIsSound, TaskType
<1>3. ASSUME NEW i \in Invoices, BeginSubmitPayment(h, i)
      PROVE  TaskIsSound(h)'
  BY <1>0, <1>3, IdleFacts
  DEF TypeOK, BeginSubmitPayment, TaskIsSound, TaskType, PayableInvoiceStatuses
<1>4. ASSUME NEW i \in Invoices, BeginCancelByBuyer(h, i)
      PROVE  TaskIsSound(h)'
  BY <1>0, <1>4, IdleFacts
  DEF TypeOK, BeginCancelByBuyer, TaskIsSound, TaskType, BuyerCancellableStatuses
<1>5. ASSUME NEW i \in Invoices, BeginCancelByAdmin(h, i)
      PROVE  TaskIsSound(h)'
  BY <1>0, <1>5, IdleFacts DEF TypeOK, BeginCancelByAdmin, TaskIsSound, TaskType
<1>6. ASSUME NEW p \in Payments, NEW pc \in {"confirm", "reject", "partial"},
             payment[p].status # "ABSENT", BeginDecision(h, p, pc)
      PROVE  TaskIsSound(h)'
  <2>1. payment[p].invoice \in Invoices /\ invoice[payment[p].invoice].status # "ABSENT"
    BY <1>6 DEF PaymentsAreSound
  <2>2. QED
    BY <1>0, <1>6, <2>1, IdleFacts DEF TypeOK, BeginDecision, TaskIsSound, TaskType
<1>7. CASE BeginExpiry(h)
  BY <1>0, <1>7, IdleFacts
  DEF TypeOK, BeginExpiry, DueInvoices, IsDue, TaskIsSound, TaskType
<1>8. QED
  BY <1>1, <1>2, <1>3, <1>4, <1>5, <1>6, <1>7
  DEF Begin, BeginConfirmPayment, BeginRejectPayment, BeginMarkPartial,
    CanPaymentTransition, PaymentTransitions

LEMMA ContinueIsSound ==
  ASSUME TypeOK, TasksAreSound, PaymentsAreSound, RowsKept, NEW h \in Handlers, Continue(h)
  PROVE  TaskIsSound(h)'
<1>0. TaskIsSound(h) /\ TypeOK
  BY DEF TasksAreSound
<1>1. CASE CheckActiveInvoice(h)
  <2>1. CASE Finish(h)
    BY <2>1, FinishedIsSound
  <2>2. CASE Goto(h, "number")
    BY <1>0, <1>1, <2>2 DEF TypeOK, CheckActiveInvoice, TaskIsSound, TaskType
  <2>3. QED
    BY <1>1, <2>1, <2>2 DEF CheckActiveInvoice
<1>2. CASE TakeInvoiceNumber(h)
  <2>1. CASE Finish(h)
    BY <2>1, FinishedIsSound
  <2>2. ASSUME NEW n \in Invoices,
               task' = [task EXCEPT ![h].pc = "create", ![h].no = n]
        PROVE  TaskIsSound(h)'
    BY <1>0, <1>2, <2>2 DEF TypeOK, TakeInvoiceNumber, TaskIsSound, TaskType, Invoices
  <2>3. QED
    BY <1>2, <2>1, <2>2 DEF TakeInvoiceNumber
<1>3. CASE CommitConfirmPayment(h)
  <2>1. /\ task[h].inv \in Invoices /\ task[h].pay \in Payments
        /\ payment[task[h].pay].invoice = task[h].inv
    BY <1>0, <1>3 DEF CommitConfirmPayment, TaskIsSound
  <2>2. task'[h] = [task[h] EXCEPT !.pc = "order"]
    BY <1>3 DEF TypeOK, CommitConfirmPayment
  <2>3. /\ task'[h].pc = "order" /\ task'[h].inv = task[h].inv
        /\ task'[h].saw = task[h].saw /\ task'[h].todo = task[h].todo
    BY <2>2 DEF TypeOK, TaskType
  <2>4. task[h].pay \in verified' /\ payment'[task[h].pay].invoice = task[h].inv
    BY <1>3, <2>1 DEF TypeOK, CommitConfirmPayment, PaymentType
  <2>5. invoice'[task[h].inv].status # "ABSENT"
    BY <1>0, <1>3, <2>1 DEF CommitConfirmPayment, TaskIsSound, RowsKept
  <2>6. task[h].saw = "nothing"
    BY <1>0, <1>3 DEF CommitConfirmPayment, TaskIsSound
  <2>7. \A i \in task[h].todo : invoice'[i].status # "ABSENT"
    BY <1>0 DEF TypeOK, TaskType, TaskIsSound, RowsKept
  <2>8. QED
    BY <2>1, <2>3, <2>4, <2>5, <2>6, <2>7 DEF TaskIsSound, Invoices
<1>4. CASE PrepareOrder(h)
  <2>1. CASE Finish(h)
    BY <2>1, FinishedIsSound
  <2>2. CASE invoice[task[h].inv].listing # None /\ Goto(h, "orderNumber")
    <3>1. task[h].inv \in Invoices
      BY <1>0, <1>4 DEF PrepareOrder, TaskIsSound, OrderPCs
    <3>2. task'[h] = [task[h] EXCEPT !.pc = "orderNumber"]
      BY <2>2 DEF TypeOK
    <3>3. /\ task'[h].pc = "orderNumber" /\ task'[h].inv = task[h].inv
          /\ task'[h].saw = task[h].saw /\ task'[h].todo = task[h].todo
      BY <3>2 DEF TypeOK, TaskType
    <3>4. invoice[task[h].inv].listing \in Listings
      BY <2>2, <3>1 DEF TypeOK, InvoiceType
    <3>5. UNCHANGED <<invoice, payment, verified>>
      BY <1>4 DEF PrepareOrder
    <3>6. QED
      BY <1>0, <1>4, <3>3, <3>4, <3>5 DEF PrepareOrder, TaskIsSound, Invoices, OrderPCs
  <2>3. QED
    BY <1>4, <2>1, <2>2 DEF PrepareOrder
<1>4a. CASE TakeOrderNumber(h)
  <2>1. PICK n \in {u + 1 : u \in UsedOrderNumbers} :
          task' = [task EXCEPT ![h].pc = "createOrder", ![h].no = n]
    BY <1>4a DEF TakeOrderNumber
  <2>2. n # 0
    BY DEF TypeOK, UsedOrderNumbers
  <2>3. task'[h] = [task[h] EXCEPT !.pc = "createOrder", !.no = n]
    BY <2>1 DEF TypeOK
  <2>4. /\ task'[h].pc = "createOrder" /\ task'[h].inv = task[h].inv /\ task'[h].no = n
        /\ task'[h].saw = task[h].saw /\ task'[h].todo = task[h].todo
    BY <2>3 DEF TypeOK, TaskType
  <2>5. UNCHANGED <<invoice, payment, verified>>
    BY <1>4a DEF TakeOrderNumber
  <2>6. QED
    BY <1>0, <1>4a, <2>2, <2>4, <2>5 DEF TakeOrderNumber, TaskIsSound, Invoices, OrderPCs
<1>5. ASSUME NEW i \in Invoices, OpenRelease(h, i)
      PROVE  TaskIsSound(h)'
  <2>1. UNCHANGED <<invoice, payment, verified>>
    BY <1>5 DEF OpenRelease
  <2>2. /\ task'[h].pc = task[h].pc /\ task'[h].inv = i /\ task'[h].todo = task[h].todo
        /\ task'[h].saw = "reserved" => invoice[i].listing \in Listings
    BY <1>5 DEF TypeOK, OpenRelease, TaskType
  <2>3. QED
    BY <1>0, <1>5, <2>1, <2>2 DEF OpenRelease, TaskIsSound
<1>6. CASE CommitRelease(h)
  <2>1. CASE task' = [task EXCEPT ![h] = Idle]
    BY <2>1, FinishedIsSound
  <2>2. CASE task' = [task EXCEPT ![h] = [@ EXCEPT !.inv = 0, !.saw = "nothing",
                                            !.todo = task[h].todo \ {task[h].inv}]]
    <3>1. /\ task'[h].pc = task[h].pc /\ task'[h].saw = "nothing"
          /\ task'[h].todo \subseteq task[h].todo
      BY <2>2 DEF TypeOK, TaskType
    <3>2. task[h].pc \in {"cancelByBuyer", "cancelByAdmin", "expire"}
      BY <1>0, <1>6 DEF CommitRelease, TaskIsSound
    <3>3. \A i \in task'[h].todo : invoice'[i].status # "ABSENT"
      BY <1>0, <3>1 DEF TypeOK, TaskType, TaskIsSound, RowsKept
    <3>4. QED
      BY <3>1, <3>2, <3>3 DEF TaskIsSound
  <2>3. QED
    BY <1>6, <2>1, <2>2 DEF CommitRelease
<1>7. CASE Finish(h)
  BY <1>7, FinishedIsSound
<1>8. QED
  BY <1>1, <1>2, <1>3, <1>4, <1>4a, <1>5, <1>6, <1>7
  DEF Continue, CreateInvoice, CommitSubmitPayment, CommitRejectPayment, CommitMarkPartial,
    CreateOrder

LEMMA TasksStaySound ==
  ASSUME TypeOK, TasksAreSound, PaymentsAreSound, [Next]_vars
  PROVE  TasksAreSound'
<1>1. RowsKept
  BY RowsAreKept
<1>2. ASSUME NEW h \in Handlers, Begin(h) \/ Continue(h) \/ Crash(h)
      PROVE  TasksAreSound'
  <2>1. TaskIsSound(h)'
    BY <1>1, <1>2, BeginIsSound, ContinueIsSound, FinishedIsSound DEF Crash
  <2>2. ASSUME NEW g \in Handlers \ {h}
        PROVE  TaskIsSound(g)'
    BY <1>1, <1>2, OnlyOwnTask, SoundTaskFrame DEF TasksAreSound
  <2>3. QED
    BY <2>1, <2>2 DEF TasksAreSound
<1>3. CASE UNCHANGED task
  BY <1>1, <1>3, SoundTaskFrame DEF TasksAreSound
<1>4. QED
  BY <1>2, <1>3 DEF Next, PassDeadline, SetListingStatus, vars

-----------------------------------------------------------------------------
(* Orders, payments and evidence *)

LEMMA BackingIsKept ==
  ASSUME TypeOK, PaymentsAreSound, RowsKept, NEW i \in Invoices, HasBacking(i)
  PROVE  HasBacking(i)'
<1>1. PICK p \in verified : payment[p].invoice = i
  BY DEF HasBacking
<1>2. payment[p].status # "ABSENT" /\ p \in Payments
  BY <1>1 DEF PaymentsAreSound, TypeOK
<1>3. invoice[i].status # "ABSENT"
  BY <1>1, <1>2 DEF PaymentsAreSound
<1>4. QED
  BY <1>1, <1>2, <1>3 DEF HasBacking, RowsKept

\* The order table is written by CreateOrder alone, which inserts one fresh row.
LEMMA OrderWrites ==
  ASSUME TypeOK, TasksAreSound, [Next]_vars
  PROVE  \/ order' = order
         \/ \E h \in Handlers :
              /\ At(h, "createOrder")
              /\ OrderInsertAllowed(task[h].inv, task[h].no)
              /\ order' = [order EXCEPT ![task[h].inv] = task[h].no]
<1>1. ASSUME NEW h \in Handlers, CreateOrder(h)
      PROVE  \/ order' = order
             \/ /\ At(h, "createOrder")
                /\ OrderInsertAllowed(task[h].inv, task[h].no)
                /\ order' = [order EXCEPT ![task[h].inv] = task[h].no]
  BY <1>1 DEF CreateOrder
<1>2. ASSUME NEW h \in Handlers, Continue(h), ~CreateOrder(h)
      PROVE  order' = order
  BY <1>2 DEF Continue, CheckActiveInvoice, TakeInvoiceNumber, CreateInvoice,
    CommitSubmitPayment, CommitConfirmPayment, CommitRejectPayment, CommitMarkPartial,
    PrepareOrder, TakeOrderNumber, OpenRelease, CommitRelease
<1>3. QED
  BY <1>1, <1>2, BeginWritesNothing DEF Next, Crash, PassDeadline, SetListingStatus, vars

LEMMA OrdersStayBacked ==
  ASSUME TypeOK, TasksAreSound, PaymentsAreSound, OrderIsBacked, [Next]_vars
  PROVE  OrderIsBacked'
<1>1. RowsKept
  BY RowsAreKept
<1>2. SUFFICES ASSUME NEW i \in Invoices, order'[i] # 0
               PROVE  HasBacking(i)'
  BY DEF OrderIsBacked, Invoices
<1>3. CASE order[i] # 0
  BY <1>1, <1>3, BackingIsKept DEF OrderIsBacked
<1>4. CASE order[i] = 0
  <2>1. PICK h \in Handlers : At(h, "createOrder") /\ task[h].inv = i
    BY <1>2, <1>4, OrderWrites, TaskRows DEF TypeOK
  <2>2. HasBacking(i)
    BY <2>1 DEF TasksAreSound, TaskIsSound, HasBacking
  <2>3. QED
    BY <1>1, <2>2, BackingIsKept
<1>5. QED
  BY <1>3, <1>4

LEMMA NumbersStayUnique ==
  ASSUME TypeOK, TasksAreSound, OrderNumbersUnique, [Next]_vars
  PROVE  OrderNumbersUnique'
<1>1. CASE order' = order
  BY <1>1 DEF OrderNumbersUnique, Invoices
<1>2. ASSUME NEW h \in Handlers, OrderInsertAllowed(task[h].inv, task[h].no),
             order' = [order EXCEPT ![task[h].inv] = task[h].no]
      PROVE  OrderNumbersUnique'
  <2>1. SUFFICES ASSUME NEW i \in Invoices, NEW j \in Invoices,
                        order'[i] = order'[j], order'[i] # 0
                 PROVE  i = j
    BY DEF OrderNumbersUnique, Invoices
  <2>2. task[h].no \notin {order[k] : k \in Invoices}
    BY <1>2 DEF OrderInsertAllowed, UsedOrderNumbers
  <2>3. QED
    BY <1>2, <2>1, <2>2 DEF TypeOK, OrderNumbersUnique
<1>3. QED
  BY <1>1, <1>2, OrderWrites

\* The payment table and the confirmations are written by three commits.
LEMMA PaymentWrites ==
  ASSUME TypeOK, TasksAreSound, [Next]_vars
  PROVE  \/ payment' = payment /\ verified' = verified
         \/ \E h \in Handlers : CommitSubmitPayment(h)
         \/ \E h \in Handlers : CommitConfirmPayment(h)
         \/ \E h \in Handlers : CommitRejectPayment(h)
<1>1. ASSUME NEW h \in Handlers, Continue(h), ~CommitSubmitPayment(h),
             ~CommitConfirmPayment(h), ~CommitRejectPayment(h)
      PROVE  payment' = payment /\ verified' = verified
  BY <1>1 DEF Continue, CheckActiveInvoice, TakeInvoiceNumber, CreateInvoice,
    CommitMarkPartial, PrepareOrder, TakeOrderNumber, CreateOrder, OpenRelease, CommitRelease
<1>2. QED
  BY <1>1, BeginWritesNothing DEF Next, Crash, PassDeadline, SetListingStatus, vars

LEMMA PaymentsStaySound ==
  ASSUME TypeOK, TasksAreSound, PaymentsAreSound, [Next]_vars
  PROVE  PaymentsAreSound'
<1>1. RowsKept /\ TypeOK'
  BY RowsAreKept, TypesPreserved
<1>2. CASE payment' = payment /\ verified' = verified
  BY <1>1, <1>2 DEF PaymentsAreSound, RowsKept, Invoices
<1>3. ASSUME NEW h \in Handlers, CommitSubmitPayment(h)
      PROVE  PaymentsAreSound'
  <2>1. task[h].inv \in Invoices /\ invoice[task[h].inv].status # "ABSENT"
    BY <1>3 DEF CommitSubmitPayment, TasksAreSound, TaskIsSound
  <2>2. invoice'[task[h].inv].status # "ABSENT"
    BY <1>1, <2>1 DEF RowsKept
  <2>3. CASE UNCHANGED payment
    BY <1>1, <1>3, <2>3 DEF CommitSubmitPayment, PaymentsAreSound, RowsKept, Invoices
  <2>4. ASSUME NEW p \in Payments, payment[p].status = "ABSENT",
               payment' = [payment EXCEPT ![p] =
                 [status |-> "UNDER_VERIFICATION", invoice |-> task[h].inv]]
        PROVE  PaymentsAreSound'
    <3>1. p \notin verified
      BY <2>4 DEF PaymentsAreSound
    <3>2. \A q \in Payments \ {p} : payment'[q] = payment[q]
      BY <2>4 DEF TypeOK
    <3>3. payment'[p].status = "UNDER_VERIFICATION" /\ payment'[p].invoice = task[h].inv
      BY <2>4 DEF TypeOK
    <3>4. \A q \in Payments :
            IF payment'[q].status = "ABSENT"
              THEN payment'[q].invoice = 0
              ELSE /\ payment'[q].invoice \in Invoices
                   /\ invoice'[payment'[q].invoice].status # "ABSENT"
      BY <1>1, <2>1, <2>2, <3>2, <3>3 DEF PaymentsAreSound, RowsKept
    <3>5. \A q \in verified' : payment'[q].status \in {"CONFIRMED", "REJECTED"}
      BY <1>3, <3>1, <3>2 DEF CommitSubmitPayment, PaymentsAreSound, TypeOK
    <3>6. QED
      BY <3>4, <3>5 DEF PaymentsAreSound, Invoices
  <2>5. QED
    BY <1>3, <2>3, <2>4 DEF CommitSubmitPayment
<1>4. ASSUME NEW h \in Handlers, CommitConfirmPayment(h) \/ CommitRejectPayment(h)
      PROVE  PaymentsAreSound'
  <2>1. PICK s \in {"CONFIRMED", "REJECTED"} :
          /\ payment' = [payment EXCEPT ![task[h].pay].status = s]
          /\ verified' \subseteq verified \cup {task[h].pay}
    BY <1>4 DEF CommitConfirmPayment, CommitRejectPayment
  <2>2. task[h].pay \in Payments /\ payment[task[h].pay].status # "ABSENT"
    BY <1>4 DEF CommitConfirmPayment, CommitRejectPayment, TasksAreSound, TaskIsSound
  <2>3. /\ payment'[task[h].pay].status = s
        /\ payment'[task[h].pay].invoice = payment[task[h].pay].invoice
    BY <2>1, <2>2 DEF TypeOK, PaymentType
  <2>4. \A q \in Payments \ {task[h].pay} : payment'[q] = payment[q]
    BY <2>1, <2>2 DEF TypeOK
  <2>5. \A q \in Payments :
          IF payment'[q].status = "ABSENT"
            THEN payment'[q].invoice = 0
            ELSE /\ payment'[q].invoice \in Invoices
                 /\ invoice'[payment'[q].invoice].status # "ABSENT"
    BY <1>1, <2>2, <2>3, <2>4 DEF PaymentsAreSound, RowsKept
  <2>6. \A q \in verified' : payment'[q].status \in {"CONFIRMED", "REJECTED"}
    BY <2>1, <2>3, <2>4 DEF PaymentsAreSound, TypeOK
  <2>7. QED
    BY <2>5, <2>6 DEF PaymentsAreSound, Invoices
<1>5. QED
  BY <1>2, <1>3, <1>4, PaymentWrites

LEMMA EvidenceIsKept ==
  ASSUME TypeOK, PaymentsAreSound, RowsKept, NEW i \in Invoices, HasEvidence(i),
         \/ invoice'[i].status = invoice[i].status
         \/ invoice'[i].status \notin
              {"PAYMENT_SUBMITTED", "PARTIALLY_PAID", "PAYMENT_CONFIRMED"}
  PROVE  HasEvidence(i)'
<1>1. \A p \in PaymentsOf(i) : payment'[p].invoice = i
  BY DEF PaymentsOf, PaymentsAreSound, RowsKept, Invoices
<1>2. QED
  BY <1>1 DEF HasEvidence, PaymentsOf, RowsKept

\* Most steps change no status to one that claims a payment.
LEMMA ClaimingWrites ==
  ASSUME TypeOK, TasksAreSound, [Next]_vars
  PROVE  \/ \E h \in Handlers : \/ CommitSubmitPayment(h)
                                \/ CommitConfirmPayment(h)
                                \/ CommitMarkPartial(h)
         \/ \A i \in Invoices :
              \/ invoice'[i].status = invoice[i].status
              \/ invoice'[i].status \notin
                   {"PAYMENT_SUBMITTED", "PARTIALLY_PAID", "PAYMENT_CONFIRMED"}
<1> DEFINE Quiet == \A i \in Invoices :
              \/ invoice'[i].status = invoice[i].status
              \/ invoice'[i].status \notin
                   {"PAYMENT_SUBMITTED", "PARTIALLY_PAID", "PAYMENT_CONFIRMED"}
<1>1. CASE UNCHANGED invoice
  BY <1>1
<1>2. ASSUME NEW h \in Handlers, CreateInvoice(h)
      PROVE  Quiet
  BY <1>2 DEF TypeOK, CreateInvoice
<1>3. ASSUME NEW h \in Handlers, CommitRejectPayment(h)
      PROVE  Quiet
  BY <1>3 DEF TypeOK, CommitRejectPayment, InvoiceType
<1>4. ASSUME NEW h \in Handlers, CommitRelease(h)
      PROVE  Quiet
  BY <1>4 DEF TypeOK, CommitRelease, EndStatus, InvoiceType
<1>5. ASSUME NEW i \in Invoices, PassDeadline(i)
      PROVE  Quiet
  BY <1>5 DEF TypeOK, PassDeadline, InvoiceType
<1>6. QED
  BY <1>1, <1>2, <1>3, <1>4, <1>5, BeginWritesNothing
  DEF Next, Continue, CheckActiveInvoice, TakeInvoiceNumber, PrepareOrder, TakeOrderNumber, CreateOrder,
    OpenRelease, Crash, SetListingStatus, vars

LEMMA EvidenceStays ==
  ASSUME TypeOK, TasksAreSound, PaymentsAreSound, StatusHasEvidence, [Next]_vars
  PROVE  StatusHasEvidence'
<1>1. RowsKept
  BY RowsAreKept
<1>2. SUFFICES ASSUME NEW i \in Invoices PROVE HasEvidence(i)'
  BY DEF StatusHasEvidence, Invoices
<1>3. HasEvidence(i)
  BY DEF StatusHasEvidence
<1>4. CASE \/ invoice'[i].status = invoice[i].status
           \/ invoice'[i].status \notin
                {"PAYMENT_SUBMITTED", "PARTIALLY_PAID", "PAYMENT_CONFIRMED"}
  BY <1>1, <1>3, <1>4, EvidenceIsKept
<1>5. ASSUME NEW h \in Handlers, CommitSubmitPayment(h)
      PROVE  HasEvidence(i)'
  <2>1. task[h].inv \in Invoices
    BY <1>5, TaskRows DEF CommitSubmitPayment
  <2>2. CASE UNCHANGED invoice \/ task[h].inv # i
    <3>1. invoice'[i].status = invoice[i].status
      BY <1>5, <2>1, <2>2 DEF TypeOK, CommitSubmitPayment
    <3>2. QED
      BY <1>4, <3>1
  <2>3. CASE task[h].inv = i /\ invoice' # invoice
    <3>1. invoice'[i].status = "PAYMENT_SUBMITTED"
      BY <1>5, <2>1, <2>3 DEF TypeOK, CommitSubmitPayment, InvoiceType
    <3>2. \E p \in Payments : payment'[p].invoice = i
      BY <1>5, <2>3 DEF TypeOK, CommitSubmitPayment
    <3>3. QED
      BY <3>1, <3>2 DEF HasEvidence, PaymentsOf
  <2>4. QED
    BY <2>2, <2>3
<1>6. ASSUME NEW h \in Handlers, CommitConfirmPayment(h)
      PROVE  HasEvidence(i)'
  <2>1. /\ task[h].inv \in Invoices /\ task[h].pay \in Payments
        /\ payment[task[h].pay].invoice = task[h].inv
    BY <1>6 DEF CommitConfirmPayment, TasksAreSound, TaskIsSound
  <2>2. CASE task[h].inv # i
    <3>1. invoice'[i].status = invoice[i].status
      BY <1>6, <2>1, <2>2 DEF TypeOK, CommitConfirmPayment
    <3>2. QED
      BY <1>4, <3>1
  <2>3. CASE task[h].inv = i
    <3>1. invoice'[i].status = "PAYMENT_CONFIRMED"
      BY <1>6, <2>1, <2>3 DEF TypeOK, CommitConfirmPayment, InvoiceType
    <3>2. /\ payment'[task[h].pay].invoice = i
          /\ task[h].pay \in verified'
      BY <1>6, <2>1, <2>3 DEF TypeOK, CommitConfirmPayment, PaymentType
    <3>3. QED
      BY <2>1, <3>1, <3>2 DEF HasEvidence, PaymentsOf
  <2>4. QED
    BY <2>2, <2>3
<1>7. ASSUME NEW h \in Handlers, CommitMarkPartial(h)
      PROVE  HasEvidence(i)'
  <2>1. /\ task[h].inv \in Invoices /\ task[h].pay \in Payments
        /\ payment[task[h].pay].invoice = task[h].inv
    BY <1>7 DEF CommitMarkPartial, TasksAreSound, TaskIsSound
  <2>2. CASE task[h].inv # i
    <3>1. invoice'[i].status = invoice[i].status
      BY <1>7, <2>1, <2>2 DEF TypeOK, CommitMarkPartial
    <3>2. QED
      BY <1>4, <3>1
  <2>3. CASE task[h].inv = i
    <3>1. invoice'[i].status = "PARTIALLY_PAID" /\ payment' = payment
      BY <1>7, <2>1, <2>3 DEF TypeOK, CommitMarkPartial, InvoiceType
    <3>2. QED
      BY <2>1, <2>3, <3>1 DEF HasEvidence, PaymentsOf
  <2>4. QED
    BY <2>2, <2>3
<1>8. QED
  BY <1>4, <1>5, <1>6, <1>7, ClaimingWrites

-----------------------------------------------------------------------------
(* The inductive invariant and the theorems *)

LEMMA StepIInv == IInv /\ [Next]_vars => IInv'
  BY TypesPreserved, TasksStaySound, PaymentsStaySound, OrdersStayBacked,
     NumbersStayUnique, EvidenceStays
  DEF IInv

LEMMA Inductive == Spec => []IInv
<1>1. Init => IInv
  BY InitIInv
<1>2. IInv /\ [Next]_vars => IInv'
  BY StepIInv
<1>3. QED
  BY <1>1, <1>2, PTL DEF Spec

\* Every row and every task is well formed, whatever the handlers interleave.
THEOREM Typed == Spec => []TypeOK
<1>1. IInv => TypeOK
  BY DEF IInv
<1>2. QED
  BY <1>1, Inductive, PTL

\* createFromInvoice never yields an order for an invoice without a vehicle or
\* without a confirmed payment of its own, for any number of concurrent handlers.
THEOREM OrdersBacked == Spec => []OrderIsBacked
<1>1. IInv => OrderIsBacked
  BY DEF IInv
<1>2. QED
  BY <1>1, Inductive, PTL

\* The invoice statuses that claim a payment are never written without one,
\* though no handler rechecks the status it overwrites.
THEOREM EvidenceHolds == Spec => []StatusHasEvidence
<1>1. IInv => StatusHasEvidence
  BY DEF IInv
<1>2. QED
  BY <1>1, Inductive, PTL

\* Both at once: neither an order nor an invoice status claims a payment that is not there.
THEOREM ClaimsAlwaysBacked == Spec => []ClaimsAreBacked
<1>1. OrderIsBacked /\ StatusHasEvidence => ClaimsAreBacked
  BY DEF ClaimsAreBacked
<1>2. QED
  BY <1>1, OrdersBacked, EvidenceHolds, PTL

\* No two orders share a number, whichever confirmations overlap.
THEOREM NumbersUnique == Spec => []OrderNumbersUnique
<1>1. IInv => OrderNumbersUnique
  BY DEF IInv
<1>2. QED
  BY <1>1, Inductive, PTL

\* What a suspended handler carries to its writes is still true when it resumes.
THEOREM TasksSound == Spec => []TasksAreSound
<1>1. IInv => TasksAreSound
  BY DEF IInv
<1>2. QED
  BY <1>1, Inductive, PTL

\* A payment stays with its invoice, and a committed confirmation stays decided.
THEOREM PaymentsSound == Spec => []PaymentsAreSound
<1>1. IInv => PaymentsAreSound
  BY DEF IInv
<1>2. QED
  BY <1>1, Inductive, PTL

\* createFromInvoice never replaces the order an invoice already has.
THEOREM OrdersPermanent == Spec => OrderIsPermanent
<1>1. IInv /\ [Next]_vars => [\A i \in Invoices : order[i] # 0 => order'[i] = order[i]]_vars
  <2>1. SUFFICES ASSUME IInv, [Next]_vars, NEW i \in Invoices, order[i] # 0
                 PROVE  order'[i] = order[i]
    OBVIOUS
  <2>2. QED
    BY <2>1, OrderWrites, TaskRows DEF IInv, TypeOK, OrderInsertAllowed
<1>2. QED
  BY <1>1, Inductive, PTL DEF Spec, OrderIsPermanent

\* No late commit of a submission, a confirmation or a rejection reopens a decided
\* payment or moves it to another invoice.
THEOREM DecisionsFinal == Spec => DecisionIsFinal
<1> DEFINE Final == \A p \in Payments : payment[p].status \in {"CONFIRMED", "REJECTED"} =>
                      /\ payment'[p].status \in {"CONFIRMED", "REJECTED"}
                      /\ payment'[p].invoice = payment[p].invoice
<1>1. IInv /\ [Next]_vars => [Final]_vars
  <2>1. SUFFICES ASSUME IInv, [Next]_vars, NEW p \in Payments,
                        payment[p].status \in {"CONFIRMED", "REJECTED"}
                 PROVE  /\ payment'[p].status \in {"CONFIRMED", "REJECTED"}
                        /\ payment'[p].invoice = payment[p].invoice
    OBVIOUS
  <2>2. RowsKept
    BY <2>1, RowsAreKept DEF IInv
  <2>3. payment'[p].invoice = payment[p].invoice
    BY <2>1, <2>2 DEF RowsKept
  <2>4. ASSUME NEW h \in Handlers, CommitSubmitPayment(h)
        PROVE  payment'[p].status = payment[p].status
    BY <2>1, <2>4 DEF CommitSubmitPayment, IInv, TypeOK
  <2>5. ASSUME NEW h \in Handlers, CommitConfirmPayment(h) \/ CommitRejectPayment(h)
        PROVE  payment'[p].status \in {"CONFIRMED", "REJECTED"}
    <3>1. PICK s \in {"CONFIRMED", "REJECTED"} :
            payment' = [payment EXCEPT ![task[h].pay].status = s]
      BY <2>5 DEF CommitConfirmPayment, CommitRejectPayment
    <3>2. QED
      BY <2>1, <3>1 DEF IInv, TypeOK, PaymentType
  <2>6. QED
    BY <2>1, <2>3, <2>4, <2>5, PaymentWrites DEF IInv
<1>2. QED
  BY <1>1, Inductive, PTL DEF Spec, DecisionIsFinal

-----------------------------------------------------------------------------
(* Refinement of Purchase *)

IsPaid(i) == \E p \in verified : payment[p].invoice = i

LEMMA StageValue ==
  ASSUME NEW i \in Invoices
  PROVE  PurchaseStage[i] = IF order[i] # 0 THEN "ordered"
                            ELSE IF IsPaid(i) THEN "paid"
                            ELSE IF invoice[i].status # "ABSENT" THEN "issued" ELSE "none"
  BY DEF PurchaseStage, IsPaid

LEMMA StageMoves ==
  ASSUME NEW i \in Invoices, NEW from, NEW to,
         PurchaseStage[i] = from, PurchaseStage'[i] = to,
         \A j \in Invoices \ {i} : PurchaseStage'[j] = PurchaseStage[j]
  PROVE  PurchaseSpec!Move(i, from, to)
<1>1. PurchaseStage = [j \in Invoices |-> PurchaseStage[j]]
  BY DEF PurchaseStage
<1>2. PurchaseStage' = [j \in Invoices |-> PurchaseStage'[j]]
  BY DEF PurchaseStage, Invoices
<1> HIDE DEF PurchaseStage
<1>3. PurchaseStage' = [PurchaseStage EXCEPT ![i] = to]
  BY <1>1, <1>2
<1>4. QED
  BY <1>3 DEF PurchaseSpec!Move

LEMMA QuietStage ==
  ASSUME NEW i \in Invoices, order'[i] = order[i], IsPaid(i)' <=> IsPaid(i),
         invoice'[i].status = "ABSENT" <=> invoice[i].status = "ABSENT"
  PROVE  PurchaseStage'[i] = PurchaseStage[i]
  BY DEF PurchaseStage, IsPaid, Invoices

LEMMA QuietStages ==
  ASSUME \A i \in Invoices : PurchaseStage'[i] = PurchaseStage[i]
  PROVE  PurchaseStage' = PurchaseStage
<1>1. PurchaseStage = [j \in Invoices |-> PurchaseStage[j]]
  BY DEF PurchaseStage
<1>2. PurchaseStage' = [j \in Invoices |-> PurchaseStage'[j]]
  BY DEF PurchaseStage, Invoices
<1> HIDE DEF PurchaseStage
<1>3. QED
  BY <1>1, <1>2

LEMMA PaidIsIssued ==
  ASSUME PaymentsAreSound, TypeOK, NEW i \in Invoices, IsPaid(i)
  PROVE  invoice[i].status # "ABSENT"
  BY DEF IsPaid, PaymentsAreSound, TypeOK

\* Without an insert or a confirmation, and with rows kept, no stage changes.
LEMMA PaidIsKept ==
  ASSUME TypeOK, PaymentsAreSound, RowsKept, verified' = verified, NEW i \in Invoices
  PROVE  IsPaid(i)' <=> IsPaid(i)
  BY DEF IsPaid, RowsKept, PaymentsAreSound, TypeOK

LEMMA RowsStayAbsent ==
  ASSUME TypeOK, TasksAreSound, [Next]_vars, \A h \in Handlers : ~CreateInvoice(h),
         NEW i \in Invoices
  PROVE  invoice'[i].status = "ABSENT" <=> invoice[i].status = "ABSENT"
<1>1. CASE invoice[i].status # "ABSENT"
  BY <1>1, RowsAreKept DEF RowsKept
<1>2. CASE invoice[i].status = "ABSENT"
  <2>1. ASSUME NEW h \in Handlers, NEW s \in InvoiceStatus, task[h].inv \in Invoices,
               SetInvoiceStatus(task[h].inv, s), invoice[task[h].inv].status # "ABSENT"
        PROVE  invoice'[i] = invoice[i]
    BY <1>2, <2>1 DEF TypeOK
  <2>2. ASSUME NEW h \in Handlers,
               CommitSubmitPayment(h) \/ CommitConfirmPayment(h) \/ CommitRejectPayment(h)
                 \/ CommitMarkPartial(h)
        PROVE  invoice'[i] = invoice[i]
    <3>1. task[h].inv \in Invoices /\ invoice[task[h].inv].status # "ABSENT"
      BY <2>2 DEF CommitSubmitPayment, CommitConfirmPayment, CommitRejectPayment,
        CommitMarkPartial, TasksAreSound, TaskIsSound
    <3>2. \/ invoice' = invoice
          \/ \E s \in InvoiceStatus : SetInvoiceStatus(task[h].inv, s)
      BY <2>2 DEF CommitSubmitPayment, CommitConfirmPayment, CommitRejectPayment,
        CommitMarkPartial, InvoiceStatus
    <3>3. QED
      BY <2>1, <3>1, <3>2
  <2>3. ASSUME NEW h \in Handlers, CommitRelease(h)
        PROVE  invoice'[i] = invoice[i]
    <3>1. task[h].inv \in Invoices /\ invoice[task[h].inv].status # "ABSENT"
      BY <2>3, TaskRows DEF CommitRelease, TasksAreSound, TaskIsSound
    <3>2. QED
      BY <2>1, <2>3, <3>1 DEF CommitRelease, EndStatus, InvoiceStatus
  <2>4. ASSUME NEW j \in Invoices, PassDeadline(j)
        PROVE  invoice'[i] = invoice[i]
    BY <1>2, <2>4 DEF TypeOK, PassDeadline
  <2>5. CASE UNCHANGED invoice
    BY <2>5
  <2>6. invoice'[i] = invoice[i]
    BY <2>2, <2>3, <2>4, <2>5, BeginWritesNothing
    DEF Next, Continue, CheckActiveInvoice, TakeInvoiceNumber, PrepareOrder, TakeOrderNumber, CreateOrder,
      OpenRelease, Crash, SetListingStatus, vars
  <2>7. QED
    BY <1>2, <2>6
<1>3. QED
  BY <1>1, <1>2

LEMMA PurchaseStep ==
  ASSUME IInv, [Next]_vars
  PROVE  [PurchaseSpec!Next]_PurchaseStage
<1>0. TypeOK /\ TasksAreSound /\ PaymentsAreSound /\ OrderIsBacked /\ RowsKept
  BY RowsAreKept DEF IInv
<1>1. ASSUME NEW h \in Handlers, CreateInvoice(h)
      PROVE  [PurchaseSpec!Next]_PurchaseStage
  <2>1. UNCHANGED <<order, payment, verified>>
    BY <1>1 DEF CreateInvoice
  <2>2. CASE UNCHANGED invoice
    BY <2>1, <2>2, QuietStage, QuietStages DEF IsPaid
  <2>3. CASE invoice[task[h].no].status = "ABSENT" /\ invoice' # invoice
    <3> DEFINE n == task[h].no
    <3>1. n \in Invoices
      BY <1>0, <1>1 DEF CreateInvoice, TasksAreSound, TaskIsSound
    <3>2. ~IsPaid(n) /\ order[n] = 0
      BY <1>0, <2>3, <3>1, PaidIsIssued DEF OrderIsBacked, HasBacking, IsPaid
    <3>3. invoice'[n].status = "SENT" /\ \A j \in Invoices \ {n} : invoice'[j] = invoice[j]
      BY <1>0, <1>1, <2>3, <3>1 DEF CreateInvoice, TypeOK
    <3>4. PurchaseStage[n] = "none" /\ PurchaseStage'[n] = "issued"
      BY <2>1, <2>3, <3>1, <3>2, <3>3 DEF PurchaseStage, IsPaid, Invoices
    <3>5. \A j \in Invoices \ {n} : PurchaseStage'[j] = PurchaseStage[j]
      BY <2>1, <3>3, QuietStage DEF IsPaid
    <3>6. QED
      BY <3>1, <3>4, <3>5, StageMoves DEF PurchaseSpec!Next, PurchaseSpec!Issue
  <2>4. QED
    BY <1>1, <2>2, <2>3 DEF CreateInvoice
<1>2. ASSUME NEW h \in Handlers, CommitConfirmPayment(h)
      PROVE  [PurchaseSpec!Next]_PurchaseStage
  <2>1. PICK i \in Invoices, p \in Payments :
          /\ i = task[h].inv /\ p = task[h].pay /\ payment[p].invoice = i
          /\ invoice[i].status # "ABSENT"
    BY <1>0, <1>2 DEF CommitConfirmPayment, TasksAreSound, TaskIsSound
  <2>2. order' = order /\ verified' = verified \cup {p}
    BY <1>2, <2>1 DEF CommitConfirmPayment
  <2>3. \A q \in Payments : payment'[q].invoice = payment[q].invoice
    BY <1>0, <1>2, <2>1 DEF CommitConfirmPayment, TypeOK, PaymentType
  <2>4. \A j \in Invoices : invoice'[j].status = "ABSENT" <=> invoice[j].status = "ABSENT"
    BY <1>0, <1>2, <2>1 DEF CommitConfirmPayment, TypeOK, InvoiceType
  <2>5. \A j \in Invoices \ {i} : IsPaid(j)' <=> IsPaid(j)
    BY <1>0, <2>1, <2>2, <2>3 DEF IsPaid, TypeOK
  <2>6. IsPaid(i)'
    BY <2>1, <2>2, <2>3 DEF IsPaid
  <2>7. \A j \in Invoices \ {i} : PurchaseStage'[j] = PurchaseStage[j]
    BY <2>2, <2>4, <2>5, QuietStage
  <2>8. CASE order[i] # 0 \/ IsPaid(i)
    <3>1. PurchaseStage'[i] = PurchaseStage[i]
      BY <2>1, <2>2, <2>6, <2>8 DEF PurchaseStage, IsPaid, Invoices
    <3>2. QED
      BY <2>7, <3>1, QuietStages
  <2>9. CASE order[i] = 0 /\ ~IsPaid(i)
    <3>1. PurchaseStage[i] = "issued" /\ PurchaseStage'[i] = "paid"
      BY <2>1, <2>2, <2>6, <2>9 DEF PurchaseStage, IsPaid, Invoices
    <3>2. QED
      BY <2>1, <2>7, <3>1, StageMoves DEF PurchaseSpec!Next, PurchaseSpec!Pay
  <2>10. QED
    BY <2>8, <2>9
<1>3. ASSUME NEW h \in Handlers, At(h, "createOrder"),
             OrderInsertAllowed(task[h].inv, task[h].no),
             order' = [order EXCEPT ![task[h].inv] = task[h].no],
             UNCHANGED <<invoice, payment, verified>>
      PROVE  [PurchaseSpec!Next]_PurchaseStage
  <2> DEFINE i == task[h].inv
  <2>1. i \in Invoices /\ IsPaid(i) /\ task[h].no # 0
    BY <1>0, <1>3 DEF TasksAreSound, TaskIsSound, IsPaid
  <2>2. PurchaseStage[i] = "paid" /\ PurchaseStage'[i] = "ordered"
    BY <1>0, <1>3, <2>1 DEF PurchaseStage, IsPaid, OrderInsertAllowed, TypeOK, Invoices
  <2>3. \A j \in Invoices \ {i} : PurchaseStage'[j] = PurchaseStage[j]
    BY <1>0, <1>3, <2>1, QuietStage DEF IsPaid, TypeOK
  <2>4. QED
    BY <2>1, <2>2, <2>3, StageMoves DEF PurchaseSpec!Next, PurchaseSpec!PlaceOrder
<1>4. CASE /\ \A h \in Handlers : ~CreateInvoice(h)
           /\ order' = order /\ verified' = verified
  BY <1>0, <1>4, RowsStayAbsent, PaidIsKept, QuietStage, QuietStages
<1>5. \/ \E h \in Handlers : CommitConfirmPayment(h)
      \/ verified' = verified
  BY <1>0, PaymentWrites DEF CommitSubmitPayment, CommitRejectPayment
<1>6. \/ order' = order
      \/ \E h \in Handlers : CreateOrder(h)
  BY BeginWritesNothing
  DEF Next, Continue, CheckActiveInvoice, TakeInvoiceNumber, CreateInvoice,
    CommitSubmitPayment, CommitConfirmPayment, CommitRejectPayment, CommitMarkPartial,
    PrepareOrder, TakeOrderNumber, OpenRelease, CommitRelease, Crash, PassDeadline, SetListingStatus, vars
<1>7. ASSUME NEW h \in Handlers, CreateOrder(h)
      PROVE  [PurchaseSpec!Next]_PurchaseStage
  <2>1. CASE order' = order
    <3>1. UNCHANGED <<invoice, payment, verified>>
      BY <1>7 DEF CreateOrder
    <3>2. QED
      BY <2>1, <3>1, QuietStage, QuietStages DEF IsPaid
  <2>2. QED
    BY <1>3, <1>7, <2>1 DEF CreateOrder
<1>8. QED
  BY <1>1, <1>2, <1>4, <1>5, <1>6, <1>7

\* Every behaviour of the concurrent handlers is one of the abstract purchase: an
\* invoice is issued, paid and ordered in that order, and nothing is undone.
THEOREM PurchaseRefined == Spec => RefinesPurchase
<1>1. Init => PurchaseSpec!Init
  BY DEF Init, PurchaseSpec!Init, PurchaseStage, AbsentInvoice
<1>2. IInv /\ [Next]_vars => [PurchaseSpec!Next]_PurchaseStage
  BY PurchaseStep
<1>3. QED
  BY <1>1, <1>2, Inductive, PTL DEF Spec, RefinesPurchase, PurchaseSpec!Spec

-----------------------------------------------------------------------------
(* One handler at a time *)

OneHandler == \A g, h \in Handlers : g = h

\* What the handler in progress has checked is still so.
CheckedIsCurrent(h) ==
  LET t == task[h] IN
  /\ t.pc \in {"confirm", "reject"} => payment[t.pay].status = "UNDER_VERIFICATION"
  /\ t.pc = "expire" => \A i \in t.todo : invoice[i].status \in {"SENT", "AWAITING_PAYMENT"}
  /\ t.pc = "cancelByBuyer" => \A i \in t.todo : PaymentsOf(i) = {}

SerialInv == \A h \in Handlers : CheckedIsCurrent(h)

LEMMA BeginIsCurrent ==
  ASSUME TypeOK, NEW h \in Handlers, Begin(h)
  PROVE  CheckedIsCurrent(h)'
<1>0. UNCHANGED <<invoice, payment>>
  BY BeginWritesNothing
<1>1. ASSUME NEW b \in Buyers, NEW l \in Listings, BeginRequestInvoice(h, b, l)
      PROVE  CheckedIsCurrent(h)'
  BY <1>1, IdleFacts DEF TypeOK, BeginRequestInvoice, CheckedIsCurrent, TaskType
<1>2. ASSUME NEW b \in Buyers, NEW l \in FleetListings, BeginFleetInvoice(h, b, l)
      PROVE  CheckedIsCurrent(h)'
  BY <1>2, IdleFacts DEF TypeOK, BeginFleetInvoice, CheckedIsCurrent, TaskType
<1>3. ASSUME NEW i \in Invoices, BeginSubmitPayment(h, i)
      PROVE  CheckedIsCurrent(h)'
  BY <1>3, IdleFacts DEF TypeOK, BeginSubmitPayment, CheckedIsCurrent, TaskType
<1>4. ASSUME NEW i \in Invoices, BeginCancelByBuyer(h, i)
      PROVE  CheckedIsCurrent(h)'
  <2>1. /\ task'[h].pc = "cancelByBuyer" /\ task'[h].todo = {i}
    BY <1>4, IdleFacts DEF TypeOK, BeginCancelByBuyer, TaskType
  <2>2. PaymentsOf(i)' = {}
    BY <1>0, <1>4 DEF BeginCancelByBuyer, PaymentsOf
  <2>3. QED
    BY <2>1, <2>2 DEF CheckedIsCurrent
<1>5. ASSUME NEW i \in Invoices, BeginCancelByAdmin(h, i)
      PROVE  CheckedIsCurrent(h)'
  BY <1>5, IdleFacts DEF TypeOK, BeginCancelByAdmin, CheckedIsCurrent, TaskType
<1>6. ASSUME NEW p \in Payments, NEW pc \in {"confirm", "reject", "partial"},
             payment[p].status = "UNDER_VERIFICATION", BeginDecision(h, p, pc)
      PROVE  CheckedIsCurrent(h)'
  BY <1>0, <1>6, IdleFacts DEF TypeOK, BeginDecision, CheckedIsCurrent, TaskType
<1>7. CASE BeginExpiry(h)
  BY <1>0, <1>7, IdleFacts
  DEF TypeOK, BeginExpiry, DueInvoices, IsDue, CheckedIsCurrent, TaskType
<1>8. QED
  BY <1>1, <1>2, <1>3, <1>4, <1>5, <1>6, <1>7
  DEF Begin, BeginConfirmPayment, BeginRejectPayment, BeginMarkPartial,
    CanPaymentTransition, PaymentTransitions

LEMMA FinishedIsCurrent ==
  ASSUME TypeOK, NEW h \in Handlers, Finish(h)
  PROVE  CheckedIsCurrent(h)'
  BY IdleFacts DEF TypeOK, CheckedIsCurrent

LEMMA ContinueIsCurrent ==
  ASSUME TypeOK, TasksAreSound, NEW h \in Handlers, CheckedIsCurrent(h), Continue(h)
  PROVE  CheckedIsCurrent(h)'
<1>1. CASE Finish(h)
  BY <1>1, FinishedIsCurrent
<1>2. CASE task'[h].pc \in {"number", "create"} \cup OrderPCs
  BY <1>2 DEF CheckedIsCurrent
<1>3. ASSUME NEW i \in Invoices, OpenRelease(h, i)
      PROVE  CheckedIsCurrent(h)'
  <2>1. /\ task'[h].pc = task[h].pc /\ task'[h].todo = task[h].todo
        /\ task[h].pc \in {"cancelByBuyer", "cancelByAdmin", "expire"}
    BY <1>3 DEF TypeOK, OpenRelease, TaskType
  <2>2. UNCHANGED <<invoice, payment>>
    BY <1>3 DEF OpenRelease
  <2>3. QED
    BY <2>1, <2>2 DEF CheckedIsCurrent, PaymentsOf
<1>4. CASE CommitRelease(h) /\ ~Finish(h)
  <2>1. /\ task'[h].pc = task[h].pc
        /\ task'[h].todo = task[h].todo \ {task[h].inv}
    BY <1>4 DEF TypeOK, CommitRelease, TaskType
  <2>2. task[h].pc \in {"cancelByBuyer", "cancelByAdmin", "expire"}
    BY <1>4 DEF CommitRelease, TasksAreSound, TaskIsSound
  <2>3. payment' = payment /\ \A i \in task'[h].todo : invoice'[i] = invoice[i]
    BY <1>4, <2>1, TaskRows DEF CommitRelease, TypeOK, TaskType
  <2>4. QED
    BY <2>1, <2>2, <2>3 DEF CheckedIsCurrent, PaymentsOf
<1>5. QED
  BY <1>1, <1>2, <1>3, <1>4
  DEF Continue, CheckActiveInvoice, TakeInvoiceNumber, CreateInvoice, CommitSubmitPayment,
    CommitConfirmPayment, CommitRejectPayment, CommitMarkPartial, PrepareOrder, TakeOrderNumber, CreateOrder,
    TypeOK, TaskType

LEMMA SerialStep ==
  ASSUME OneHandler, IInv, SerialInv, [Next]_vars
  PROVE  SerialInv'
<1>1. ASSUME NEW h \in Handlers, Begin(h) \/ Continue(h) \/ Crash(h)
      PROVE  SerialInv'
  <2>1. CheckedIsCurrent(h)'
    BY <1>1, BeginIsCurrent, ContinueIsCurrent, FinishedIsCurrent
    DEF IInv, SerialInv, Crash
  <2>2. QED
    BY <2>1 DEF SerialInv, OneHandler
<1>2. ASSUME NEW i \in Invoices, PassDeadline(i)
      PROVE  SerialInv'
  <2>1. UNCHANGED <<task, payment>> /\ \A j \in Invoices : invoice'[j].status = invoice[j].status
    BY <1>2 DEF PassDeadline, IInv, TypeOK, InvoiceType
  <2>2. QED
    BY <2>1 DEF SerialInv, CheckedIsCurrent, PaymentsOf, IInv, TypeOK, TaskType
<1>3. CASE UNCHANGED <<task, payment, invoice>>
  BY <1>3 DEF SerialInv, CheckedIsCurrent, PaymentsOf
<1>4. QED
  BY <1>1, <1>2, <1>3 DEF Next, SetListingStatus, vars

LEMMA SerialInductive ==
  ASSUME OneHandler
  PROVE  Spec => []SerialInv
<1>1. Init => SerialInv
  BY DEF Init, SerialInv, CheckedIsCurrent, Idle
<1>2. IInv /\ SerialInv /\ [Next]_vars => SerialInv'
  BY SerialStep
<1>3. QED
  BY <1>1, <1>2, Inductive, PTL DEF Spec

\* Without overlap the check of assertPaymentTransition is enough: a payment moves
\* only along PAYMENT_TRANSITIONS.
THEOREM SerialPayments ==
  ASSUME OneHandler
  PROVE  Spec => PaymentStatusMachine
<1> DEFINE Legal == \A p \in Payments :
       payment'[p].status # payment[p].status =>
         \/ payment[p].status = "ABSENT"
         \/ CanPaymentTransition(payment[p].status, payment'[p].status)
<1>1. IInv /\ SerialInv /\ [Next]_vars => [Legal]_vars
  <2>1. SUFFICES ASSUME IInv, SerialInv, [Next]_vars, NEW p \in Payments,
                        payment'[p].status # payment[p].status
                 PROVE  \/ payment[p].status = "ABSENT"
                        \/ CanPaymentTransition(payment[p].status, payment'[p].status)
    OBVIOUS
  <2>2. ASSUME NEW h \in Handlers, CommitSubmitPayment(h)
        PROVE  payment[p].status = "ABSENT"
    BY <2>1, <2>2 DEF CommitSubmitPayment, IInv, TypeOK
  <2>3. ASSUME NEW h \in Handlers, CommitConfirmPayment(h) \/ CommitRejectPayment(h)
        PROVE  CanPaymentTransition(payment[p].status, payment'[p].status)
    <3>1. PICK s \in {"CONFIRMED", "REJECTED"} :
            payment' = [payment EXCEPT ![task[h].pay].status = s]
      BY <2>3 DEF CommitConfirmPayment, CommitRejectPayment
    <3>2. p = task[h].pay /\ payment'[p].status = s
      BY <2>1, <3>1 DEF IInv, TypeOK, PaymentType
    <3>3. payment[p].status = "UNDER_VERIFICATION"
      BY <2>1, <2>3, <3>2
      DEF CommitConfirmPayment, CommitRejectPayment, SerialInv, CheckedIsCurrent
    <3>4. QED
      BY <3>2, <3>3 DEF CanPaymentTransition, PaymentTransitions
  <2>4. QED
    BY <2>1, <2>2, <2>3, PaymentWrites DEF IInv
<1>2. QED
  BY <1>1, Inductive, SerialInductive, PTL DEF Spec, PaymentStatusMachine

\* An invoice is ended by a release transaction alone, with its task's end status.
LEMMA Endings ==
  ASSUME TypeOK, TasksAreSound, [Next]_vars, NEW i \in Invoices,
         invoice'[i].status # invoice[i].status,
         invoice'[i].status \in {"EXPIRED", "CANCELLED"}
  PROVE  \E h \in Handlers : /\ CommitRelease(h) /\ task[h].inv = i
                             /\ invoice'[i].status = EndStatus(task[h].pc)
<1>1. ASSUME NEW h \in Handlers, CreateInvoice(h)
      PROVE  FALSE
  BY <1>1 DEF CreateInvoice, TypeOK
<1>2. ASSUME NEW h \in Handlers,
             CommitSubmitPayment(h) \/ CommitConfirmPayment(h) \/ CommitRejectPayment(h)
               \/ CommitMarkPartial(h)
      PROVE  FALSE
  <2>1. PICK s \in {"PAYMENT_SUBMITTED", "PAYMENT_CONFIRMED", "AWAITING_PAYMENT",
                    "PARTIALLY_PAID"} :
          invoice' = invoice \/ SetInvoiceStatus(task[h].inv, s)
    BY <1>2 DEF CommitSubmitPayment, CommitConfirmPayment, CommitRejectPayment,
      CommitMarkPartial
  <2>2. QED
    BY <2>1 DEF TypeOK, InvoiceType
<1>3. ASSUME NEW h \in Handlers, CommitRelease(h)
      PROVE  task[h].inv = i /\ invoice'[i].status = EndStatus(task[h].pc)
  BY <1>3, TaskRows DEF CommitRelease, TypeOK, InvoiceType
<1>4. ASSUME NEW j \in Invoices, PassDeadline(j)
      PROVE  FALSE
  BY <1>4 DEF PassDeadline, TypeOK, InvoiceType
<1>5. QED
  BY <1>1, <1>2, <1>3, <1>4, BeginWritesNothing
  DEF Next, Continue, CheckActiveInvoice, TakeInvoiceNumber, PrepareOrder, TakeOrderNumber, CreateOrder,
    OpenRelease, Crash, SetListingStatus, vars

\* Without overlap the expiry job ends only invoices that still await a payment.
THEOREM SerialExpiry ==
  ASSUME OneHandler
  PROVE  Spec => ExpiresUnpaidOnly
<1> DEFINE Unpaid == \A i \in Invoices :
       (invoice[i].status # "EXPIRED" /\ invoice'[i].status = "EXPIRED")
       => invoice[i].status \in {"SENT", "AWAITING_PAYMENT"}
<1>1. IInv /\ SerialInv /\ [Next]_vars => [Unpaid]_vars
  <2>1. SUFFICES ASSUME IInv, SerialInv, [Next]_vars, NEW i \in Invoices,
                        invoice[i].status # "EXPIRED", invoice'[i].status = "EXPIRED"
                 PROVE  invoice[i].status \in {"SENT", "AWAITING_PAYMENT"}
    OBVIOUS
  <2>2. PICK h \in Handlers : /\ CommitRelease(h) /\ task[h].inv = i
                              /\ EndStatus(task[h].pc) = "EXPIRED"
    BY <2>1, Endings DEF IInv
  <2>3. task[h].pc = "expire" /\ i \in task[h].todo
    BY <2>1, <2>2 DEF EndStatus, CommitRelease, IInv, TasksAreSound, TaskIsSound
  <2>4. QED
    BY <2>1, <2>3 DEF SerialInv, CheckedIsCurrent
<1>2. QED
  BY <1>1, Inductive, SerialInductive, PTL DEF Spec, ExpiresUnpaidOnly

\* Without overlap a buyer's cancellation ends no invoice with a payment.
THEOREM SerialCancellation ==
  ASSUME OneHandler
  PROVE  Spec => BuyerCancelsUnpaidOnly
<1> DEFINE Unpaid == \A i \in Invoices :
       (/\ invoice[i].status # "CANCELLED" /\ invoice'[i].status = "CANCELLED"
        /\ PaymentsOf(i) # {})
       => \A h \in Handlers : ~(task[h].pc = "cancelByBuyer" /\ task[h].inv = i)
<1>1. IInv /\ SerialInv /\ [Next]_vars => [Unpaid]_vars
  <2>1. SUFFICES ASSUME IInv, SerialInv, OneHandler, [Next]_vars, NEW i \in Invoices,
                        invoice[i].status # "CANCELLED", invoice'[i].status = "CANCELLED",
                        PaymentsOf(i) # {}, NEW h \in Handlers,
                        task[h].pc = "cancelByBuyer", task[h].inv = i
                 PROVE  FALSE
    OBVIOUS
  <2>2. CommitRelease(h)
    BY <2>1, Endings DEF IInv, OneHandler
  <2>3. i \in task[h].todo
    BY <2>1, <2>2 DEF CommitRelease, IInv, TasksAreSound, TaskIsSound
  <2>4. QED
    BY <2>1, <2>3 DEF SerialInv, CheckedIsCurrent
<1>2. QED
  BY <1>1, Inductive, SerialInductive, PTL DEF Spec, BuyerCancelsUnpaidOnly

\* The expiry and the cancellation of one handler at a time end only invoices nobody
\* is paying (expireOverdueInvoices, cancelInvoiceByBuyer).
THEOREM SerialEnds ==
  ASSUME OneHandler
  PROVE  Spec => EndsUnpaidOnly
BY SerialExpiry, SerialCancellation, PTL DEF EndsUnpaidOnly

-----------------------------------------------------------------------------
(* Sales *)

\* What is proved of Fulfilment holds of the orders in Sales.
FP == INSTANCE FulfilmentProofs WITH Orders <- Invoices, order <- progress,
                                     Handlers <- Couriers, task <- errand

LEMMA SameParts ==
  /\ F!Init <=> FP!Init
  /\ \A o \in Invoices : F!CreateOrder(o) <=> FP!CreateOrder(o)
  /\ \A o \in Invoices : F!Deliveries(o) = FP!Deliveries(o)
<1>1. F!Init <=> FP!Init
  BY DEF F!Init, FP!Init, F!Idle, FP!Idle
<1>2. \A o \in Invoices : F!CreateOrder(o) <=> FP!CreateOrder(o)
  BY DEF F!CreateOrder, FP!CreateOrder, F!HasRoom, FP!HasRoom, F!SetStage, FP!SetStage
<1>3. \A o \in Invoices : F!Deliveries(o) = FP!Deliveries(o)
  BY DEF F!Deliveries, FP!Deliveries
<1>4. QED
  BY <1>1, <1>2, <1>3

LEMMA SameRequests ==
  ASSUME NEW h \in Couriers
  PROVE  /\ F!Begin(h) <=> FP!Begin(h)
         /\ F!Continue(h) <=> FP!Continue(h)
         /\ F!Crash(h) <=> FP!Crash(h)
<1>1. F!Begin(h) <=> FP!Begin(h)
  BY DEF F!Begin, FP!Begin, F!BeginAdvance, FP!BeginAdvance, F!BeginCancel, FP!BeginCancel,
    F!BeginShipment, FP!BeginShipment, F!BeginAssignNew, FP!BeginAssignNew, F!BeginAssign,
    FP!BeginAssign, F!StartOn, FP!StartOn, F!Idle, FP!Idle, F!IsNextOrderStatus,
    FP!IsNextOrderStatus, F!ORDER_STAGES, FP!ORDER_STAGES, F!ImportStages, FP!ImportStages,
    F!OrderStatus, FP!OrderStatus, F!At, FP!At
<1>2. F!Continue(h) <=> FP!Continue(h)
  BY DEF F!Continue, FP!Continue, F!CommitAdvance, FP!CommitAdvance, F!RecordDelivery,
    FP!RecordDelivery, F!CommitCancel, FP!CommitCancel, F!CreateShipment, FP!CreateShipment,
    F!AttachOrders, FP!AttachOrders, F!CommitAssign, FP!CommitAssign, F!At, FP!At, F!HasRoom,
    FP!HasRoom, F!SetStage, FP!SetStage, F!Finish, FP!Finish, F!PutOn, FP!PutOn, F!Idle, FP!Idle
<1>3. F!Crash(h) <=> FP!Crash(h)
  BY DEF F!Crash, FP!Crash, F!At, FP!At, F!Finish, FP!Finish, F!Idle, FP!Idle
<1>4. QED
  BY <1>1, <1>2, <1>3

LEMMA SalesStepIsOfParts ==
  ASSUME [SalesNext]_saleVars
  PROVE  [Next]_vars /\ [FP!Next]_FP!vars
<1>1. CASE UNCHANGED saleVars
  BY <1>1 DEF saleVars, vars, FP!vars
<1>2. CASE CommerceStep
  <2>1. Next
    BY <1>2 DEF CommerceStep
  <2>2. CASE order' = order
    BY <1>2, <2>1, <2>2 DEF CommerceStep, fulfilment, FP!vars
  <2>3. CASE order' # order
    BY <1>2, <2>1, <2>3, SameParts DEF CommerceStep, FP!Next
  <2>4. QED
    BY <2>2, <2>3
<1>3. CASE FulfilmentStep
  BY <1>3, SameRequests DEF FulfilmentStep, FP!Next
<1>4. QED
  BY <1>1, <1>2, <1>3 DEF SalesNext

\* Commerce and Fulfilment go on in Sales as they do alone: what is proved of each holds.
THEOREM SalesIsOfParts == SalesSpec => Spec /\ FP!Spec
<1>1. SalesInit => Init /\ FP!Init
  BY SameParts DEF SalesInit
<1>2. [SalesNext]_saleVars => [Next]_vars /\ [FP!Next]_FP!vars
  BY SalesStepIsOfParts
<1>3. QED
  BY <1>1, <1>2, PTL DEF SalesSpec, Spec, FP!Spec

LEMMA SalesInvariants ==
  ASSUME SaleBoundsOK
  PROVE  SalesSpec => [](IInv /\ FP!IInv)
<1>1. FP!SellersOK /\ FP!NoneIsNoOrder /\ FP!EventBoundsOK
  BY DEF SaleBoundsOK, FP!SellersOK, FP!NoneIsNoOrder, FP!EventBoundsOK, F!SellerType, FP!SellerType
<1>2. FP!Spec => []FP!IInv
  BY <1>1, FP!InductiveInvariant
<1>3. QED
  BY <1>2, SalesIsOfParts, Inductive, PTL

\* The order row of an invoice is there for both parts or for neither.
OrdersAgree == \A i \in Invoices : order[i] # 0 <=> FP!Exists(i)

\* An order that is inserted is that of one invoice that was paid for.
LEMMA OneInsert ==
  ASSUME IInv, [Next]_vars, order' # order
  PROVE  \E i \in Invoices : /\ order[i] = 0 /\ order'[i] # 0
                             /\ \A j \in Invoices \ {i} : order'[j] = order[j]
<1>1. PICK h \in Handlers : CreateOrder(h)
  BY BeginWritesNothing
  DEF Next, Continue, CheckActiveInvoice, TakeInvoiceNumber, CreateInvoice,
    CommitSubmitPayment, CommitConfirmPayment, CommitRejectPayment, CommitMarkPartial,
    PrepareOrder, TakeOrderNumber, OpenRelease, CommitRelease, Crash, PassDeadline, SetListingStatus, vars
<1>2. PICK i \in Invoices : \E n : n # 0 /\ order[i] = 0 /\ order' = [order EXCEPT ![i] = n]
  BY <1>1 DEF CreateOrder, IInv, TasksAreSound, TaskIsSound, OrderInsertAllowed
<1>3. QED
  BY <1>2 DEF IInv, TypeOK

LEMMA OrdersStayAgreed ==
  ASSUME SaleBoundsOK, IInv, FP!IInv, OrdersAgree, [SalesNext]_saleVars
  PROVE  OrdersAgree'
<1>0. [Next]_vars /\ FP!SellersOK /\ FP!NoneIsNoOrder /\ FP!EventBoundsOK
  BY SalesStepIsOfParts
  DEF SaleBoundsOK, FP!SellersOK, FP!NoneIsNoOrder, FP!EventBoundsOK, F!SellerType, FP!SellerType
<1>1. CASE order' = order /\ UNCHANGED fulfilment
  BY <1>1 DEF OrdersAgree, FP!Exists, fulfilment
<1>2. ASSUME NEW i \in Invoices, order'[i] # order[i], FP!CreateOrder(i)
      PROVE  OrdersAgree'
  <2>1. order[i] = 0 /\ order'[i] # 0 /\ \A j \in Invoices \ {i} : order'[j] = order[j]
    BY <1>0, <1>2, OneInsert
  <2>2. FP!Exists(i)' /\ \A j \in Invoices \ {i} : FP!Exists(j)' <=> FP!Exists(j)
    BY <1>0, <1>2, FP!InsertStep
  <2>3. QED
    BY <2>1, <2>2 DEF OrdersAgree
<1>3. ASSUME NEW h \in Couriers, FP!Begin(h) \/ FP!Continue(h) \/ FP!Crash(h), order' = order
      PROVE  OrdersAgree'
  <2>1. (\A i \in Invoices : FP!AsBefore(i)) \/ FP!OneGoesOn
    BY <1>0, <1>3, FP!RequestStep
  <2>2. \A i \in Invoices : FP!Exists(i)' <=> FP!Exists(i)
    BY <2>1 DEF FP!AsBefore, FP!OneGoesOn, FP!GoesOn
  <2>3. QED
    BY <1>3, <2>2 DEF OrdersAgree
<1>4. CASE CommerceStep
  BY <1>1, <1>2, <1>4, SameParts DEF CommerceStep
<1>5. CASE FulfilmentStep
  BY <1>3, <1>5, SameRequests DEF FulfilmentStep, vars
<1>6. QED
  BY <1>1, <1>4, <1>5 DEF SalesNext, saleVars, fulfilment

LEMMA SaleStageValue ==
  ASSUME NEW i \in Invoices
  PROVE  /\ SaleStage[i] = IF FP!Counted(i) THEN "counted"
                           ELSE IF FP!Delivered(i) THEN "delivered" ELSE PurchaseStage[i]
         /\ SaleStage'[i] = IF FP!Counted(i)' THEN "counted"
                            ELSE IF FP!Delivered(i)' THEN "delivered" ELSE PurchaseStage'[i]
  BY DEF SaleStage, FP!Counted, FP!Delivered, FP!Deliveries, F!Deliveries, Invoices

LEMMA SaleMoves ==
  ASSUME NEW i \in Invoices, NEW from, NEW to, SaleStage[i] = from, SaleStage'[i] = to,
         \A j \in Invoices \ {i} : SaleStage'[j] = SaleStage[j]
  PROVE  SaleForm!Move(i, from, to)
<1>1. SaleStage = [j \in Invoices |-> SaleStage[j]]
  BY DEF SaleStage
<1>2. SaleStage' = [j \in Invoices |-> SaleStage'[j]]
  BY DEF SaleStage, Invoices
<1> HIDE DEF SaleStage
<1>3. SaleStage' = [SaleStage EXCEPT ![i] = to]
  BY <1>1, <1>2
<1>4. QED
  BY <1>3 DEF SaleForm!Move

LEMMA SalesStay ==
  ASSUME \A i \in Invoices : SaleStage'[i] = SaleStage[i]
  PROVE  SaleStage' = SaleStage
<1>1. SaleStage = [j \in Invoices |-> SaleStage[j]]
  BY DEF SaleStage
<1>2. SaleStage' = [j \in Invoices |-> SaleStage'[j]]
  BY DEF SaleStage, Invoices
<1> HIDE DEF SaleStage
<1>3. QED
  BY <1>1, <1>2

\* Nothing is delivered or counted of an order that is not there.
LEMMA NothingWithoutOrder ==
  ASSUME FP!IInv, OrdersAgree, NEW i \in Invoices, order[i] = 0
  PROVE  ~FP!Delivered(i) /\ ~FP!Counted(i)
<1>1. progress[i].status = "ABSENT"
  BY DEF OrdersAgree, FP!Exists
<1>2. track[i] = <<>>
  BY <1>1 DEF FP!IInv, FP!TimelineIsPath, FP!EndsAtStatus
<1>3. FP!Deliveries(i) = {}
  BY <1>2 DEF FP!Deliveries
<1>4. QED
  BY <1>3 DEF FP!Delivered, FP!Counted, FP!IInv, FP!CountedIsDelivered

\* What commerce does moves a sale as it moves the purchase.
LEMMA CommerceMovesSale ==
  ASSUME FP!IInv, OrdersAgree, [PurchaseSpec!Next]_PurchaseStage,
         \A i \in Invoices : (FP!Delivered(i)' <=> FP!Delivered(i))
                              /\ (FP!Counted(i)' <=> FP!Counted(i))
  PROVE  [SaleForm!SaleNext]_SaleStage
<1>1. ASSUME NEW i \in Invoices, NEW from, NEW to, from # "ordered",
             PurchaseSpec!Move(i, from, to)
      PROVE  SaleForm!Move(i, from, to)
  <2>1. /\ PurchaseStage[i] = from /\ PurchaseStage'[i] = to
        /\ \A j \in Invoices \ {i} : PurchaseStage'[j] = PurchaseStage[j]
    <3>1. PurchaseStage = [j \in Invoices |-> PurchaseStage[j]]
      BY DEF PurchaseStage
    <3> HIDE DEF PurchaseStage
    <3>2. QED
      BY <1>1, <3>1 DEF PurchaseSpec!Move
  <2>2. order[i] = 0
    BY <1>1, <2>1 DEF PurchaseStage
  <2>3. ~FP!Delivered(i) /\ ~FP!Counted(i)
    BY <2>2, NothingWithoutOrder
  <2>4. SaleStage[i] = from /\ SaleStage'[i] = to
    BY <2>1, <2>3, SaleStageValue
  <2>5. \A j \in Invoices \ {i} : SaleStage'[j] = SaleStage[j]
    BY <2>1, SaleStageValue
  <2>6. QED
    BY <2>4, <2>5, SaleMoves
<1>2. CASE PurchaseStage' = PurchaseStage
  <2>1. \A j \in Invoices : SaleStage'[j] = SaleStage[j]
    BY <1>2, SaleStageValue
  <2>2. QED
    BY <2>1, SalesStay
<1>3. CASE PurchaseSpec!Next
  <2>1. PICK i \in Invoices :
          PurchaseSpec!Issue(i) \/ PurchaseSpec!Pay(i) \/ PurchaseSpec!PlaceOrder(i)
    BY <1>3 DEF PurchaseSpec!Next
  <2>2. SaleForm!Issue(i) \/ SaleForm!Pay(i) \/ SaleForm!PlaceOrder(i)
    BY <1>1, <2>1 DEF PurchaseSpec!Issue, PurchaseSpec!Pay, PurchaseSpec!PlaceOrder,
      SaleForm!Issue, SaleForm!Pay, SaleForm!PlaceOrder
  <2>3. QED
    BY <2>2 DEF SaleForm!SaleNext, SaleForm!Next
<1>4. QED
  BY <1>2, <1>3

\* A request about orders delivers or counts one sale that was ordered.
LEMMA FulfilmentMovesSale ==
  ASSUME FP!IInv, OrdersAgree, PurchaseStage' = PurchaseStage, FP!OneGoesOn
  PROVE  [SaleForm!SaleNext]_SaleStage
<1>1. PICK i \in Invoices : FP!GoesOn(i) /\ \A j \in Invoices \ {i} : FP!AsBefore(j)
  BY DEF FP!OneGoesOn
<1>2. \A j \in Invoices \ {i} : SaleStage'[j] = SaleStage[j]
  BY <1>1, SaleStageValue DEF FP!AsBefore
<1>3. PurchaseStage[i] = "ordered" /\ PurchaseStage'[i] = "ordered"
  BY <1>1 DEF FP!GoesOn, OrdersAgree, PurchaseStage
<1>4. FP!Counted(i) => FP!Delivered(i)
  BY DEF FP!Counted, FP!Delivered, FP!IInv, FP!CountedIsDelivered
<1>5. CASE ~FP!Delivered(i)
  <2>1. SaleStage[i] = "ordered" /\ SaleStage'[i] = "delivered"
    BY <1>1, <1>3, <1>4, <1>5, SaleStageValue DEF FP!GoesOn
  <2>2. SaleForm!Deliver(i)
    BY <1>2, <2>1, SaleMoves DEF SaleForm!Deliver
  <2>3. QED
    BY <2>2 DEF SaleForm!SaleNext
<1>6. CASE FP!Delivered(i)
  <2>1. SaleStage[i] = "delivered" /\ SaleStage'[i] = "counted"
    BY <1>1, <1>6, SaleStageValue DEF FP!GoesOn
  <2>2. SaleForm!Count(i)
    BY <1>2, <2>1, SaleMoves DEF SaleForm!Count
  <2>3. QED
    BY <2>2 DEF SaleForm!SaleNext
<1>7. QED
  BY <1>5, <1>6

LEMMA SaleStep ==
  ASSUME SaleBoundsOK, IInv, FP!IInv, OrdersAgree, [SalesNext]_saleVars
  PROVE  [SaleForm!SaleNext]_SaleStage
<1>0. [Next]_vars /\ FP!SellersOK /\ FP!NoneIsNoOrder /\ FP!EventBoundsOK
  BY SalesStepIsOfParts
  DEF SaleBoundsOK, FP!SellersOK, FP!NoneIsNoOrder, FP!EventBoundsOK, F!SellerType, FP!SellerType
<1>1. [PurchaseSpec!Next]_PurchaseStage
  BY <1>0, PurchaseStep
<1>2. ASSUME UNCHANGED fulfilment
      PROVE  [SaleForm!SaleNext]_SaleStage
  <2>1. \A i \in Invoices : (FP!Delivered(i)' <=> FP!Delivered(i))
                             /\ (FP!Counted(i)' <=> FP!Counted(i))
    BY <1>2 DEF fulfilment, FP!Delivered, FP!Deliveries, FP!Counted
  <2>2. QED
    BY <1>1, <2>1, CommerceMovesSale
<1>3. ASSUME NEW i \in Invoices, FP!CreateOrder(i)
      PROVE  [SaleForm!SaleNext]_SaleStage
  <2>1. \A j \in Invoices : (FP!Delivered(j)' <=> FP!Delivered(j))
                             /\ (FP!Counted(j)' <=> FP!Counted(j))
    BY <1>0, <1>3, FP!InsertStep
  <2>2. QED
    BY <1>1, <2>1, CommerceMovesSale
<1>4. CASE CommerceStep
  BY <1>2, <1>3, <1>4, SameParts DEF CommerceStep
<1>5. CASE FulfilmentStep
  <2>1. PICK h \in Couriers : FP!Begin(h) \/ FP!Continue(h) \/ FP!Crash(h)
    BY <1>5, SameRequests DEF FulfilmentStep
  <2>2. (\A i \in Invoices : FP!AsBefore(i)) \/ FP!OneGoesOn
    BY <1>0, <2>1, FP!RequestStep
  <2>3. PurchaseStage' = PurchaseStage
    BY <1>5 DEF FulfilmentStep, vars, PurchaseStage, Invoices
  <2>4. CASE \A i \in Invoices : FP!AsBefore(i)
    BY <1>1, <2>4, CommerceMovesSale DEF FP!AsBefore
  <2>5. QED
    BY <2>2, <2>3, <2>4, FulfilmentMovesSale
<1>6. QED
  BY <1>2, <1>4, <1>5 DEF SalesNext, saleVars, fulfilment

\* However requests about invoices, payments and orders overlap or die, every sale is
\* issued, paid, ordered, delivered and counted in this order: PaymentsService and
\* OrdersService deliver nothing that was not paid.
THEOREM SalesRefined ==
  ASSUME SaleBoundsOK
  PROVE  SalesSpec => RefinesSale
<1>1. SalesInit => OrdersAgree
  BY SameParts DEF SalesInit, Init, FP!Init, OrdersAgree, FP!Exists
<1>2. SalesInit => SaleForm!Init
  BY DEF SalesInit, Init, F!Init, SaleForm!Init, SaleStage, PurchaseStage, F!Deliveries,
    AbsentInvoice
<1>3. IInv /\ FP!IInv /\ OrdersAgree /\ [SalesNext]_saleVars => OrdersAgree'
  BY OrdersStayAgreed
<1>4. IInv /\ FP!IInv /\ OrdersAgree /\ [SalesNext]_saleVars => [SaleForm!SaleNext]_SaleStage
  BY SaleStep
<1>5. QED
  BY <1>1, <1>2, <1>3, <1>4, SalesInvariants, PTL DEF SalesSpec, RefinesSale, SaleForm!SaleSpec

\* recordDelivery and DELIVERED come only to an order that createFromInvoice made of a
\* confirmed payment, and neither that order nor the confirmation is ever taken back.
THEOREM OnlyPaidIsAlwaysDelivered ==
  ASSUME SaleBoundsOK
  PROVE  SalesSpec => []OnlyPaidIsDelivered
<1>1. SalesInit => OrdersAgree
  BY SameParts DEF SalesInit, Init, FP!Init, OrdersAgree, FP!Exists
<1>2. IInv /\ FP!IInv /\ OrdersAgree /\ [SalesNext]_saleVars => OrdersAgree'
  BY OrdersStayAgreed
<1>3. IInv /\ FP!IInv /\ OrdersAgree => OnlyPaidIsDelivered
  <2>1. SUFFICES ASSUME IInv, FP!IInv, OrdersAgree, NEW i \in Invoices,
                        F!Deliveries(i) # {} \/ metric[i] > 0
                 PROVE  order[i] # 0 /\ PaymentsOf(i) \cap verified # {}
    BY DEF OnlyPaidIsDelivered
  <2>2. FP!Delivered(i) \/ FP!Counted(i)
    BY <2>1, SameParts DEF FP!Delivered, FP!Counted
  <2>3. order[i] # 0
    BY <2>1, <2>2, NothingWithoutOrder
  <2>4. \E p \in verified : payment[p].invoice = i
    BY <2>1, <2>3 DEF IInv, OrderIsBacked, HasBacking
  <2>5. QED
    BY <2>1, <2>3, <2>4 DEF IInv, TypeOK, PaymentsOf
<1>4. QED
  BY <1>1, <1>2, <1>3, SalesInvariants, PTL DEF SalesSpec
=============================================================================
