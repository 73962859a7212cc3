--------------------------- MODULE BookingsProofs ---------------------------
(***************************************************************************)
(* Proofs about Bookings, for every set of buyers, listings, fees and      *)
(* handlers and every number of bookings: what the row of a booking says   *)
(* has happened, a buyer has one active booking of a vehicle, and what is  *)
(* settled stays settled.                                                  *)
(***************************************************************************)
EXTENDS Bookings, TLAPS

Requesting == {"check", "checkInvoice", "number"}
Deciding == {"submit", "cancel", "confirm", "reject", "fee"}

\* The status a handler has read, of a booking on which no other handler is.
ReadHolds(t) ==
  /\ t.pc \in {"submit", "cancel", "fee"} => booking[t.book].status = "AWAITING_PAYMENT"
  /\ t.pc \in {"cancel", "fee"} => ~booking[t.book].proofs
  /\ t.pc \in {"confirm", "reject"} => booking[t.book].status = "UNDER_VERIFICATION"

ActiveFor(b, u, l) ==
  /\ booking[b].buyer = u /\ booking[b].listing = l
  /\ booking[b].status \in ACTIVE_BOOKING_STATUSES

\* What a handler knows while it waits: who it works for, that the numbers below those it
\* took are used, that a payment it is to confirm was made, and what it read.
TaskIsSound(t) ==
  /\ t.pc = "idle" => t.buyer = None /\ t.book = 0
  /\ t.pc \in Requesting => t.buyer \in Buyers /\ t.listing \in Listings /\ t.book = 0
  /\ t.pc \in Deciding => t.buyer = None /\ t.book \in Present
  /\ \A n \in Bookings : n < t.no \/ n < t.ref => n \in Present
  /\ t.pc = "confirm" => booking[t.book].paid
  /\ t.pc \in Deciding /\ t.book \notin contended => ReadHolds(t)
  /\ t.pc \in {"checkInvoice", "number"} /\ <<t.buyer, t.listing>> \notin rushed =>
       \A b \in Bookings \ contended : ~ActiveFor(b, t.buyer, t.listing)

TasksAreSound == \A h \in Handlers : TaskIsSound(task[h])

\* Two handlers on one booking, or requesting the same vehicle for the same buyer.
OverlapsAreNoted ==
  \A g, h \in Handlers : g # h =>
    /\ task[g].book # 0 /\ task[g].book = task[h].book => task[g].book \in contended
    /\ (task[g].buyer # None /\ task[g].buyer = task[h].buyer
        /\ task[g].listing = task[h].listing)
         => <<task[g].buyer, task[g].listing>> \in rushed

\* The rows are numbered without gaps, and a row under verification was paid for.
RowIsSound(b) ==
  /\ booking[b].status \notin {"PAYMENT_SUBMITTED", "REJECTED", "EXPIRED"}
  /\ booking[b].status \in {"UNDER_VERIFICATION", "CONFIRMED"} => booking[b].paid
  /\ b \in Present => \A n \in 1 .. b : n \in Present
  /\ b \notin Present => ~booking[b].proofs

RowsAreSound == \A b \in Bookings : RowIsSound(b)

\* The inductive invariant.
IInv ==
  /\ TypeOK
  /\ TasksAreSound
  /\ OverlapsAreNoted
  /\ RowsAreSound
  /\ NumbersAgree
  /\ SettledBookings
  /\ OneActiveBooking

LEMMA InitIInv == Init => IInv
<1> SUFFICES ASSUME Init
             PROVE  IInv
  OBVIOUS
<1>1. TypeOK
  BY DEF Init, TypeOK, AbsentBooking, BookingType, Idle, TaskType
<1>2. Present = {}
  BY DEF Init, Present, AbsentBooking
<1>3. TasksAreSound /\ OverlapsAreNoted
  BY <1>2 DEF Init, TasksAreSound, TaskIsSound, OverlapsAreNoted, Idle, Requesting, Deciding,
              Bookings
<1>4. RowsAreSound /\ NumbersAgree /\ SettledBookings /\ OneActiveBooking
  BY <1>2 DEF Init, RowsAreSound, RowIsSound, NumbersAgree, SettledBookings,
              OneActiveBooking, AbsentBooking, ACTIVE_BOOKING_STATUSES
<1>5. QED
  BY <1>1, <1>3, <1>4 DEF IInv

LEMMA IdleFacts ==
  /\ Idle \in TaskType
  /\ Idle.pc = "idle" /\ Idle.buyer = None /\ Idle.listing = None /\ Idle.book = 0
  /\ Idle.no = 0 /\ Idle.ref = 0
  BY DEF Idle, TaskType

LEMMA IdleIsSound == TaskIsSound(Idle)
  BY IdleFacts DEF TaskIsSound, Requesting, Deciding, Bookings

-----------------------------------------------------------------------------
(* The tasks *)

\* No booking disappears, and no payment is taken back.
RowsGrow ==
  /\ Present \subseteq Present'
  /\ \A b \in Present : booking[b].paid => booking'[b].paid

\* A step that leaves the booking of task t alone, and makes none active for its buyer.
LEMMA TaskStaysSound ==
  ASSUME TypeOK, NEW t \in TaskType, TaskIsSound(t), RowsGrow,
         contended \subseteq contended', rushed \subseteq rushed',
         t.book \in Present \ contended' => booking'[t.book] = booking[t.book],
         \A b \in Bookings \ contended' :
           t.buyer # None /\ ActiveFor(b, t.buyer, t.listing)'
           => ActiveFor(b, t.buyer, t.listing) \/ <<t.buyer, t.listing>> \in rushed'
  PROVE  TaskIsSound(t)'
<1>1. t.pc = "idle" => t.buyer = None /\ t.book = 0
  BY DEF TaskIsSound
<1>2. t.pc \in Requesting => t.buyer \in Buyers /\ t.listing \in Listings /\ t.book = 0
  BY DEF TaskIsSound
<1>3. t.pc \in Deciding => t.buyer = None /\ t.book \in Present'
  BY DEF TaskIsSound, RowsGrow
<1>4. \A n \in Bookings : n < t.no \/ n < t.ref => n \in Present'
  BY DEF TaskIsSound, RowsGrow
<1>5. t.pc = "confirm" => booking'[t.book].paid
  BY DEF TaskIsSound, RowsGrow, Deciding
<1>6. t.pc \in Deciding /\ t.book \notin contended' => ReadHolds(t)'
  BY DEF TaskIsSound, ReadHolds
<1>7. ASSUME t.pc \in {"checkInvoice", "number"}, <<t.buyer, t.listing>> \notin rushed',
             NEW b \in Bookings \ contended'
      PROVE  ~ActiveFor(b, t.buyer, t.listing)'
  <2>1. t.buyer # None
    BY <1>2, <1>7, NoneIsNoBuyer DEF Requesting
  <2>2. ~ActiveFor(b, t.buyer, t.listing)
    BY <1>7 DEF TaskIsSound
  <2>3. QED
    BY <1>7, <2>1, <2>2
<1>8. QED
  BY <1>1, <1>2, <1>3, <1>4, <1>5, <1>6, <1>7 DEF TaskIsSound

\* Handler h goes on with task u, for the same buyer and on the same booking if any.
GoesOn(h, u) ==
  /\ task' = [task EXCEPT ![h] = u]
  /\ u.book \in {0, task[h].book}
  /\ u.buyer = None \/ (u.buyer = task[h].buyer /\ u.listing = task[h].listing)
  /\ contended' = contended /\ rushed' = rushed

\* The step of handler h writes its own booking or a new one for its own buyer.
WritesOwn(h) ==
  /\ RowsGrow
  /\ \A b \in Present : b = task[h].book \/ booking'[b] = booking[b]
  /\ \A b \in Bookings \ contended, v \in Buyers, l \in Listings :
       ActiveFor(b, v, l)' =>
         ActiveFor(b, v, l) \/ (v = task[h].buyer /\ l = task[h].listing)

LEMMA OthersStaySound ==
  ASSUME IInv, NEW h \in Handlers, NEW u \in TaskType, TaskIsSound(u)', GoesOn(h, u),
         WritesOwn(h)
  PROVE  task' \in [Handlers -> TaskType] /\ TasksAreSound' /\ OverlapsAreNoted'
<1>1. TypeOK /\ task \in [Handlers -> TaskType] /\ contended' = contended /\ rushed' = rushed
  BY DEF IInv, TypeOK, GoesOn
<1>2. /\ task' \in [Handlers -> TaskType] /\ task'[h] = u
      /\ \A g \in Handlers \ {h} : task'[g] = task[g]
  BY <1>1 DEF GoesOn
<1>3. ASSUME NEW g \in Handlers
      PROVE  TaskIsSound(task[g])'
  <2>1. CASE g = h
    BY <1>2, <2>1 DEF TaskIsSound, ReadHolds, ActiveFor
  <2>2. CASE g # h
    <3>1. PICK t \in TaskType : t = task[g] /\ TaskIsSound(t)
      BY <1>1 DEF IInv, TasksAreSound
    <3>2. /\ t.book # 0 /\ t.book = task[h].book => t.book \in contended
          /\ t.buyer # None /\ t.buyer = task[h].buyer /\ t.listing = task[h].listing
               => <<t.buyer, t.listing>> \in rushed
      BY <2>2, <3>1 DEF IInv, OverlapsAreNoted
    <3>3. t.book \in Present \ contended' => booking'[t.book] = booking[t.book]
      BY <1>1, <3>2 DEF WritesOwn, Present, Bookings
    <3>4. ASSUME NEW b \in Bookings \ contended', t.buyer # None,
                 ActiveFor(b, t.buyer, t.listing)'
          PROVE  ActiveFor(b, t.buyer, t.listing) \/ <<t.buyer, t.listing>> \in rushed'
      <4>1. t.buyer \in Buyers /\ t.listing \in Listings
        BY <3>1, <3>4 DEF TaskIsSound, TaskType, Requesting, Deciding
      <4>2. QED
        BY <1>1, <3>2, <3>4, <4>1 DEF WritesOwn
    <3>5. TaskIsSound(t)'
      BY <1>1, <3>1, <3>3, <3>4, TaskStaysSound DEF WritesOwn
    <3>6. QED
      BY <1>2, <2>2, <3>1, <3>5 DEF TaskIsSound, ReadHolds, ActiveFor
  <2>3. QED
    BY <2>1, <2>2
<1>4. OverlapsAreNoted'
  <2>1. ASSUME NEW f \in Handlers, NEW g \in Handlers, f # g
        PROVE  /\ task'[f].book # 0 /\ task'[f].book = task'[g].book
                    => task'[f].book \in contended'
               /\ (task'[f].buyer # None /\ task'[f].buyer = task'[g].buyer
                   /\ task'[f].listing = task'[g].listing)
                    => <<task'[f].buyer, task'[f].listing>> \in rushed'
    <3>1. /\ task[f].book # 0 /\ task[f].book = task[g].book => task[f].book \in contended
          /\ (task[f].buyer # None /\ task[f].buyer = task[g].buyer
              /\ task[f].listing = task[g].listing)
               => <<task[f].buyer, task[f].listing>> \in rushed
      BY <2>1 DEF IInv, OverlapsAreNoted
    <3>2. /\ u.book \in {0, task[h].book}
          /\ u.buyer = None \/ (u.buyer = task[h].buyer /\ u.listing = task[h].listing)
      BY DEF GoesOn
    <3>3. CASE f = h
      BY <1>1, <1>2, <2>1, <3>1, <3>2, <3>3
    <3>4. CASE g = h
      BY <1>1, <1>2, <2>1, <3>1, <3>2, <3>4
    <3>5. CASE f # h /\ g # h
      BY <1>1, <1>2, <3>1, <3>5
    <3>6. QED
      BY <3>3, <3>4, <3>5
  <2>2. QED
    BY <2>1 DEF OverlapsAreNoted
<1>5. QED
  BY <1>2, <1>3, <1>4 DEF TasksAreSound

-----------------------------------------------------------------------------
(* The steps that write no booking *)

\* Handler h starts with the new task u.
Starts(h, u) ==
  /\ task' = [task EXCEPT ![h] = u]
  /\ UNCHANGED <<booking, open, invoiced>>
  /\ contended \subseteq contended' /\ contended' \subseteq Bookings
  /\ rushed \subseteq rushed' /\ rushed' \subseteq Buyers \X Listings
  /\ \A g \in Handlers \ {h} :
       /\ u.book # 0 /\ task[g].book = u.book => u.book \in contended'
       /\ u.buyer # None /\ task[g].buyer = u.buyer /\ task[g].listing = u.listing
            => <<u.buyer, u.listing>> \in rushed'

LEMMA RowsUntouched ==
  ASSUME IInv, booking' = booking, contended \subseteq contended', rushed \subseteq rushed'
  PROVE  RowsAreSound' /\ NumbersAgree' /\ SettledBookings' /\ OneActiveBooking' /\ RowsGrow
<1>1. RowsAreSound' /\ NumbersAgree' /\ RowsGrow
  BY DEF IInv, RowsAreSound, RowIsSound, NumbersAgree, RowsGrow, Present
<1>2. SettledBookings'
  BY DEF IInv, SettledBookings
<1>3. OneActiveBooking'
  BY DEF IInv, OneActiveBooking
<1>4. QED
  BY <1>1, <1>2, <1>3

LEMMA StartPreservesIInv ==
  ASSUME IInv, NEW h \in Handlers, NEW u \in TaskType, TaskIsSound(u), u.pc # "idle",
         Starts(h, u)
  PROVE  IInv'
<1>1. TypeOK /\ task \in [Handlers -> TaskType] /\ booking' = booking
  BY DEF IInv, TypeOK, Starts
<1>2. /\ task' \in [Handlers -> TaskType] /\ task'[h] = u
      /\ \A g \in Handlers \ {h} : task'[g] = task[g]
  BY <1>1 DEF Starts
<1>3. /\ RowsAreSound' /\ NumbersAgree' /\ SettledBookings' /\ OneActiveBooking'
      /\ RowsGrow /\ contended \subseteq contended' /\ rushed \subseteq rushed'
  BY <1>1, RowsUntouched DEF Starts
<1>4. TypeOK'
  BY <1>1, <1>2 DEF Starts, TypeOK
<1>5. ASSUME NEW g \in Handlers
      PROVE  TaskIsSound(task[g])'
  <2>1. PICK t \in TaskType : t = task'[g] /\ TaskIsSound(t)
    BY <1>1, <1>2 DEF IInv, TasksAreSound
  <2>2. \A b \in Bookings : ActiveFor(b, t.buyer, t.listing)' = ActiveFor(b, t.buyer, t.listing)
    BY <1>1 DEF ActiveFor
  <2>3. TaskIsSound(t)'
    BY <1>1, <1>3, <2>1, <2>2, TaskStaysSound
  <2>4. QED
    BY <2>1, <2>3 DEF TaskIsSound, ReadHolds, ActiveFor
<1>6. OverlapsAreNoted'
  <2>1. ASSUME NEW f \in Handlers, NEW g \in Handlers, f # g
        PROVE  /\ task'[f].book # 0 /\ task'[f].book = task'[g].book
                    => task'[f].book \in contended'
               /\ (task'[f].buyer # None /\ task'[f].buyer = task'[g].buyer
                   /\ task'[f].listing = task'[g].listing)
                    => <<task'[f].buyer, task'[f].listing>> \in rushed'
    <3>1. CASE f = h
      BY <1>2, <2>1, <3>1 DEF Starts
    <3>2. CASE g = h
      BY <1>2, <2>1, <3>2 DEF Starts
    <3>3. CASE f # h /\ g # h
      BY <1>2, <1>3, <2>1, <3>3 DEF IInv, OverlapsAreNoted
    <3>4. QED
      BY <3>1, <3>2, <3>3
  <2>2. QED
    BY <2>1 DEF OverlapsAreNoted
<1>7. QED
  BY <1>3, <1>4, <1>5, <1>6 DEF IInv, TasksAreSound

LEMMA BeginPreservesIInv ==
  ASSUME IInv, NEW h \in Handlers, Begin(h)
  PROVE  IInv'
<1>1. TypeOK /\ RowsAreSound
  BY DEF IInv
<1>2. ASSUME NEW u \in Buyers, NEW l \in Listings, BeginRequestBooking(h, u, l)
      PROVE  IInv'
  <2> DEFINE t == [Idle EXCEPT !.pc = "check", !.buyer = u, !.listing = l]
  <2>1. t \in TaskType /\ t.pc = "check" /\ t.buyer = u /\ t.listing = l /\ t.book = 0
        /\ t.no = 0 /\ t.ref = 0
    BY DEF Idle, TaskType
  <2>2. TaskIsSound(t)
    BY <2>1 DEF TaskIsSound, Requesting, Deciding, Bookings
  <2>3. Starts(h, t)
    BY <1>1, <1>2, <2>1 DEF BeginRequestBooking, Starts, TypeOK
  <2>4. QED
    BY <2>1, <2>2, <2>3, StartPreservesIInv
<1>3. ASSUME NEW b \in Bookings, NEW t \in TaskType, t.pc \in Deciding, t.buyer = None,
             t.no = 0, t.ref = 0, StartOn(h, b, t), b \in Present,
             t.pc = "confirm" => booking[b].paid,
             ReadHolds([t EXCEPT !.book = b])
      PROVE  IInv'
  <2> DEFINE u == [t EXCEPT !.book = b]
  <2>1. u \in TaskType /\ u.pc = t.pc /\ u.buyer = None /\ u.book = b /\ u.no = 0 /\ u.ref = 0
    BY <1>3 DEF TaskType
  <2>2. TaskIsSound(u)
    BY <1>3, <2>1 DEF TaskIsSound, Requesting, Deciding, Bookings
  <2>3. Starts(h, u)
    BY <1>1, <1>3, <2>1 DEF StartOn, Starts, TypeOK
  <2>4. QED
    BY <1>3, <2>1, <2>2, <2>3, StartPreservesIInv DEF Deciding
<1>4. ASSUME NEW b \in Bookings, NEW with \in BOOLEAN, BeginSubmitPayment(h, b, with)
      PROVE  IInv'
  <2> DEFINE t == [Idle EXCEPT !.pc = "submit", !.with = with]
  <2>1. t \in TaskType /\ t.pc = "submit" /\ t.buyer = None /\ t.no = 0 /\ t.ref = 0
    BY DEF Idle, TaskType
  <2>2. booking[b].status = "AWAITING_PAYMENT"
    BY <1>1, <1>4 DEF BeginSubmitPayment, RowsAreSound, RowIsSound
  <2>3. ReadHolds([t EXCEPT !.book = b])
    BY <2>1, <2>2 DEF ReadHolds, TaskType
  <2>4. QED
    BY <1>3, <1>4, <2>1, <2>2, <2>3 DEF BeginSubmitPayment, Deciding, Present
<1>5. ASSUME NEW b \in Bookings, NEW with \in BOOLEAN, BeginRejectBooking(h, b, with)
      PROVE  IInv'
  <2> DEFINE t == [Idle EXCEPT !.pc = "reject", !.with = with]
  <2>1. t \in TaskType /\ t.pc = "reject" /\ t.buyer = None /\ t.no = 0 /\ t.ref = 0
    BY DEF Idle, TaskType
  <2>2. booking[b].status = "UNDER_VERIFICATION"
    BY <1>1, <1>5 DEF BeginRejectBooking, RowsAreSound, RowIsSound, BOOKING_VERIFY_STATUSES
  <2>3. ReadHolds([t EXCEPT !.book = b])
    BY <2>1, <2>2 DEF ReadHolds, TaskType
  <2>4. QED
    BY <1>3, <1>5, <2>1, <2>2, <2>3 DEF BeginRejectBooking, Deciding, Present
<1>6. ASSUME NEW b \in Bookings, BeginCancelByBuyer(h, b)
      PROVE  IInv'
  <2> DEFINE t == [Idle EXCEPT !.pc = "cancel"]
  <2>1. t \in TaskType /\ t.pc = "cancel" /\ t.buyer = None /\ t.no = 0 /\ t.ref = 0
    BY DEF Idle, TaskType
  <2>2. ReadHolds([t EXCEPT !.book = b])
    BY <1>6, <2>1 DEF BeginCancelByBuyer, ReadHolds, TaskType
  <2>3. QED
    BY <1>3, <1>6, <2>1, <2>2 DEF BeginCancelByBuyer, Deciding, Present
<1>7. ASSUME NEW b \in Bookings, BeginConfirmBooking(h, b)
      PROVE  IInv'
  <2> DEFINE t == [Idle EXCEPT !.pc = "confirm"]
  <2>1. t \in TaskType /\ t.pc = "confirm" /\ t.buyer = None /\ t.no = 0 /\ t.ref = 0
    BY DEF Idle, TaskType
  <2>2. booking[b].status = "UNDER_VERIFICATION" /\ booking[b].paid
    BY <1>1, <1>7 DEF BeginConfirmBooking, RowsAreSound, RowIsSound, BOOKING_VERIFY_STATUSES
  <2>3. ReadHolds([t EXCEPT !.book = b])
    BY <2>1, <2>2 DEF ReadHolds, TaskType
  <2>4. QED
    BY <1>3, <1>7, <2>1, <2>2, <2>3 DEF BeginConfirmBooking, Deciding, Present
<1>8. ASSUME NEW b \in Bookings, NEW fee \in Fees, BeginUpdateBookingFee(h, b, fee)
      PROVE  IInv'
  <2> DEFINE t == [Idle EXCEPT !.pc = "fee", !.fee = fee]
  <2>1. t \in TaskType /\ t.pc = "fee" /\ t.buyer = None /\ t.no = 0 /\ t.ref = 0
    BY DEF Idle, TaskType
  <2>2. ReadHolds([t EXCEPT !.book = b])
    BY <1>8, <2>1 DEF BeginUpdateBookingFee, ReadHolds, TaskType
  <2>3. QED
    BY <1>3, <1>8, <2>1, <2>2 DEF BeginUpdateBookingFee, Deciding, Present
<1>9. QED
  BY <1>2, <1>4, <1>5, <1>6, <1>7, <1>8 DEF Begin

\* A handler that goes on without a write: it looks at the table, takes a number, gives up
\* or dies.
LEMMA QuietStep ==
  ASSUME IInv, NEW h \in Handlers, NEW u \in TaskType, TaskIsSound(u), GoesOn(h, u),
         UNCHANGED <<booking, open, invoiced>>
  PROVE  IInv'
<1>1. /\ TypeOK /\ contended' = contended /\ rushed' = rushed /\ booking' = booking
      /\ RowsAreSound' /\ NumbersAgree' /\ SettledBookings' /\ OneActiveBooking' /\ RowsGrow
  BY RowsUntouched DEF IInv, GoesOn
<1>2. TaskIsSound(u)' /\ WritesOwn(h)
  BY <1>1, TaskStaysSound DEF ActiveFor, WritesOwn
<1>3. task' \in [Handlers -> TaskType] /\ TasksAreSound' /\ OverlapsAreNoted'
  BY <1>2, OthersStaySound
<1>4. QED
  BY <1>1, <1>3 DEF IInv, TypeOK

\* The numbers of the bookings are 1, 2, 3 and so on, and so the next number is one more
\* than their number.
LEMMA NumbersBelowAreUsed ==
  ASSUME IInv, NEW n \in Int, IsNextNumber({0} \cup Present, n)
  PROVE  n \in Nat /\ n > 0 /\ \A m \in Bookings : m < n => m \in Present
<1>1. PICK k \in {0} \cup Present : n = k + 1
  BY DEF IsNextNumber
<1>2. CASE k = 0
  BY <1>1, <1>2, BookingBoundsOK DEF Bookings
<1>3. CASE k \in Present
  <2>1. k \in Bookings /\ \A m \in 1 .. k : m \in Present
    BY <1>3 DEF IInv, RowsAreSound, RowIsSound, Present
  <2>2. QED
    BY <1>1, <2>1, BookingBoundsOK DEF Bookings
<1>4. QED
  BY <1>1, <1>2, <1>3

LEMMA ReferencesAreNumbers ==
  ASSUME IInv
  PROVE  UsedReferences = {0} \cup Present
  BY DEF IInv, NumbersAgree, UsedReferences, Present

LEMMA QuietRequestPreservesIInv ==
  ASSUME IInv, NEW h \in Handlers,
         \/ CheckActiveBooking(h) \/ CheckActiveInvoice(h)
         \/ TakeBookingNumber(h) \/ TakePaymentReference(h)
  PROVE  IInv'
<1>1. TypeOK /\ task[h] \in TaskType /\ TaskIsSound(task[h])
  BY DEF IInv, TypeOK, TasksAreSound
<1>2. ASSUME Finish(h), UNCHANGED <<booking, open, invoiced, contended, rushed>>
      PROVE  IInv'
  BY <1>2, IdleFacts, IdleIsSound, QuietStep DEF Finish, GoesOn
<1>3. CASE CheckActiveBooking(h)
  <2>1. UNCHANGED <<booking, open, invoiced, contended, rushed>> /\ task[h].pc = "check"
    BY <1>3 DEF CheckActiveBooking, At
  <2>2. CASE HasActiveBooking(task[h].buyer, task[h].listing)
    BY <1>2, <1>3, <2>1, <2>2 DEF CheckActiveBooking
  <2>3. CASE ~HasActiveBooking(task[h].buyer, task[h].listing)
    <3>1. PICK u \in TaskType : u = [task[h] EXCEPT !.pc = "checkInvoice"]
      BY <1>1 DEF TaskType
    <3>2. /\ u.pc = "checkInvoice" /\ u.buyer = task[h].buyer /\ u.listing = task[h].listing
          /\ u.book = task[h].book /\ u.no = task[h].no /\ u.ref = task[h].ref
      BY <1>1, <3>1 DEF TaskType
    <3>3. GoesOn(h, u)
      BY <1>1, <1>3, <2>1, <2>3, <3>1, <3>2 DEF CheckActiveBooking, Goto, GoesOn, TypeOK
    <3>4. TaskIsSound(u)
      BY <1>1, <2>1, <2>3, <3>2
      DEF TaskIsSound, Requesting, Deciding, HasActiveBooking, ActiveFor
    <3>5. QED
      BY <2>1, <3>3, <3>4, QuietStep
  <2>4. QED
    BY <2>2, <2>3
<1>4. CASE CheckActiveInvoice(h)
  <2>1. /\ UNCHANGED <<booking, open, invoiced, contended, rushed>>
        /\ task[h].pc = "checkInvoice"
    BY <1>4 DEF CheckActiveInvoice, At
  <2>2. CASE <<task[h].buyer, task[h].listing>> \in invoiced
    BY <1>2, <1>4, <2>1, <2>2 DEF CheckActiveInvoice
  <2>3. CASE <<task[h].buyer, task[h].listing>> \notin invoiced
    <3>1. PICK u \in TaskType : u = [task[h] EXCEPT !.pc = "number"]
      BY <1>1 DEF TaskType
    <3>2. /\ u.pc = "number" /\ u.buyer = task[h].buyer /\ u.listing = task[h].listing
          /\ u.book = task[h].book /\ u.no = task[h].no /\ u.ref = task[h].ref
      BY <1>1, <3>1 DEF TaskType
    <3>3. GoesOn(h, u)
      BY <1>1, <1>4, <2>1, <2>3, <3>1, <3>2 DEF CheckActiveInvoice, Goto, GoesOn, TypeOK
    <3>4. TaskIsSound(u)
      BY <1>1, <2>1, <3>2 DEF TaskIsSound, Requesting, Deciding
    <3>5. QED
      BY <2>1, <3>3, <3>4, QuietStep
  <2>4. QED
    BY <2>2, <2>3
<1>5. CASE TakeBookingNumber(h)
  <2>1. PICK n \in 1 .. MaxBookings + 1 :
          IsNextNumber(UsedBookingNumbers, n) /\ task' = [task EXCEPT ![h].no = n]
    BY <1>5 DEF TakeBookingNumber
  <2>2. n \in Nat /\ \A m \in Bookings : m < n => m \in Present
    BY <2>1, NumbersBelowAreUsed DEF UsedBookingNumbers
  <2>3. PICK u \in TaskType : u = [task[h] EXCEPT !.no = n]
    BY <1>1, <2>2 DEF TaskType
  <2>4. /\ u.pc = "number" /\ u.buyer = task[h].buyer /\ u.listing = task[h].listing
        /\ u.book = task[h].book /\ u.no = n /\ u.ref = task[h].ref
    BY <1>1, <1>5, <2>3 DEF TaskType, TakeBookingNumber, At
  <2>5. GoesOn(h, u) /\ UNCHANGED <<booking, open, invoiced>>
    BY <1>1, <1>5, <2>1, <2>3, <2>4 DEF TakeBookingNumber, GoesOn, TypeOK
  <2>6. TaskIsSound(u)
    <3>1. task[h].pc = "number"
      BY <1>5 DEF TakeBookingNumber, At
    <3>2. QED
      BY <1>1, <2>2, <2>4, <3>1 DEF TaskIsSound, Requesting, Deciding
  <2>7. QED
    BY <2>5, <2>6, QuietStep
<1>6. CASE TakePaymentReference(h)
  <2>1. PICK n \in {m + 1 : m \in UsedReferences} :
          IsNextNumber(UsedReferences, n) /\ task' = [task EXCEPT ![h].ref = n]
    BY <1>6 DEF TakePaymentReference
  <2>2. n \in Int
    BY <2>1, ReferencesAreNumbers, BookingBoundsOK DEF Present, Bookings
  <2>3. n \in Nat /\ \A m \in Bookings : m < n => m \in Present
    BY <2>1, <2>2, ReferencesAreNumbers, NumbersBelowAreUsed
  <2>4. PICK u \in TaskType : u = [task[h] EXCEPT !.ref = n]
    BY <1>1, <2>3 DEF TaskType
  <2>5. /\ u.pc = "number" /\ u.buyer = task[h].buyer /\ u.listing = task[h].listing
        /\ u.book = task[h].book /\ u.no = task[h].no /\ u.ref = n
    BY <1>1, <1>6, <2>4 DEF TaskType, TakePaymentReference, At
  <2>6. GoesOn(h, u) /\ UNCHANGED <<booking, open, invoiced>>
    BY <1>1, <1>6, <2>1, <2>4, <2>5 DEF TakePaymentReference, GoesOn, TypeOK
  <2>7. TaskIsSound(u)
    <3>1. task[h].pc = "number"
      BY <1>6 DEF TakePaymentReference, At
    <3>2. QED
      BY <1>1, <2>3, <2>5, <3>1 DEF TaskIsSound, Requesting, Deciding
  <2>8. QED
    BY <2>6, <2>7, QuietStep
<1>7. QED
  BY <1>3, <1>4, <1>5, <1>6

-----------------------------------------------------------------------------
(* The insert *)

\* The new row, under the number that both queries gave.
Inserted(n, row) ==
  /\ n \in Bookings \ Present
  /\ booking' = [booking EXCEPT ![n] = row]
  /\ row \in BookingType /\ row.status = "AWAITING_PAYMENT" /\ row.ref = n
  /\ \A m \in Bookings : m < n => m \in Present

LEMMA InsertFacts ==
  ASSUME IInv, NEW n, NEW row, Inserted(n, row), contended' = contended, rushed' = rushed,
         \/ <<row.buyer, row.listing>> \in rushed
         \/ \A b \in Bookings \ contended : ~ActiveFor(b, row.buyer, row.listing)
  PROVE  /\ booking' \in [Bookings -> BookingType] /\ RowsGrow
         /\ RowsAreSound' /\ NumbersAgree' /\ SettledBookings' /\ OneActiveBooking'
<1>1. TypeOK /\ booking \in [Bookings -> BookingType]
  BY DEF IInv, TypeOK
<1>2. /\ n \in Bookings \ Present /\ booking'[n] = row
      /\ \A b \in Bookings \ {n} : booking'[b] = booking[b]
      /\ booking' \in [Bookings -> BookingType]
  BY <1>1 DEF Inserted
<1>3. Present' = Present \cup {n}
  BY <1>2 DEF Present, Inserted
<1>4. RowsGrow
  BY <1>2, <1>3 DEF RowsGrow, Present
<1>5. RowsAreSound'
  <2>1. ASSUME NEW b \in Bookings, b # n
        PROVE  RowIsSound(b)'
    <3>1. RowIsSound(b) /\ booking'[b] = booking[b] /\ (b \in Present' <=> b \in Present)
      BY <1>2, <1>3, <2>1 DEF IInv, RowsAreSound
    <3>2. QED
      BY <1>3, <3>1 DEF RowIsSound
  <2>2. RowIsSound(n)'
    <3>1. \A m \in 1 .. n : m \in Present'
      BY <1>2, <1>3, BookingBoundsOK DEF Inserted, Bookings
    <3>2. QED
      BY <1>2, <1>3, <3>1 DEF RowIsSound, Inserted
  <2>3. QED
    BY <2>1, <2>2 DEF RowsAreSound
<1>6. NumbersAgree'
  BY <1>2, <1>3 DEF IInv, NumbersAgree, Inserted, Present
<1>7. SettledBookings'
  BY <1>2 DEF IInv, SettledBookings, Inserted
<1>8. OneActiveBooking'
  <2>1. ASSUME NEW a \in Bookings \ contended, NEW b \in Bookings \ contended, a # b,
               booking'[a].buyer = booking'[b].buyer,
               booking'[a].listing = booking'[b].listing,
               booking'[a].status \in ACTIVE_BOOKING_STATUSES,
               booking'[b].status \in ACTIVE_BOOKING_STATUSES
        PROVE  <<booking'[a].buyer, booking'[a].listing>> \in rushed
    <3>1. CASE a = n
      <4>1. ActiveFor(b, row.buyer, row.listing)
        BY <1>2, <2>1, <3>1 DEF ActiveFor
      <4>2. QED
        BY <1>2, <2>1, <3>1, <4>1
    <3>2. CASE b = n
      <4>1. ActiveFor(a, row.buyer, row.listing)
        BY <1>2, <2>1, <3>2 DEF ActiveFor
      <4>2. QED
        BY <1>2, <2>1, <3>2, <4>1
    <3>3. CASE a # n /\ b # n
      BY <1>2, <2>1, <3>3 DEF IInv, OneActiveBooking
    <3>4. QED
      BY <3>1, <3>2, <3>3
  <2>2. QED
    BY <2>1 DEF OneActiveBooking
<1>9. QED
  BY <1>2, <1>4, <1>5, <1>6, <1>7, <1>8

\* Two numbers below which everything is used, and that are both free, are the same.
LEMMA FreeNumbersAgree ==
  ASSUME IInv, NEW n \in Nat, NEW ref \in Nat, InsertAllowed(n, ref),
         \A m \in Bookings : m < n \/ m < ref => m \in Present
  PROVE  ref = n
<1>1. n \in Bookings /\ n \notin Present /\ ref # 0 /\ ref \notin Present
  BY ReferencesAreNumbers DEF InsertAllowed
<1>2. ~(n < ref)
  BY <1>1
<1>3. ~(ref < n)
  BY <1>1, BookingBoundsOK DEF Bookings
<1>4. QED
  BY <1>2, <1>3

LEMMA CreateBookingPreservesIInv ==
  ASSUME IInv, NEW h \in Handlers, CreateBooking(h)
  PROVE  IInv'
<1>1. TypeOK /\ task[h] \in TaskType /\ TaskIsSound(task[h])
  BY DEF IInv, TypeOK, TasksAreSound
<1>2. /\ UNCHANGED <<open, invoiced, contended, rushed>> /\ task[h].pc = "number"
      /\ GoesOn(h, Idle)
  BY IdleFacts DEF CreateBooking, Finish, GoesOn, At
<1>3. CASE ~InsertAllowed(task[h].no, task[h].ref)
  <2>1. booking' = booking
    BY <1>3 DEF CreateBooking
  <2>2. QED
    BY <1>2, <2>1, IdleFacts, IdleIsSound, QuietStep
<1>4. CASE InsertAllowed(task[h].no, task[h].ref)
  <2>1. /\ task[h].no \in Nat /\ task[h].ref \in Nat
        /\ task[h].buyer \in Buyers /\ task[h].listing \in Listings
        /\ \A m \in Bookings : m < task[h].no \/ m < task[h].ref => m \in Present
    BY <1>1, <1>2 DEF TaskType, TaskIsSound, Requesting
  <2>2. task[h].no \in Bookings \ Present /\ task[h].ref = task[h].no
    BY <1>4, <2>1, FreeNumbersAgree DEF InsertAllowed
  <2>3. PICK fee \in Fees :
          booking' = [booking EXCEPT ![task[h].no] =
            [AbsentBooking EXCEPT !.status = "AWAITING_PAYMENT", !.ref = task[h].ref,
               !.buyer = task[h].buyer, !.listing = task[h].listing, !.fee = fee]]
    BY <1>4 DEF CreateBooking
  <2>4. PICK row :
          row = [AbsentBooking EXCEPT !.status = "AWAITING_PAYMENT", !.ref = task[h].ref,
                   !.buyer = task[h].buyer, !.listing = task[h].listing, !.fee = fee]
    OBVIOUS
  <2>5. row = [status |-> "AWAITING_PAYMENT", ref |-> task[h].ref,
               buyer |-> task[h].buyer, listing |-> task[h].listing, fee |-> fee,
               paid |-> FALSE, proofs |-> FALSE, reason |-> FALSE]
    BY <2>4 DEF AbsentBooking
  <2>6. /\ row \in BookingType /\ row.status = "AWAITING_PAYMENT"
        /\ row.ref = task[h].no /\ row.buyer = task[h].buyer
        /\ row.listing = task[h].listing
    BY <2>1, <2>2, <2>5 DEF BookingType, BookingStatus
  <2>7. booking' = [booking EXCEPT ![task[h].no] = row]
    BY <2>3, <2>4
  <2>8. Inserted(task[h].no, row)
    BY <2>1, <2>2, <2>6, <2>7 DEF Inserted
  <2>9. \/ <<row.buyer, row.listing>> \in rushed
        \/ \A b \in Bookings \ contended : ~ActiveFor(b, row.buyer, row.listing)
    BY <1>1, <1>2, <2>6 DEF TaskIsSound
  <2>10. /\ booking' \in [Bookings -> BookingType] /\ RowsGrow
        /\ RowsAreSound' /\ NumbersAgree' /\ SettledBookings' /\ OneActiveBooking'
    BY <1>2, <2>8, <2>9, InsertFacts
  <2>11. WritesOwn(h)
    <3>1. /\ booking'[task[h].no] = row
          /\ \A b \in Bookings \ {task[h].no} : booking'[b] = booking[b]
      BY <1>1, <2>2, <2>8 DEF Inserted, TypeOK
    <3>2. \A v, l : \A b \in Bookings :
            ActiveFor(b, v, l)' =>
              ActiveFor(b, v, l) \/ (v = task[h].buyer /\ l = task[h].listing)
      BY <2>6, <3>1 DEF ActiveFor
    <3>3. QED
      BY <2>2, <2>10, <3>1, <3>2 DEF WritesOwn, Present
  <2>12. TaskIsSound(Idle)'
    BY IdleFacts DEF TaskIsSound, Requesting, Deciding, Bookings
  <2>13. task' \in [Handlers -> TaskType] /\ TasksAreSound' /\ OverlapsAreNoted'
    BY <1>2, <2>11, <2>12, IdleFacts, OthersStaySound
  <2>14. QED
    BY <1>1, <1>2, <2>10, <2>13 DEF IInv, TypeOK
<1>5. QED
  BY <1>3, <1>4

-----------------------------------------------------------------------------
(* The decisions *)

\* A row that may replace that of booking b: the same booking, further on.
MayReplace(b, row) ==
  /\ row \in BookingType
  /\ row.ref = booking[b].ref /\ row.buyer = booking[b].buyer
  /\ row.listing = booking[b].listing
  /\ row.status \in {"AWAITING_PAYMENT", "UNDER_VERIFICATION", "CONFIRMED", "CANCELLED"}
  /\ booking[b].paid => row.paid
  /\ row.status \in {"UNDER_VERIFICATION", "CONFIRMED"} => row.paid
  /\ b \notin contended =>
       /\ booking[b].status \in {"AWAITING_PAYMENT", "UNDER_VERIFICATION"}
       /\ row.status = "CANCELLED" => ~row.proofs
       /\ row.status \in {"UNDER_VERIFICATION", "CONFIRMED"} => ~row.reason
       /\ booking[b].proofs => row.fee = booking[b].fee

LEMMA WritePreservesIInv ==
  ASSUME IInv, NEW h \in Handlers, task[h].pc \in Deciding, NEW row, Write(h, row),
         MayReplace(task[h].book, row)
  PROVE  IInv'
<1>. PICK b : b = task[h].book
  OBVIOUS
<1>1. /\ TypeOK /\ booking \in [Bookings -> BookingType] /\ b \in Present /\ b \in Bookings
      /\ task[h].buyer = None
  BY DEF IInv, TypeOK, TasksAreSound, TaskIsSound, Present
<1>2. /\ booking' = [booking EXCEPT ![b] = row] /\ GoesOn(h, Idle)
      /\ UNCHANGED <<open, invoiced, contended, rushed>> /\ MayReplace(b, row)
  BY IdleFacts DEF Write, Finish, GoesOn
<1>3. /\ booking' \in [Bookings -> BookingType] /\ booking'[b] = row
      /\ \A a \in Bookings \ {b} : booking'[a] = booking[a]
  BY <1>1, <1>2 DEF MayReplace
<1>4. Present' = Present
  BY <1>1, <1>2, <1>3 DEF Present, MayReplace
<1>5. RowsGrow
  BY <1>2, <1>3, <1>4 DEF RowsGrow, MayReplace, Present
<1>6. RowsAreSound'
  <2>1. ASSUME NEW a \in Bookings
        PROVE  RowIsSound(a)'
    <3>1. RowIsSound(a)
      BY DEF IInv, RowsAreSound
    <3>2. CASE a = b
      BY <1>1, <1>2, <1>3, <1>4, <3>1, <3>2 DEF RowIsSound, MayReplace
    <3>3. CASE a # b
      BY <1>3, <1>4, <3>1, <3>3 DEF RowIsSound
    <3>4. QED
      BY <3>2, <3>3
  <2>2. QED
    BY <2>1 DEF RowsAreSound
<1>7. NumbersAgree'
  BY <1>1, <1>2, <1>3, <1>4 DEF IInv, NumbersAgree, MayReplace, Present
<1>8. SettledBookings'
  BY <1>2, <1>3 DEF IInv, SettledBookings, MayReplace
<1>9. \A v, l : \A a \in Bookings \ contended : ActiveFor(a, v, l)' => ActiveFor(a, v, l)
  BY <1>1, <1>2, <1>3 DEF ActiveFor, MayReplace, ACTIVE_BOOKING_STATUSES
<1>10. OneActiveBooking'
  <2>1. \A a \in Bookings : /\ booking'[a].buyer = booking[a].buyer
                            /\ booking'[a].listing = booking[a].listing
    BY <1>2, <1>3 DEF MayReplace
  <2>2. \A a \in Bookings \ contended : booking'[a].status \in ACTIVE_BOOKING_STATUSES
                                 => booking[a].status \in ACTIVE_BOOKING_STATUSES
    BY <1>9, <2>1 DEF ActiveFor
  <2>3. QED
    BY <1>2, <2>1, <2>2 DEF IInv, OneActiveBooking
<1>11. WritesOwn(h)
  BY <1>3, <1>5, <1>9 DEF WritesOwn, Present
<1>12. TaskIsSound(Idle)'
  BY IdleFacts DEF TaskIsSound, Requesting, Deciding, Bookings
<1>13. task' \in [Handlers -> TaskType] /\ TasksAreSound' /\ OverlapsAreNoted'
  BY <1>2, <1>11, <1>12, IdleFacts, OthersStaySound
<1>14. QED
  BY <1>1, <1>2, <1>3, <1>6, <1>7, <1>8, <1>10, <1>13 DEF IInv, TypeOK

\* Every decision writes such a row.
LEMMA CommitReplaces ==
  ASSUME IInv, NEW h \in Handlers, Commit(h)
  PROVE  /\ task[h].pc \in Deciding /\ task[h].book \in Present
         /\ \E row : Write(h, row) /\ MayReplace(task[h].book, row)
<1>. PICK b : b = task[h].book
  OBVIOUS
<1>1. TypeOK /\ task[h] \in TaskType /\ TaskIsSound(task[h]) /\ RowsAreSound
  BY DEF IInv, TypeOK, TasksAreSound
<1>2. task[h].pc \in Deciding
  BY DEF Commit, CommitSubmitPayment, CommitCancelByBuyer, CommitConfirmBooking,
         CommitRejectBooking, CommitUpdateBookingFee, At, Deciding
<1>3. /\ b \in Present /\ b \in Bookings /\ booking[b] \in BookingType /\ RowIsSound(b)
      /\ booking[b].status \in {"AWAITING_PAYMENT", "UNDER_VERIFICATION", "CONFIRMED",
                                "CANCELLED"}
      /\ b \notin contended => ReadHolds(task[h])
      /\ task[h].pc = "confirm" => booking[b].paid
  BY <1>1, <1>2
  DEF TypeOK, TaskIsSound, Present, RowsAreSound, RowIsSound, BookingType, BookingStatus
<1>4. b \notin contended /\ booking[b].status = "UNDER_VERIFICATION" => ~booking[b].reason
  BY <1>3 DEF IInv, SettledBookings
<1>5. CASE CommitSubmitPayment(h)
  <2>1. PICK row : /\ row = [booking[b] EXCEPT !.status = "UNDER_VERIFICATION",
                                 !.paid = TRUE, !.reason = FALSE,
                                 !.proofs = @ \/ task[h].with]
                   /\ Write(h, row) /\ task[h].pc = "submit"
    BY <1>5 DEF CommitSubmitPayment, At
  <2>2. PICK p \in BOOLEAN : p = (booking[b].proofs \/ task[h].with)
    OBVIOUS
  <2>3. row = [booking[b] EXCEPT !.status = "UNDER_VERIFICATION", !.paid = TRUE,
                                 !.reason = FALSE, !.proofs = p]
    BY <2>1, <2>2
  <2>4. MayReplace(b, row)
    BY <1>3, <2>1, <2>3 DEF MayReplace, BookingType, BookingStatus, ReadHolds
  <2>5. QED
    BY <1>2, <1>3, <2>1, <2>4
<1>6. CASE CommitCancelByBuyer(h)
  <2>1. PICK row : /\ row = [booking[b] EXCEPT !.status = "CANCELLED"]
                   /\ Write(h, row) /\ task[h].pc = "cancel"
    BY <1>6 DEF CommitCancelByBuyer, At
  <2>2. MayReplace(b, row)
    BY <1>3, <2>1 DEF MayReplace, BookingType, BookingStatus, ReadHolds
  <2>3. QED
    BY <1>2, <1>3, <2>1, <2>2
<1>7. CASE CommitConfirmBooking(h)
  <2>1. PICK row : /\ row = [booking[b] EXCEPT !.status = "CONFIRMED"]
                   /\ Write(h, row) /\ task[h].pc = "confirm"
    BY <1>7 DEF CommitConfirmBooking, At
  <2>2. MayReplace(b, row)
    BY <1>3, <1>4, <2>1 DEF MayReplace, BookingType, BookingStatus, ReadHolds
  <2>3. QED
    BY <1>2, <1>3, <2>1, <2>2
<1>8. CASE CommitRejectBooking(h)
  <2>1. PICK row : /\ row = [booking[b] EXCEPT !.status = "AWAITING_PAYMENT",
                                 !.reason = @ \/ task[h].with]
                   /\ Write(h, row) /\ task[h].pc = "reject"
    BY <1>8 DEF CommitRejectBooking, At
  <2>2. PICK p \in BOOLEAN : p = (booking[b].reason \/ task[h].with)
    OBVIOUS
  <2>3. row = [booking[b] EXCEPT !.status = "AWAITING_PAYMENT", !.reason = p]
    BY <2>1, <2>2
  <2>4. MayReplace(b, row)
    BY <1>3, <2>1, <2>3 DEF MayReplace, BookingType, BookingStatus, ReadHolds
  <2>5. QED
    BY <1>2, <1>3, <2>1, <2>4
<1>9. CASE CommitUpdateBookingFee(h)
  <2>1. PICK row : /\ row = [booking[b] EXCEPT !.fee = task[h].fee]
                   /\ Write(h, row) /\ task[h].pc = "fee"
    BY <1>9 DEF CommitUpdateBookingFee, At
  <2>2. MayReplace(b, row)
    BY <1>1, <1>3, <2>1
    DEF MayReplace, BookingType, BookingStatus, TaskType, ReadHolds, RowIsSound
  <2>3. QED
    BY <1>2, <1>3, <2>1, <2>2
<1>10. QED
  BY <1>5, <1>6, <1>7, <1>8, <1>9 DEF Commit

-----------------------------------------------------------------------------
(* Every step *)

\* The environment: vehicles are listed and invoices issued.
LEMMA EnvironmentPreservesIInv ==
  ASSUME IInv, UNCHANGED <<booking, task, contended, rushed>>,
         open' \subseteq Listings, invoiced' \subseteq Buyers \X Listings
  PROVE  IInv'
<1>1. TypeOK /\ RowsAreSound' /\ NumbersAgree' /\ SettledBookings' /\ OneActiveBooking'
  BY RowsUntouched DEF IInv
<1>2. TasksAreSound' /\ OverlapsAreNoted'
  BY DEF IInv, TasksAreSound, TaskIsSound, ReadHolds, ActiveFor, Present, OverlapsAreNoted
<1>3. QED
  BY <1>1, <1>2 DEF IInv, TypeOK

LEMMA NextPreservesIInv ==
  ASSUME IInv, [Next]_vars
  PROVE  IInv'
<1>1. TypeOK
  BY DEF IInv
<1>2. CASE UNCHANGED vars
  BY <1>1, <1>2, EnvironmentPreservesIInv DEF vars, TypeOK
<1>3. ASSUME NEW h \in Handlers, Begin(h) \/ Request(h) \/ Commit(h) \/ Crash(h)
      PROVE  IInv'
  <2>1. CASE Begin(h)
    BY <2>1, BeginPreservesIInv
  <2>2. CASE Request(h)
    BY <2>2, QuietRequestPreservesIInv, CreateBookingPreservesIInv DEF Request
  <2>3. CASE Commit(h)
    BY <2>3, CommitReplaces, WritePreservesIInv
  <2>4. CASE Crash(h)
    BY <2>4, IdleFacts, IdleIsSound, QuietStep DEF Crash, Finish, GoesOn
  <2>5. QED
    BY <1>3, <2>1, <2>2, <2>3, <2>4
<1>4. ASSUME NEW l \in Listings, ChangeListing(l)
      PROVE  IInv'
  BY <1>1, <1>4, EnvironmentPreservesIInv DEF ChangeListing, TypeOK
<1>5. ASSUME NEW u \in Buyers, NEW l \in Listings, ChangeInvoice(u, l)
      PROVE  IInv'
  BY <1>1, <1>5, EnvironmentPreservesIInv DEF ChangeInvoice, TypeOK
<1>6. QED
  BY <1>2, <1>3, <1>4, <1>5 DEF Next

-----------------------------------------------------------------------------
(* The theorems *)

THEOREM InductiveInvariant == Spec => []IInv
<1>1. Init => IInv
  BY InitIInv
<1>2. IInv /\ [Next]_vars => IInv'
  BY NextPreservesIInv
<1>3. QED
  BY <1>1, <1>2, PTL DEF Spec

\* The rows and the tasks are well formed.
THEOREM BookingsTypeCorrect == Spec => []TypeOK
<1>1. IInv => TypeOK
  BY DEF IInv
<1>2. QED
  BY <1>1, InductiveInvariant, PTL

\* The number and the reference of a booking agree, its confirmation was paid for, its
\* cancellation was free and a decision stands alone.
THEOREM BookingsAreAlwaysSound == Spec => []BookingsAreSound
<1>1. IInv => BookingsAreSound
  BY DEF IInv, BookingsAreSound, ConfirmedWasPaid, RowsAreSound, RowIsSound
<1>2. QED
  BY <1>1, InductiveInvariant, PTL

\* A buyer has at most one active booking of a vehicle, unless requests overlapped.
THEOREM AtMostOneActiveBooking == Spec => []OneActiveBooking
<1>1. IInv => OneActiveBooking
  BY DEF IInv
<1>2. QED
  BY <1>1, InductiveInvariant, PTL

\* What a step leaves of the status and the fee of the bookings nobody contends for.
FinalStep ==
  \A b \in Bookings \ contended' :
    booking[b].status \in {"CONFIRMED", "CANCELLED"}
    => booking'[b].status = booking[b].status
FeeStep ==
  \A b \in Bookings \ contended' : booking[b].proofs => booking'[b].fee = booking[b].fee

LEMMA NextKeepsSettled ==
  ASSUME IInv, Next
  PROVE  FinalStep /\ FeeStep
<1>1. TypeOK /\ booking \in [Bookings -> BookingType] /\ RowsAreSound
  BY DEF IInv, TypeOK
<1>2. ASSUME booking' = booking
      PROVE  FinalStep /\ FeeStep
  BY <1>2 DEF FinalStep, FeeStep
<1>3. ASSUME NEW h \in Handlers, Commit(h)
      PROVE  FinalStep /\ FeeStep
  <2>1. PICK row : Write(h, row) /\ MayReplace(task[h].book, row)
    BY <1>3, CommitReplaces
  <2>2. /\ contended' = contended /\ task[h].book \in Bookings
        /\ booking' = [booking EXCEPT ![task[h].book] = row]
    BY <1>3, <2>1, CommitReplaces DEF Write, Present
  <2>3. QED
    BY <1>1, <2>1, <2>2 DEF MayReplace, FinalStep, FeeStep
<1>4. ASSUME NEW h \in Handlers, CreateBooking(h)
      PROVE  FinalStep /\ FeeStep
  <2>1. CASE ~InsertAllowed(task[h].no, task[h].ref)
    BY <1>2, <1>4, <2>1 DEF CreateBooking
  <2>2. CASE InsertAllowed(task[h].no, task[h].ref)
    <3>1. PICK n \in Bookings \ Present : \A b \in Bookings \ {n} : booking'[b] = booking[b]
      BY <1>1, <1>4, <2>2 DEF CreateBooking, InsertAllowed
    <3>2. booking[n].status = "ABSENT" /\ ~booking[n].proofs
      BY <1>1, <3>1 DEF Present, RowsAreSound, RowIsSound
    <3>3. QED
      BY <3>1, <3>2 DEF FinalStep, FeeStep
  <2>3. QED
    BY <2>1, <2>2
<1>5. ASSUME NEW h \in Handlers, Begin(h) \/ Crash(h)
      PROVE  booking' = booking
  BY <1>5 DEF Begin, Crash, BeginRequestBooking, BeginSubmitPayment, BeginRejectBooking,
              BeginCancelByBuyer, BeginConfirmBooking, BeginUpdateBookingFee, StartOn
<1>6. ASSUME NEW h \in Handlers, Request(h), ~CreateBooking(h)
      PROVE  booking' = booking
  BY <1>6 DEF Request, CheckActiveBooking, CheckActiveInvoice, TakeBookingNumber,
              TakePaymentReference
<1>7. ASSUME ~\E h \in Handlers : Begin(h) \/ Request(h) \/ Commit(h) \/ Crash(h)
      PROVE  booking' = booking
  BY <1>7 DEF Next, ChangeListing, ChangeInvoice
<1>8. QED
  BY <1>2, <1>3, <1>4, <1>5, <1>6, <1>7

\* The end of a booking and the fee that was proven to be paid stay, but by overlapping
\* requests.
THEOREM SettledAlwaysStays == Spec => SettledStays
<1>1. IInv /\ Next => FinalStep /\ FeeStep
  BY NextKeepsSettled
<1>2. FinalStep => (\A b \in Bookings \ contended' :
                      booking[b].status \in {"CONFIRMED", "CANCELLED"}
                      => booking'[b].status = booking[b].status)
  BY DEF FinalStep
<1>3. FeeStep => (\A b \in Bookings \ contended' :
                    booking[b].proofs => booking'[b].fee = booking[b].fee)
  BY DEF FeeStep
<1>4. Spec => [][\A b \in Bookings \ contended' :
                   booking[b].status \in {"CONFIRMED", "CANCELLED"}
                   => booking'[b].status = booking[b].status]_vars
  BY <1>1, <1>2, InductiveInvariant, PTL DEF Spec
<1>5. Spec => [][\A b \in Bookings \ contended' :
                   booking[b].proofs => booking'[b].fee = booking[b].fee]_vars
  BY <1>1, <1>3, InductiveInvariant, PTL DEF Spec
<1>6. QED
  BY <1>4, <1>5 DEF SettledStays, FinalStatusIsFinal, ProvenFeeIsFixed

-----------------------------------------------------------------------------
(* The refinement of Reservation *)

\* A booking in the table has a buyer, a vehicle and a fee, and so has one being changed.
PartiesAreKnown ==
  /\ \A b \in Present : /\ booking[b].buyer \in Buyers /\ booking[b].listing \in Listings
                        /\ booking[b].fee \in Fees
  /\ \A h \in Handlers : task[h].pc = "fee" => task[h].fee \in Fees

\* A request takes up the task u, which changes no fee, or a fee to one that may be asked.
TakesUp(h, u) == task' = [task EXCEPT ![h] = u] /\ (u.pc = "fee" => u.fee \in Fees)

LEMMA TasksTakeUp ==
  ASSUME TypeOK, PartiesAreKnown, NEW h \in Handlers, NEW u, TakesUp(h, u)
  PROVE  \A g \in Handlers : task'[g].pc = "fee" => task'[g].fee \in Fees
  BY DEF TypeOK, PartiesAreKnown, TakesUp

LEMMA BeginTakesUp ==
  ASSUME NEW h \in Handlers, Begin(h)
  PROVE  \E u : TakesUp(h, u)
<1>1. ASSUME NEW u \in Buyers, NEW l \in Listings, BeginRequestBooking(h, u, l)
      PROVE  \E t : TakesUp(h, t)
  <2> DEFINE t == [Idle EXCEPT !.pc = "check", !.buyer = u, !.listing = l]
  <2>1. t.pc = "check"
    BY DEF Idle
  <2>2. TakesUp(h, t)
    BY <1>1, <2>1 DEF BeginRequestBooking, TakesUp
  <2>3. QED
    BY <2>2
<1>2. ASSUME NEW b \in Bookings, NEW t, t.pc = "fee" => t.fee \in Fees,
             DOMAIN t = DOMAIN Idle, StartOn(h, b, t)
      PROVE  \E u : TakesUp(h, u)
  <2>1. [t EXCEPT !.book = b].pc = t.pc /\ [t EXCEPT !.book = b].fee = t.fee
    OBVIOUS
  <2>2. TakesUp(h, [t EXCEPT !.book = b])
    BY <1>2, <2>1 DEF StartOn, TakesUp
  <2>3. QED
    BY <2>2
<1>3. ASSUME NEW b \in Bookings, NEW with \in BOOLEAN, BeginSubmitPayment(h, b, with)
      PROVE  \E u : TakesUp(h, u)
  <2> DEFINE t == [Idle EXCEPT !.pc = "submit", !.with = with]
  <2>1. t.pc = "submit" /\ DOMAIN t = DOMAIN Idle
    BY DEF Idle
  <2>2. StartOn(h, b, t)
    BY <1>3 DEF BeginSubmitPayment
  <2> HIDE DEF t
  <2>3. QED
    BY <1>2, <2>1, <2>2
<1>4. ASSUME NEW b \in Bookings, NEW with \in BOOLEAN, BeginRejectBooking(h, b, with)
      PROVE  \E u : TakesUp(h, u)
  <2> DEFINE t == [Idle EXCEPT !.pc = "reject", !.with = with]
  <2>1. t.pc = "reject" /\ DOMAIN t = DOMAIN Idle
    BY DEF Idle
  <2>2. StartOn(h, b, t)
    BY <1>4 DEF BeginRejectBooking
  <2> HIDE DEF t
  <2>3. QED
    BY <1>2, <2>1, <2>2
<1>5. ASSUME NEW b \in Bookings, BeginCancelByBuyer(h, b)
      PROVE  \E u : TakesUp(h, u)
  <2> DEFINE t == [Idle EXCEPT !.pc = "cancel"]
  <2>1. t.pc = "cancel" /\ DOMAIN t = DOMAIN Idle
    BY DEF Idle
  <2>2. StartOn(h, b, t)
    BY <1>5 DEF BeginCancelByBuyer
  <2> HIDE DEF t
  <2>3. QED
    BY <1>2, <2>1, <2>2
<1>6. ASSUME NEW b \in Bookings, BeginConfirmBooking(h, b)
      PROVE  \E u : TakesUp(h, u)
  <2> DEFINE t == [Idle EXCEPT !.pc = "confirm"]
  <2>1. t.pc = "confirm" /\ DOMAIN t = DOMAIN Idle
    BY DEF Idle
  <2>2. StartOn(h, b, t)
    BY <1>6 DEF BeginConfirmBooking
  <2> HIDE DEF t
  <2>3. QED
    BY <1>2, <2>1, <2>2
<1>7. ASSUME NEW b \in Bookings, NEW fee \in Fees, BeginUpdateBookingFee(h, b, fee)
      PROVE  \E u : TakesUp(h, u)
  <2> DEFINE t == [Idle EXCEPT !.pc = "fee", !.fee = fee]
  <2>1. t.fee = fee /\ DOMAIN t = DOMAIN Idle
    BY DEF Idle
  <2>2. StartOn(h, b, t)
    BY <1>7 DEF BeginUpdateBookingFee
  <2> HIDE DEF t
  <2>3. QED
    BY <1>2, <2>1, <2>2
<1>8. QED
  BY <1>1, <1>3, <1>4, <1>5, <1>6, <1>7 DEF Begin

LEMMA RequestTakesUp ==
  ASSUME TypeOK, NEW h \in Handlers, Request(h)
  PROVE  \E u : TakesUp(h, u)
<1>1. task[h] \in TaskType
  BY DEF TypeOK
<1>2. CASE Finish(h)
  BY <1>2, IdleFacts DEF Finish, TakesUp
<1>3. ASSUME NEW pc \in {"checkInvoice", "number"}, Goto(h, pc)
      PROVE  \E u : TakesUp(h, u)
  <2> DEFINE u == [task[h] EXCEPT !.pc = pc]
  <2>1. u.pc = pc
    BY <1>1 DEF TaskType
  <2>2. task' = [task EXCEPT ![h] = u]
    BY <1>3 DEF Goto
  <2>3. TakesUp(h, u)
    BY <1>3, <2>1, <2>2 DEF TakesUp
  <2>4. QED
    BY <2>3
<1>4. ASSUME NEW n \in Nat, task[h].pc = "number",
             \/ task' = [task EXCEPT ![h].no = n]
             \/ task' = [task EXCEPT ![h].ref = n]
      PROVE  \E u : TakesUp(h, u)
  <2>1. PICK u : u.pc = "number" /\ task' = [task EXCEPT ![h] = u]
    <3>1. [task[h] EXCEPT !.no = n].pc = "number" /\ [task[h] EXCEPT !.ref = n].pc = "number"
      BY <1>1, <1>4 DEF TaskType
    <3>2. QED
      BY <1>4, <3>1
  <2>2. QED
    BY <2>1 DEF TakesUp
<1>5. CASE TakeBookingNumber(h)
  <2>1. PICK n \in 1 .. MaxBookings + 1 : task' = [task EXCEPT ![h].no = n]
    BY <1>5 DEF TakeBookingNumber
  <2>2. n \in Nat /\ task[h].pc = "number"
    BY <1>5, <2>1, BookingBoundsOK DEF TakeBookingNumber, At
  <2>3. QED
    BY <1>4, <2>1, <2>2
<1>6. CASE TakePaymentReference(h)
  <2>1. PICK n \in {m + 1 : m \in UsedReferences} : task' = [task EXCEPT ![h].ref = n]
    BY <1>6 DEF TakePaymentReference
  <2>2. n \in Nat
    BY <2>1 DEF UsedReferences, Present, TypeOK, BookingType
  <2>3. QED
    BY <1>4, <1>6, <2>1, <2>2 DEF TakePaymentReference, At
<1>7. QED
  BY <1>2, <1>3, <1>5, <1>6 DEF Request, CheckActiveBooking, CheckActiveInvoice, CreateBooking

LEMMA CommitTakesUp ==
  ASSUME NEW h \in Handlers, Commit(h)
  PROVE  TakesUp(h, Idle)
  BY IdleFacts DEF Commit, CommitSubmitPayment, CommitCancelByBuyer, CommitConfirmBooking,
     CommitRejectBooking, CommitUpdateBookingFee, Write, Finish, TakesUp

\* What a decision makes of its booking b: it goes along an edge of the reservation, unless
\* two requests are on it.
Edge(b, row) ==
  LET old == booking[b] IN
  \/ /\ old.status = "AWAITING_PAYMENT" /\ row.status = "UNDER_VERIFICATION"
     /\ row.fee = old.fee /\ (old.proofs => row.proofs)
  \/ /\ old.status = "UNDER_VERIFICATION" /\ row.status \in {"AWAITING_PAYMENT", "CONFIRMED"}
     /\ row.fee = old.fee /\ row.proofs = old.proofs
  \/ /\ old.status = "AWAITING_PAYMENT" /\ ~old.proofs /\ ~row.proofs
     /\ row.status \in {"AWAITING_PAYMENT", "CANCELLED"}
     /\ row.status = "CANCELLED" => row.fee = old.fee

Decides(b, row) ==
  /\ booking' = [booking EXCEPT ![b] = row] /\ contended' = contended
  /\ row \in BookingType
  /\ row.status \in {"AWAITING_PAYMENT", "UNDER_VERIFICATION", "CONFIRMED", "CANCELLED"}
  /\ row.buyer = booking[b].buyer /\ row.listing = booking[b].listing /\ row.fee \in Fees
  /\ b \notin contended => Edge(b, row)

LEMMA CommitDecides ==
  ASSUME IInv, PartiesAreKnown, NEW h \in Handlers, Commit(h)
  PROVE  \E b \in Present : \E row : Decides(b, row)
<1>. PICK b : b = task[h].book
  OBVIOUS
<1>1. task[h].pc \in Deciding /\ b \in Present
  BY CommitReplaces
<1>2. /\ TaskIsSound(task[h]) /\ booking[b] \in BookingType
      /\ b \notin contended => ReadHolds(task[h])
      /\ booking[b].fee \in Fees
      /\ booking[b].status \in {"AWAITING_PAYMENT", "UNDER_VERIFICATION", "CONFIRMED",
                                "CANCELLED"}
  BY <1>1 DEF IInv, TypeOK, TasksAreSound, TaskIsSound, Present, PartiesAreKnown,
              RowsAreSound, RowIsSound, BookingType, BookingStatus
<1>3. task[h] \in TaskType /\ (task[h].pc = "fee" => task[h].fee \in Fees)
  BY DEF IInv, TypeOK, PartiesAreKnown
<1>4. \A row : Write(h, row) => booking' = [booking EXCEPT ![b] = row] /\ contended' = contended
  BY DEF Write
<1>5. CASE CommitSubmitPayment(h)
  <2>1. PICK p \in BOOLEAN : p = (booking[b].proofs \/ task[h].with)
    OBVIOUS
  <2>2. PICK row : row = [booking[b] EXCEPT !.status = "UNDER_VERIFICATION", !.paid = TRUE,
                                            !.reason = FALSE, !.proofs = p]
    OBVIOUS
  <2>3. Write(h, row) /\ task[h].pc = "submit"
    BY <1>5, <2>1, <2>2 DEF CommitSubmitPayment, At
  <2>4. /\ row \in BookingType /\ row.status = "UNDER_VERIFICATION" /\ row.proofs = p
        /\ row.buyer = booking[b].buyer /\ row.listing = booking[b].listing
        /\ row.fee = booking[b].fee
    BY <1>2, <2>2 DEF BookingType, BookingStatus
  <2>5. Decides(b, row)
    BY <1>2, <1>4, <2>1, <2>3, <2>4 DEF Decides, Edge, ReadHolds
  <2>6. QED
    BY <1>1, <2>5
<1>6. CASE CommitCancelByBuyer(h)
  <2>1. PICK row : row = [booking[b] EXCEPT !.status = "CANCELLED"]
    OBVIOUS
  <2>2. Write(h, row) /\ task[h].pc = "cancel"
    BY <1>6, <2>1 DEF CommitCancelByBuyer, At
  <2>3. /\ row \in BookingType /\ row.status = "CANCELLED" /\ row.proofs = booking[b].proofs
        /\ row.buyer = booking[b].buyer /\ row.listing = booking[b].listing
        /\ row.fee = booking[b].fee
    BY <1>2, <2>1 DEF BookingType, BookingStatus
  <2>4. Decides(b, row)
    BY <1>2, <1>4, <2>2, <2>3 DEF Decides, Edge, ReadHolds
  <2>5. QED
    BY <1>1, <2>4
<1>7. CASE CommitConfirmBooking(h)
  <2>1. PICK row : row = [booking[b] EXCEPT !.status = "CONFIRMED"]
    OBVIOUS
  <2>2. Write(h, row) /\ task[h].pc = "confirm"
    BY <1>7, <2>1 DEF CommitConfirmBooking, At
  <2>3. /\ row \in BookingType /\ row.status = "CONFIRMED" /\ row.proofs = booking[b].proofs
        /\ row.buyer = booking[b].buyer /\ row.listing = booking[b].listing
        /\ row.fee = booking[b].fee
    BY <1>2, <2>1 DEF BookingType, BookingStatus
  <2>4. Decides(b, row)
    BY <1>2, <1>4, <2>2, <2>3 DEF Decides, Edge, ReadHolds
  <2>5. QED
    BY <1>1, <2>4
<1>8. CASE CommitRejectBooking(h)
  <2>1. PICK p \in BOOLEAN : p = (booking[b].reason \/ task[h].with)
    OBVIOUS
  <2>2. PICK row : row = [booking[b] EXCEPT !.status = "AWAITING_PAYMENT", !.reason = p]
    OBVIOUS
  <2>3. Write(h, row) /\ task[h].pc = "reject"
    BY <1>8, <2>1, <2>2 DEF CommitRejectBooking, At
  <2>4. /\ row \in BookingType /\ row.status = "AWAITING_PAYMENT"
        /\ row.proofs = booking[b].proofs
        /\ row.buyer = booking[b].buyer /\ row.listing = booking[b].listing
        /\ row.fee = booking[b].fee
    BY <1>2, <2>2 DEF BookingType, BookingStatus
  <2>5. Decides(b, row)
    BY <1>2, <1>4, <2>3, <2>4 DEF Decides, Edge, ReadHolds
  <2>6. QED
    BY <1>1, <2>5
<1>9. CASE CommitUpdateBookingFee(h)
  <2>1. PICK row : row = [booking[b] EXCEPT !.fee = task[h].fee]
    OBVIOUS
  <2>2. Write(h, row) /\ task[h].pc = "fee"
    BY <1>9, <2>1 DEF CommitUpdateBookingFee, At
  <2>3. /\ row \in BookingType /\ row.status = booking[b].status
        /\ row.proofs = booking[b].proofs
        /\ row.buyer = booking[b].buyer /\ row.listing = booking[b].listing
        /\ row.fee = task[h].fee
    BY <1>2, <1>3, <2>1, <2>2 DEF BookingType
  <2>4. Decides(b, row)
    BY <1>2, <1>3, <1>4, <2>2, <2>3 DEF Decides, Edge, ReadHolds
  <2>5. QED
    BY <1>1, <2>4
<1>10. QED
  BY <1>5, <1>6, <1>7, <1>8, <1>9 DEF Commit

\* An insert: a row of the table that was not used, for a buyer, a vehicle and a fee.
Asks(n, u, l, fee) ==
  /\ n \in Bookings \ Present /\ contended' = contended
  /\ booking'[n].status = "AWAITING_PAYMENT" /\ booking'[n].buyer = u
  /\ booking'[n].listing = l /\ booking'[n].fee = fee /\ ~booking'[n].proofs
  /\ booking'[n].proofs \in BOOLEAN
  /\ \A b \in Bookings \ {n} : booking'[b] = booking[b]

LEMMA CreateAsks ==
  ASSUME IInv, NEW h \in Handlers, CreateBooking(h), booking' # booking
  PROVE  \E n \in Bookings, u \in Buyers, l \in Listings, fee \in Fees : Asks(n, u, l, fee)
<1>1. /\ TypeOK /\ task[h] \in TaskType /\ TaskIsSound(task[h]) /\ task[h].pc = "number"
      /\ booking \in [Bookings -> BookingType]
  BY DEF IInv, TypeOK, TasksAreSound, CreateBooking, At
<1>2. InsertAllowed(task[h].no, task[h].ref) /\ contended' = contended
  BY DEF CreateBooking
<1>3. task[h].buyer \in Buyers /\ task[h].listing \in Listings /\ task[h].no \in Bookings \ Present
  BY <1>1, <1>2 DEF TaskIsSound, Requesting, InsertAllowed
<1>4. PICK fee \in Fees :
        booking' = [booking EXCEPT ![task[h].no] =
          [AbsentBooking EXCEPT !.status = "AWAITING_PAYMENT", !.ref = task[h].ref,
             !.buyer = task[h].buyer, !.listing = task[h].listing, !.fee = fee]]
  BY <1>2 DEF CreateBooking
<1>5. PICK row :
        row = [AbsentBooking EXCEPT !.status = "AWAITING_PAYMENT", !.ref = task[h].ref,
                 !.buyer = task[h].buyer, !.listing = task[h].listing, !.fee = fee]
  OBVIOUS
<1>6. row = [status |-> "AWAITING_PAYMENT", ref |-> task[h].ref, buyer |-> task[h].buyer,
             listing |-> task[h].listing, fee |-> fee, paid |-> FALSE, proofs |-> FALSE,
             reason |-> FALSE]
  BY <1>5 DEF AbsentBooking
<1>7. booking' = [booking EXCEPT ![task[h].no] = row]
  BY <1>4, <1>5
<1>8. /\ booking'[task[h].no] = row
      /\ \A b \in Bookings \ {task[h].no} : booking'[b] = booking[b]
  BY <1>1, <1>3, <1>7
<1>9. Asks(task[h].no, task[h].buyer, task[h].listing, fee)
  BY <1>2, <1>3, <1>6, <1>8 DEF Asks
<1>10. QED
  BY <1>3, <1>9

\* The place of each booking, before a step and after it.
PlaceOf(row) ==
  IF row.status = "ABSENT" THEN ReservationSpec!Free
  ELSE ReservationSpec!Reserved(StageOf(row.status), <<row.buyer, row.listing>>, row.fee,
                                row.proofs)

LEMMA PlaceIs ==
  ASSUME NEW b \in Bookings
  PROVE  /\ b \in contended => BookingPlace[b] = ReservationSpec!Disputed
         /\ b \notin contended => BookingPlace[b] = PlaceOf(booking[b])
         /\ b \in contended' => BookingPlace'[b] = ReservationSpec!Disputed
         /\ b \notin contended' => BookingPlace'[b] = PlaceOf(booking'[b])
  BY DEF BookingPlace, PlaceOf, Bookings, ReservationSpec!Free, ReservationSpec!Disputed,
         ReservationSpec!Reserved

LEMMA PlaceMoves ==
  ASSUME NEW b \in Bookings, NEW r, BookingPlace'[b] = r,
         \A a \in Bookings \ {b} : BookingPlace'[a] = BookingPlace[a]
  PROVE  ReservationSpec!Becomes(b, r)
<1>1. BookingPlace = [a \in Bookings |-> BookingPlace[a]]
  BY DEF BookingPlace
<1>2. BookingPlace' = [a \in Bookings |-> BookingPlace'[a]]
  BY DEF BookingPlace, Bookings
<1> HIDE DEF BookingPlace
<1>3. BookingPlace' = [BookingPlace EXCEPT ![b] = r]
  BY <1>1, <1>2
<1>4. QED
  BY <1>3 DEF ReservationSpec!Becomes

LEMMA PlacesStay ==
  ASSUME \A a \in Bookings : BookingPlace'[a] = BookingPlace[a]
  PROVE  BookingPlace' = BookingPlace
<1>1. BookingPlace = [a \in Bookings |-> BookingPlace[a]]
  BY DEF BookingPlace
<1>2. BookingPlace' = [a \in Bookings |-> BookingPlace'[a]]
  BY DEF BookingPlace, Bookings
<1> HIDE DEF BookingPlace
<1>3. QED
  BY <1>1, <1>2

\* A booking whose row and whose history stay keeps its place.
LEMMA PlaceStays ==
  ASSUME NEW a \in Bookings, booking'[a] = booking[a], a \in contended' <=> a \in contended
  PROVE  BookingPlace'[a] = BookingPlace[a]
  BY PlaceIs

\* A second request on a booking makes it disputed.
LEMMA StartStep ==
  ASSUME NEW h \in Handlers, NEW b \in Present, NEW t, StartOn(h, b, t)
  PROVE  [ReservationSpec!Next]_BookingPlace
<1>1. b \in Bookings /\ booking[b].status # "ABSENT" /\ booking' = booking
  BY DEF Present, StartOn
<1>2. CASE contended' = contended
  BY <1>1, <1>2, PlaceStays, PlacesStay
<1>3. CASE b \notin contended /\ contended' = contended \cup {b}
  <2>1. BookingPlace[b] # ReservationSpec!Free
    <3>1. BookingPlace[b] = PlaceOf(booking[b])
      BY <1>1, <1>3, PlaceIs
    <3>2. PlaceOf(booking[b]).stage # "free"
      BY <1>1 DEF PlaceOf, ReservationSpec!Reserved, StageOf
    <3>3. QED
      BY <3>1, <3>2 DEF ReservationSpec!Free
  <2>2. BookingPlace'[b] = ReservationSpec!Disputed
    BY <1>1, <1>3, PlaceIs
  <2>3. \A a \in Bookings \ {b} : BookingPlace'[a] = BookingPlace[a]
    BY <1>1, <1>3, PlaceStays
  <2>4. ReservationSpec!Dispute(b)
    BY <1>1, <2>1, <2>2, <2>3, PlaceMoves DEF ReservationSpec!Dispute
  <2>5. QED
    BY <1>1, <2>4 DEF ReservationSpec!Next
<1>4. QED
  BY <1>2, <1>3 DEF StartOn

LEMMA BeginStep ==
  ASSUME NEW h \in Handlers, Begin(h)
  PROVE  [ReservationSpec!Next]_BookingPlace
<1>1. CASE booking' = booking /\ contended' = contended
  BY <1>1, PlaceStays, PlacesStay
<1>2. CASE \E b \in Present : \E t : StartOn(h, b, t)
  BY <1>2, StartStep
<1>3. QED
  BY <1>1, <1>2 DEF Begin, BeginRequestBooking, BeginSubmitPayment, BeginRejectBooking,
    BeginCancelByBuyer, BeginConfirmBooking, BeginUpdateBookingFee, Present,
    BOOKING_VERIFY_STATUSES

\* A decision takes its booking along an edge.
LEMMA DecisionStep ==
  ASSUME IInv, PartiesAreKnown, NEW b \in Present, NEW row, Decides(b, row)
  PROVE  [ReservationSpec!Next]_BookingPlace
<1> DEFINE party == <<booking[b].buyer, booking[b].listing>>
           fee == booking[b].fee
           proven == booking[b].proofs
           from == StageOf(booking[b].status)
           to == StageOf(row.status)
<1>1. /\ b \in Bookings /\ booking[b].status # "ABSENT" /\ row.status # "ABSENT"
      /\ booking'[b] = row /\ \A a \in Bookings \ {b} : booking'[a] = booking[a]
      /\ contended' = contended
  BY DEF Present, Decides, IInv, TypeOK
<1>2. \A a \in Bookings \ {b} : BookingPlace'[a] = BookingPlace[a]
  BY <1>1, PlaceStays
<1>3. CASE b \in contended
  BY <1>1, <1>2, <1>3, PlaceIs, PlacesStay
<1>4. CASE b \notin contended
  <2>1. /\ party \in Buyers \X Listings /\ fee \in Fees /\ row.fee \in Fees
        /\ proven \in BOOLEAN /\ row.proofs \in BOOLEAN
        /\ <<row.buyer, row.listing>> = party
    BY <1>1 DEF PartiesAreKnown, Decides, IInv, TypeOK, BookingType
  <2>2. BookingPlace[b] = ReservationSpec!Reserved(from, party, fee, proven)
    BY <1>1, <1>4, PlaceIs DEF PlaceOf
  <2>3. BookingPlace'[b] = ReservationSpec!Reserved(to, party, row.fee, row.proofs)
    BY <1>1, <1>4, <2>1, PlaceIs DEF PlaceOf
  <2>4. ReservationSpec!Becomes(b, ReservationSpec!Reserved(to, party, row.fee, row.proofs))
    BY <1>1, <1>2, <2>3, PlaceMoves
  <2>5. Edge(b, row)
    BY <1>4 DEF Decides
  <2>6. CASE /\ booking[b].status = "AWAITING_PAYMENT" /\ row.status = "UNDER_VERIFICATION"
             /\ row.fee = fee /\ (proven => row.proofs)
    <3>1. from = "asked" /\ to = "claimed"
      BY <2>6 DEF StageOf, BOOKING_VERIFY_STATUSES
    <3>2. row.proofs = (proven \/ row.proofs)
      BY <2>1, <2>6
    <3> HIDE DEF from, to, party, fee, proven
    <3>3. ReservationSpec!Becomes(b, ReservationSpec!Reserved("claimed", party, fee,
                                                              proven \/ row.proofs))
      BY <2>4, <2>6, <3>1, <3>2
    <3>4. ReservationSpec!Claim(b, party, fee, proven, row.proofs)
      BY <2>2, <3>1, <3>3 DEF ReservationSpec!Claim
    <3>5. QED
      BY <1>1, <2>1, <3>4 DEF ReservationSpec!Next
  <2>7. CASE /\ booking[b].status = "UNDER_VERIFICATION" /\ row.status = "AWAITING_PAYMENT"
             /\ row.fee = fee /\ row.proofs = proven
    <3>1. from = "claimed" /\ to = "asked"
      BY <2>7 DEF StageOf, BOOKING_VERIFY_STATUSES
    <3> HIDE DEF from, to, party, fee, proven
    <3>2. ReservationSpec!Refuse(b, party, fee, proven)
      BY <2>2, <2>4, <2>7, <3>1 DEF ReservationSpec!Refuse
    <3>3. QED
      BY <1>1, <2>1, <3>2 DEF ReservationSpec!Next
  <2>8. CASE /\ booking[b].status = "UNDER_VERIFICATION" /\ row.status = "CONFIRMED"
             /\ row.fee = fee /\ row.proofs = proven
    <3>1. from = "claimed" /\ to = "held"
      BY <2>8 DEF StageOf, BOOKING_VERIFY_STATUSES
    <3> HIDE DEF from, to, party, fee, proven
    <3>2. ReservationSpec!Hold(b, party, fee, proven)
      BY <2>2, <2>4, <2>8, <3>1 DEF ReservationSpec!Hold
    <3>3. QED
      BY <1>1, <2>1, <3>2 DEF ReservationSpec!Next
  <2>9. CASE /\ booking[b].status = "AWAITING_PAYMENT" /\ ~proven /\ ~row.proofs
             /\ row.status = "CANCELLED" /\ row.fee = fee
    <3>1. from = "asked" /\ to = "dropped" /\ proven = FALSE /\ row.proofs = FALSE
      BY <2>1, <2>9 DEF StageOf, BOOKING_VERIFY_STATUSES
    <3> HIDE DEF from, to, party, fee, proven
    <3>2. ReservationSpec!Drop(b, party, fee)
      BY <2>2, <2>4, <2>9, <3>1 DEF ReservationSpec!Drop
    <3>3. QED
      BY <1>1, <2>1, <3>2 DEF ReservationSpec!Next
  <2>10. CASE /\ booking[b].status = "AWAITING_PAYMENT" /\ ~proven /\ ~row.proofs
              /\ row.status = "AWAITING_PAYMENT"
    <3>1. from = "asked" /\ to = "asked" /\ proven = FALSE /\ row.proofs = FALSE
      BY <2>1, <2>10 DEF StageOf, BOOKING_VERIFY_STATUSES
    <3> HIDE DEF from, to, party, fee, proven
    <3>2. ReservationSpec!Reprice(b, party, fee, row.fee)
      BY <2>2, <2>4, <3>1 DEF ReservationSpec!Reprice
    <3>3. QED
      BY <1>1, <2>1, <3>2 DEF ReservationSpec!Next
  <2>11. QED
    BY <2>5, <2>6, <2>7, <2>8, <2>9, <2>10 DEF Edge
<1>5. QED
  BY <1>3, <1>4

\* An insert is the asking.
LEMMA AskStep ==
  ASSUME NEW n \in Bookings, NEW u \in Buyers, NEW l \in Listings, NEW fee \in Fees,
         Asks(n, u, l, fee)
  PROVE  [ReservationSpec!Next]_BookingPlace
<1>1. \A a \in Bookings \ {n} : BookingPlace'[a] = BookingPlace[a]
  BY PlaceStays DEF Asks
<1>2. CASE n \in contended
  BY <1>1, <1>2, PlaceIs, PlacesStay DEF Asks
<1>3. CASE n \notin contended
  <2>1. BookingPlace[n] = ReservationSpec!Free
    BY <1>3, PlaceIs DEF Asks, Present, PlaceOf
  <2>2. BookingPlace'[n] = ReservationSpec!Reserved("asked", <<u, l>>, fee, FALSE)
    <3>1. BookingPlace'[n] = PlaceOf(booking'[n])
      BY <1>3, PlaceIs DEF Asks
    <3>2. PICK p \in BOOLEAN : p = booking'[n].proofs /\ ~p
      BY DEF Asks
    <3>3. booking'[n].proofs = FALSE
      BY <3>2
    <3>4. booking'[n].status = "AWAITING_PAYMENT" /\ StageOf("AWAITING_PAYMENT") = "asked"
      BY DEF Asks, StageOf, BOOKING_VERIFY_STATUSES
    <3>5. QED
      BY <3>1, <3>3, <3>4 DEF Asks, PlaceOf
  <2>3. ReservationSpec!Ask(n, <<u, l>>, fee)
    BY <1>1, <2>1, <2>2, PlaceMoves DEF ReservationSpec!Ask
  <2>4. <<u, l>> \in Buyers \X Listings
    OBVIOUS
  <2>5. QED
    BY <2>3, <2>4 DEF ReservationSpec!Next
<1>4. QED
  BY <1>2, <1>3

LEMMA ReservationStep ==
  ASSUME IInv, PartiesAreKnown, [Next]_vars
  PROVE  [ReservationSpec!Next]_BookingPlace
<1>1. CASE booking' = booking /\ contended' = contended
  BY <1>1, PlaceStays, PlacesStay
<1>2. ASSUME NEW h \in Handlers, Begin(h)
      PROVE  [ReservationSpec!Next]_BookingPlace
  BY <1>2, BeginStep
<1>3. ASSUME NEW h \in Handlers, Request(h)
      PROVE  [ReservationSpec!Next]_BookingPlace
  <2>1. CASE CreateBooking(h) /\ booking' # booking
    BY <2>1, CreateAsks, AskStep
  <2>2. contended' = contended /\ (CreateBooking(h) \/ booking' = booking)
    BY <1>3 DEF Request, CheckActiveBooking, CheckActiveInvoice, TakeBookingNumber,
      TakePaymentReference, CreateBooking
  <2>3. QED
    BY <1>1, <2>1, <2>2
<1>4. ASSUME NEW h \in Handlers, Commit(h)
      PROVE  [ReservationSpec!Next]_BookingPlace
  BY <1>4, CommitDecides, DecisionStep
<1>5. QED
  BY <1>1, <1>2, <1>3, <1>4 DEF Next, Crash, ChangeListing, ChangeInvoice, vars

LEMMA PartiesStayKnown ==
  ASSUME IInv, PartiesAreKnown, [Next]_vars
  PROVE  PartiesAreKnown'
<1> DEFINE Known == \A b \in Bookings : booking'[b].status # "ABSENT" =>
                      /\ booking'[b].buyer \in Buyers /\ booking'[b].listing \in Listings
                      /\ booking'[b].fee \in Fees
           Priced == \A g \in Handlers : task'[g].pc = "fee" => task'[g].fee \in Fees
<1>1. SUFFICES Known /\ Priced
  BY DEF PartiesAreKnown, Present, Bookings
<1>2. TypeOK /\ booking \in [Bookings -> BookingType]
  BY DEF IInv, TypeOK
<1>3. booking' = booking => Known
  BY DEF PartiesAreKnown, Present
<1>4. ASSUME NEW h \in Handlers, NEW u, TakesUp(h, u)
      PROVE  Priced
  BY <1>2, <1>4, TasksTakeUp
<1>5. task' = task => Priced
  BY DEF PartiesAreKnown
<1> HIDE DEF Priced
<1>6. ASSUME NEW h \in Handlers, Begin(h)
      PROVE  Known /\ Priced
  <2>1. booking' = booking
    BY <1>6 DEF Begin, BeginRequestBooking, BeginSubmitPayment, BeginRejectBooking,
      BeginCancelByBuyer, BeginConfirmBooking, BeginUpdateBookingFee, StartOn
  <2>2. QED
    BY <1>3, <1>4, <1>6, <2>1, BeginTakesUp
<1>7. ASSUME NEW h \in Handlers, Request(h)
      PROVE  Known /\ Priced
  <2>1. CreateBooking(h) \/ booking' = booking
    BY <1>7 DEF Request, CheckActiveBooking, CheckActiveInvoice, TakeBookingNumber,
      TakePaymentReference
  <2>2. ASSUME CreateBooking(h), booking' # booking
        PROVE  Known
    <3>1. PICK n \in Bookings, u \in Buyers, l \in Listings, fee \in Fees : Asks(n, u, l, fee)
      BY <2>2, CreateAsks
    <3>2. QED
      BY <3>1 DEF Asks, PartiesAreKnown, Present
  <2>3. Priced
    BY <1>2, <1>4, <1>7, RequestTakesUp
  <2>4. QED
    BY <1>3, <2>1, <2>2, <2>3
<1>8. ASSUME NEW h \in Handlers, Commit(h)
      PROVE  Known /\ Priced
  <2>1. PICK b \in Present : \E row : Decides(b, row)
    BY <1>8, CommitDecides
  <2>2. PICK row : Decides(b, row)
    BY <2>1
  <2>3. Known
    BY <1>2, <2>2 DEF Decides, PartiesAreKnown, Present
  <2>4. QED
    BY <1>4, <1>8, <2>3, CommitTakesUp
<1>9. ASSUME NEW h \in Handlers, Crash(h)
       PROVE  Known /\ Priced
  <2>1. booking' = booking /\ TakesUp(h, Idle)
    BY <1>9, IdleFacts DEF Crash, Finish, TakesUp
  <2>2. QED
    BY <1>3, <1>4, <2>1
<1> HIDE DEF Known
<1>10. QED
  BY <1>3, <1>5, <1>6, <1>7, <1>8, <1>9 DEF Next, ChangeListing, ChangeInvoice, vars

\* Every behaviour of the overlapping requests is, booking by booking, one of the abstract
\* reservation: asked for once by one buyer, claimed, refused or held, or dropped, with a
\* fee nobody changes once a payment is proven.
THEOREM ReservationRefined == Spec => RefinesReservation
<1>1. Init => ReservationSpec!Init /\ PartiesAreKnown
  BY DEF Init, ReservationSpec!Init, ReservationSpec!Free, BookingPlace, AbsentBooking, Idle,
    PartiesAreKnown, Present
<1>2. IInv /\ PartiesAreKnown /\ [Next]_vars => [ReservationSpec!Next]_BookingPlace
  BY ReservationStep
<1>3. IInv /\ PartiesAreKnown /\ [Next]_vars => PartiesAreKnown'
  BY PartiesStayKnown
<1>4. QED
  BY <1>1, <1>2, <1>3, InductiveInvariant, PTL
  DEF Spec, RefinesReservation, ReservationSpec!Spec

-----------------------------------------------------------------------------
(* One request at a time *)

OneHandler == \A g, h \in Handlers : g = h
Undisturbed == contended = {} /\ rushed = {}

\* Two bookings of one buyer and one vehicle are not both active.
OneBookingEach ==
  \A a, b \in Bookings :
    /\ a # b /\ booking[a].buyer = booking[b].buyer
    /\ booking[a].listing = booking[b].listing
    => ~({booking[a].status, booking[b].status} \subseteq ACTIVE_BOOKING_STATUSES)

LEMMA StaysUndisturbed ==
  ASSUME OneHandler, Undisturbed, [Next]_vars
  PROVE  Undisturbed'
<1>1. \A h \in Handlers : \A b, t : StartOn(h, b, t) => Undisturbed'
  BY DEF StartOn, OneHandler, Undisturbed
<1>2. ASSUME NEW h \in Handlers, Begin(h)
      PROVE  Undisturbed'
  <2>1. CASE \E u \in Buyers, l \in Listings : BeginRequestBooking(h, u, l)
    BY <2>1 DEF BeginRequestBooking, OneHandler, Undisturbed
  <2>2. CASE ~\E u \in Buyers, l \in Listings : BeginRequestBooking(h, u, l)
    BY <1>1, <1>2, <2>2 DEF Begin, BeginSubmitPayment, BeginRejectBooking, BeginCancelByBuyer,
      BeginConfirmBooking, BeginUpdateBookingFee
  <2>3. QED
    BY <2>1, <2>2
<1>3. ASSUME NEW h \in Handlers, Commit(h)
      PROVE  UNCHANGED <<contended, rushed>>
  BY <1>3 DEF Commit, CommitSubmitPayment, CommitCancelByBuyer, CommitConfirmBooking,
    CommitRejectBooking, CommitUpdateBookingFee, Write
<1>4. ASSUME NEW h \in Handlers, Request(h) \/ Crash(h)
      PROVE  UNCHANGED <<contended, rushed>>
  BY <1>4 DEF Request, CheckActiveBooking, CheckActiveInvoice, TakeBookingNumber,
    TakePaymentReference, CreateBooking, Crash
<1>5. QED
  BY <1>2, <1>3, <1>4 DEF Next, ChangeListing, ChangeInvoice, vars, Undisturbed

\* With one request at a time requestBooking keeps its rule for every booking: "You already
\* have an active booking for this vehicle."
THEOREM SerialBookings ==
  ASSUME OneHandler
  PROVE  Spec => []OneBookingEach
<1>1. Init => Undisturbed
  BY DEF Init, Undisturbed
<1>2. Undisturbed /\ [Next]_vars => Undisturbed'
  BY StaysUndisturbed
<1>3. Undisturbed /\ OneActiveBooking => OneBookingEach
  BY DEF Undisturbed, OneActiveBooking, OneBookingEach
<1>4. QED
  BY <1>1, <1>2, <1>3, AtMostOneActiveBooking, PTL DEF Spec
=============================================================================
