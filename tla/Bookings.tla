------------------------------ MODULE Bookings ------------------------------
(***************************************************************************)
(* BookingsService over the VehicleBooking table.  As in Commerce, a       *)
(* handler reads the row, checks it, awaits other services and writes      *)
(* later by id, so a handler in progress is a task.                        *)
(*                                                                         *)
(* Two history variables record what overlapped: the bookings on which two *)
(* tasks were ever in progress at once, and the vehicles a buyer requested *)
(* twice at once.  The properties say what holds for all others, whatever  *)
(* else the server does meanwhile.                                         *)
(***************************************************************************)
EXTENDS Integers

CONSTANTS
  Buyers, Listings,
  Fees,         \* booking fees, in Rwf (bound)
  MaxBookings,  \* rows that may ever be created (bound)
  Handlers,     \* requests that may be in progress at once
  None          \* SQL null

ASSUME NoneIsNoBuyer == None \notin Buyers \cup Listings
ASSUME BookingBoundsOK == MaxBookings \in Nat /\ Fees \subseteq Nat \ {0}

\* A booking row is known by the sequence number in its bookingNumber.
Bookings == 1 .. MaxBookings

BookingStatus == {"AWAITING_PAYMENT", "PAYMENT_SUBMITTED", "UNDER_VERIFICATION",
                  "CONFIRMED", "REJECTED", "CANCELLED", "EXPIRED"}
ACTIVE_BOOKING_STATUSES ==
  {"AWAITING_PAYMENT", "PAYMENT_SUBMITTED", "UNDER_VERIFICATION", "CONFIRMED"}
BOOKING_VERIFY_STATUSES == {"PAYMENT_SUBMITTED", "UNDER_VERIFICATION"}

VARIABLES
  booking,    \* rows; status "ABSENT" before the insert
  open,       \* the listings that are PUBLISHED
  invoiced,   \* <<buyer, listing>> with an active invoice
  task,       \* the handlers in progress
  contended,  \* history: bookings two tasks were in progress on at once
  rushed      \* history: <<buyer, listing>> requested twice at once

vars == <<booking, open, invoiced, task, contended, rushed>>

AbsentBooking == [status |-> "ABSENT", ref |-> 0, buyer |-> None, listing |-> None,
                  fee |-> 0, paid |-> FALSE, proofs |-> FALSE, reason |-> FALSE]

Idle == [pc |-> "idle", buyer |-> None, listing |-> None, book |-> 0,
         no |-> 0, ref |-> 0, fee |-> 0, with |-> FALSE]

Init ==
  /\ booking = [b \in Bookings |-> AbsentBooking]
  /\ open = Listings
  /\ invoiced = {}
  /\ task = [h \in Handlers |-> Idle]
  /\ contended = {}
  /\ rushed = {}

-----------------------------------------------------------------------------
At(h, pc) == task[h].pc = pc
Goto(h, pc) == task' = [task EXCEPT ![h].pc = pc]
Finish(h) == task' = [task EXCEPT ![h] = Idle]

\* Handler h starts on booking b.
StartOn(h, b, t) ==
  /\ At(h, "idle")
  /\ task' = [task EXCEPT ![h] = [t EXCEPT !.book = b]]
  /\ contended' = IF \E g \in Handlers \ {h} : task[g].book = b
                    THEN contended \cup {b} ELSE contended
  /\ UNCHANGED <<booking, open, invoiced, rushed>>

\* Handler h writes its booking and is done.
Write(h, row) ==
  /\ booking' = [booking EXCEPT ![task[h].book] = row]
  /\ Finish(h)
  /\ UNCHANGED <<open, invoiced, contended, rushed>>

\* generateReferenceNumber: one more than the latest number in the table.
IsNextNumber(used, n) ==
  /\ n \in {u + 1 : u \in used}
  /\ \A u \in used : u < n

Present == {b \in Bookings : booking[b].status # "ABSENT"}
UsedBookingNumbers == {0} \cup Present
UsedReferences == {0} \cup {booking[b].ref : b \in Present}

-----------------------------------------------------------------------------
(* requestBooking *)

BeginRequestBooking(h, u, l) ==
  /\ At(h, "idle")
  /\ l \in open
  /\ task' = [task EXCEPT ![h] = [Idle EXCEPT !.pc = "check", !.buyer = u,
                                              !.listing = l]]
  /\ rushed' = IF \E g \in Handlers \ {h} : task[g].buyer = u /\ task[g].listing = l
                 THEN rushed \cup {<<u, l>>} ELSE rushed
  /\ UNCHANGED <<booking, open, invoiced, contended>>

HasActiveBooking(u, l) ==
  \E b \in Bookings : /\ booking[b].buyer = u /\ booking[b].listing = l
                      /\ booking[b].status \in ACTIVE_BOOKING_STATUSES

HasPendingBooking(u, l) ==   \* faulty: forgets bookings that are paid
  \E b \in Bookings : /\ booking[b].buyer = u /\ booking[b].listing = l
                      /\ booking[b].status = "AWAITING_PAYMENT"

CheckActiveBookingPending(h) ==   \* faulty
  /\ At(h, "check")
  /\ IF HasPendingBooking(task[h].buyer, task[h].listing)
       THEN Finish(h) ELSE Goto(h, "checkInvoice")
  /\ UNCHANGED <<booking, open, invoiced, contended, rushed>>

CheckActiveBooking(h) ==
  /\ At(h, "check")
  /\ IF HasActiveBooking(task[h].buyer, task[h].listing)
       THEN Finish(h) ELSE Goto(h, "checkInvoice")
  /\ UNCHANGED <<booking, open, invoiced, contended, rushed>>

CheckActiveInvoice(h) ==
  /\ At(h, "checkInvoice")
  /\ IF <<task[h].buyer, task[h].listing>> \in invoiced
       THEN Finish(h) ELSE Goto(h, "number")
  /\ UNCHANGED <<booking, open, invoiced, contended, rushed>>

\* The two numbers come from two queries in one Promise.all, in either order.
TakeBookingNumber(h) ==
  /\ At(h, "number") /\ task[h].no = 0
  /\ \E n \in 1 .. MaxBookings + 1 :
       /\ IsNextNumber(UsedBookingNumbers, n)
       /\ task' = [task EXCEPT ![h].no = n]
  /\ UNCHANGED <<booking, open, invoiced, contended, rushed>>

TakePaymentReference(h) ==
  /\ At(h, "number") /\ task[h].ref = 0
  /\ \E n \in {u + 1 : u \in UsedReferences} :
       /\ IsNextNumber(UsedReferences, n)
       /\ task' = [task EXCEPT ![h].ref = n]
  /\ UNCHANGED <<booking, open, invoiced, contended, rushed>>

\* bookingNumber and paymentReference are both unique; rows end at MaxBookings (bound).
InsertAllowed(n, ref) == n \in Bookings \ Present /\ ref \notin UsedReferences

\* A second insert with either number fails the request.
CreateBooking(h) ==
  LET t == task[h] IN
  /\ At(h, "number") /\ t.no # 0 /\ t.ref # 0
  /\ \/ /\ InsertAllowed(t.no, t.ref)
        /\ \E fee \in Fees :
             booking' = [booking EXCEPT ![t.no] =
               [AbsentBooking EXCEPT !.status = "AWAITING_PAYMENT", !.ref = t.ref,
                  !.buyer = t.buyer, !.listing = t.listing, !.fee = fee]]
     \/ ~InsertAllowed(t.no, t.ref) /\ UNCHANGED booking
  /\ Finish(h)
  /\ UNCHANGED <<open, invoiced, contended, rushed>>

-----------------------------------------------------------------------------
(* submitPayment and cancelBookingByBuyer *)

\* With or without files: the proofs are optional.
BeginSubmitPayment(h, b, with) ==
  /\ \/ booking[b].status = "AWAITING_PAYMENT"
     \/ booking[b].status = "REJECTED" /\ booking[b].reason
  /\ StartOn(h, b, [Idle EXCEPT !.pc = "submit", !.with = with])

CommitSubmitPayment(h) ==
  /\ At(h, "submit")
  /\ Write(h, [booking[task[h].book] EXCEPT
       !.status = "UNDER_VERIFICATION", !.paid = TRUE, !.reason = FALSE,
       !.proofs = @ \/ task[h].with])

\* A booking that is already CANCELLED is returned as it is.
BeginCancelByBuyer(h, b) ==
  /\ booking[b].status = "AWAITING_PAYMENT" /\ ~booking[b].proofs
  /\ StartOn(h, b, [Idle EXCEPT !.pc = "cancel"])

CommitCancelByBuyerMisspelt(h) ==   \* faulty: a status the table does not have
  /\ At(h, "cancel")
  /\ Write(h, [booking[task[h].book] EXCEPT !.status = "CANCELED"])

CommitCancelByBuyer(h) ==
  /\ At(h, "cancel")
  /\ Write(h, [booking[task[h].book] EXCEPT !.status = "CANCELLED"])

-----------------------------------------------------------------------------
(* confirmBooking, rejectBooking and updateBookingFee *)

BeginConfirmBookingUnpaid(h, b) ==   \* faulty: any active booking
  /\ booking[b].status \in ACTIVE_BOOKING_STATUSES
  /\ StartOn(h, b, [Idle EXCEPT !.pc = "confirm"])

BeginConfirmBooking(h, b) ==
  /\ booking[b].status \in BOOKING_VERIFY_STATUSES
  /\ StartOn(h, b, [Idle EXCEPT !.pc = "confirm"])

CommitConfirmBooking(h) ==
  /\ At(h, "confirm")
  /\ Write(h, [booking[task[h].book] EXCEPT !.status = "CONFIRMED"])

\* The reason is optional; without one the column keeps its value.
BeginRejectBooking(h, b, with) ==
  /\ booking[b].status \in BOOKING_VERIFY_STATUSES
  /\ StartOn(h, b, [Idle EXCEPT !.pc = "reject", !.with = with])

CommitRejectBooking(h) ==
  /\ At(h, "reject")
  /\ Write(h, [booking[task[h].book] EXCEPT
       !.status = "AWAITING_PAYMENT", !.reason = @ \/ task[h].with])

BeginUpdateBookingFeeProven(h, b, fee) ==   \* faulty: does not look for proofs
  /\ booking[b].status = "AWAITING_PAYMENT"
  /\ StartOn(h, b, [Idle EXCEPT !.pc = "fee", !.fee = fee])

BeginUpdateBookingFee(h, b, fee) ==
  /\ booking[b].status = "AWAITING_PAYMENT" /\ ~booking[b].proofs
  /\ StartOn(h, b, [Idle EXCEPT !.pc = "fee", !.fee = fee])

CommitUpdateBookingFee(h) ==
  /\ At(h, "fee")
  /\ Write(h, [booking[task[h].book] EXCEPT !.fee = task[h].fee])

-----------------------------------------------------------------------------
(* The environment: other services list vehicles and issue invoices. *)

ChangeListing(l) ==
  /\ open' = IF l \in open THEN open \ {l} ELSE open \cup {l}
  /\ UNCHANGED <<booking, invoiced, task, contended, rushed>>

ChangeInvoice(u, l) ==
  /\ invoiced' = IF <<u, l>> \in invoiced THEN invoiced \ {<<u, l>>}
                                          ELSE invoiced \cup {<<u, l>>}
  /\ UNCHANGED <<booking, open, task, contended, rushed>>

\* A failing query, mail or process ends a handler.
Crash(h) ==
  /\ ~At(h, "idle")
  /\ Finish(h)
  /\ UNCHANGED <<booking, open, invoiced, contended, rushed>>

-----------------------------------------------------------------------------
Begin(h) ==
  \/ \E u \in Buyers, l \in Listings : BeginRequestBooking(h, u, l)
  \/ \E b \in Bookings, with \in BOOLEAN :
       BeginSubmitPayment(h, b, with) \/ BeginRejectBooking(h, b, with)
  \/ \E b \in Bookings : BeginCancelByBuyer(h, b) \/ BeginConfirmBooking(h, b)
  \/ \E b \in Bookings, fee \in Fees : BeginUpdateBookingFee(h, b, fee)

Request(h) ==
  \/ CheckActiveBooking(h) \/ CheckActiveInvoice(h)
  \/ TakeBookingNumber(h) \/ TakePaymentReference(h) \/ CreateBooking(h)

Commit(h) ==
  \/ CommitSubmitPayment(h) \/ CommitCancelByBuyer(h) \/ CommitConfirmBooking(h)
  \/ CommitRejectBooking(h) \/ CommitUpdateBookingFee(h)

Next ==
  \/ \E h \in Handlers : Begin(h) \/ Request(h) \/ Commit(h) \/ Crash(h)
  \/ \E l \in Listings : ChangeListing(l)
  \/ \E u \in Buyers, l \in Listings : ChangeInvoice(u, l)

Spec == Init /\ [][Next]_vars

-----------------------------------------------------------------------------
(* Properties *)

TaskType ==
  [pc : {"idle", "check", "checkInvoice", "number", "submit", "cancel", "confirm",
         "reject", "fee"},
   buyer : Buyers \cup {None}, listing : Listings \cup {None}, book : Bookings \cup {0},
   no : Nat, ref : Nat, fee : Fees \cup {0}, with : BOOLEAN]

BookingType ==
  [status : BookingStatus \cup {"ABSENT"}, ref : Nat, buyer : Buyers \cup {None},
   listing : Listings \cup {None}, fee : Fees \cup {0}, paid : BOOLEAN,
   proofs : BOOLEAN, reason : BOOLEAN]

\* The rows and the tasks are well formed.
TypeOK ==
  /\ booking \in [Bookings -> BookingType]
  /\ open \subseteq Listings
  /\ invoiced \subseteq Buyers \X Listings
  /\ task \in [Handlers -> TaskType]
  /\ contended \subseteq Bookings
  /\ rushed \subseteq Buyers \X Listings

\* A confirmed booking has had a payment submitted at some time, however the
\* decisions, submissions and cancellations of that booking overlap.
ConfirmedWasPaid ==
  \A b \in Bookings : booking[b].status = "CONFIRMED" => booking[b].paid

\* The booking number and the payment reference of a booking carry the same
\* sequence number, though they come from two separate queries.
NumbersAgree == \A b \in Present : booking[b].ref = b

\* A booking that no two requests touched at once: when cancelled it has no proof
\* of payment, and while its payment is verified or confirmed it shows no reason
\* of an earlier rejection.
SettledBookings ==
  \A b \in Bookings \ contended :
    /\ booking[b].status = "CANCELLED" => ~booking[b].proofs
    /\ booking[b].status \in {"UNDER_VERIFICATION", "CONFIRMED"} => ~booking[b].reason

\* What the row of a booking says has happened: its number and its reference are one,
\* its confirmation was paid for, its cancellation was free and a decision stands alone.
BookingsAreSound == NumbersAgree /\ ConfirmedWasPaid /\ SettledBookings

\* A buyer has at most one active booking of a vehicle, unless two requests for it
\* overlapped or one of the bookings was written by overlapping requests.
OneActiveBooking ==
  \A a, b \in Bookings \ contended :
    (/\ a # b /\ booking[a].buyer = booking[b].buyer
     /\ booking[a].listing = booking[b].listing
     /\ {booking[a].status, booking[b].status} \subseteq ACTIVE_BOOKING_STATUSES)
    => <<booking[a].buyer, booking[a].listing>> \in rushed

\* Nobody leaves CONFIRMED or CANCELLED but by overlapping requests.
FinalStatusIsFinal ==
  [][\A b \in Bookings \ contended' :
       booking[b].status \in {"CONFIRMED", "CANCELLED"}
       => booking'[b].status = booking[b].status]_vars

\* The fee a buyer has proven to have paid is not changed under them, but by
\* overlapping requests.
ProvenFeeIsFixed ==
  [][\A b \in Bookings \ contended' : booking[b].proofs
       => booking'[b].fee = booking[b].fee]_vars

\* What a buyer has settled stays settled: the end of the booking and the fee that was
\* paid.
SettledStays == FinalStatusIsFinal /\ ProvenFeeIsFixed

\* The reservation each booking is, read off its row and the history.
StageOf(status) ==
  CASE status \in {"AWAITING_PAYMENT", "REJECTED"} -> "asked"
    [] status \in BOOKING_VERIFY_STATUSES -> "claimed"
    [] status = "CONFIRMED" -> "held"
    [] OTHER -> "dropped"

BookingPlace ==
  [b \in Bookings |->
     LET row == booking[b] IN
     IF b \in contended THEN [stage |-> "disputed"]
     ELSE IF row.status = "ABSENT" THEN [stage |-> "free"]
     ELSE [stage |-> StageOf(row.status), party |-> <<row.buyer, row.listing>>,
           fee |-> row.fee, proven |-> row.proofs]]

ReservationSpec == INSTANCE Reservation WITH Places <- Bookings,
                     Parties <- Buyers \X Listings, place <- BookingPlace

\* Every behaviour of the handlers is a behaviour of the abstract reservation: a booking
\* that no two requests touched at once goes from being asked for to being held or dropped
\* along its edges, for one buyer, one vehicle and, once there is a proof, one fee.
RefinesReservation == ReservationSpec!Spec

\* "Booking is holding the vehicle once confirmed": one buyer at a time does.
OneHolder ==
  \A a, b \in Bookings :
    (/\ booking[a].status = "CONFIRMED" /\ booking[b].status = "CONFIRMED"
     /\ booking[a].listing = booking[b].listing) => a = b
=============================================================================
