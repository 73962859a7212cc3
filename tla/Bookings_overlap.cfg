\* Two requests in progress at once, any of which may die; two bookings by
\* one buyer.
CONSTANTS
  b1 = b1
  l1 = l1
  h1 = h1
  h2 = h2
  None = None
  Buyers = {b1}
  Listings = {l1}
  Fees = {1, 2}
  MaxBookings = 2
  Handlers = {h1, h2}
SPECIFICATION Spec
SYMMETRY Symmetry
CHECK_DEADLOCK FALSE
INVARIANTS
  TypeOK
  BookingsAreSound
  OneActiveBooking
PROPERTY
  RefinesReservation
