\* One handler at a time.
CONSTANTS
  b1 = b1
  l1 = l1
  p1 = p1
  p2 = p2
  h1 = h1
  h2 = h2
  None = None
  Buyers = {b1}
  Listings = {l1}
  Payments = {p1, p2}
  MaxInvoices = 2
  Handlers = {h1}
  AdminStatuses = {}
  FleetListings = {None}
  MayCrash = FALSE
SPECIFICATION Spec
CHECK_DEADLOCK FALSE
INVARIANT
  OneActiveInvoice
