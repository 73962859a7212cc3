\* One handler at a time and no crash: what the handlers guarantee when none of
\* them overlaps another.
CONSTANTS
  b1 = b1
  l1 = l1
  p1 = p1
  p2 = p2
  h1 = h1
  None = None
  Buyers = {b1}
  Listings = {l1}
  Payments = {p1, p2}
  MaxInvoices = 2
  Handlers = {h1}
  AdminStatuses = {"PUBLISHED", "RESERVED", "SOLD"}
  FleetListings = {l1, None}
  MayCrash = FALSE
SPECIFICATION FairSpec
CHECK_DEADLOCK FALSE
PROPERTIES
  PaymentStatusMachine
  EndsUnpaidOnly
  ConfirmedIsOrdered
  OverdueIsEnded
