\* Two handlers in progress at once, any of which may die; two invoices and two
\* payments, so that a buyer can hold two invoices of one vehicle and an invoice
\* can receive two payments.
CONSTANTS
  b1 = b1
  l1 = l1
  p1 = p1
  p2 = p2
  h1 = h1
  h2 = h2
  None = None
  Buyers = {b1}
  Listings = {l1}
  Payments = {p1, p2}
  MaxInvoices = 2
  Handlers = {h1, h2}
  AdminStatuses = {}
  FleetListings = {None}
  MayCrash = TRUE
SPECIFICATION Spec
SYMMETRY Symmetry
CHECK_DEADLOCK FALSE
INVARIANTS
  TypeOK
  ClaimsAreBacked
PROPERTIES
  DecisionIsFinal
  RefinesPurchase
