\* Two requests in progress at once about one order, and one about the invoice and the
\* payment it comes from, any of which may die; timelines of one event more than the
\* flow of a local seller, two shipments.
CONSTANTS
  b1 = b1
  l1 = l1
  p1 = p1
  k1 = k1
  h1 = h1
  h2 = h2
  None = None
  Buyers = {b1}
  Listings = {l1}
  Payments = {p1}
  MaxInvoices = 1
  Clerks = {k1}
  AdminStatuses = {}
  FleetListings = {None}
  MayCrash = TRUE
  Orders = {1}
  SellerTypes = {"LOCAL_SELLER"}
  MaxEvents = 6
  MaxShipments = 2
  Handlers = {h1, h2}
SPECIFICATION SalesSpec
CHECK_DEADLOCK FALSE
INVARIANTS
  TypeOK
  TimelineIsPath
PROPERTIES
  ShipmentIsKept
  DeliveriesAreCounted
  RefinesSale
