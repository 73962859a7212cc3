\* Two requests in progress at once, any of which may die, on one listing.
CONSTANTS
  l1 = l1
  p1 = p1
  h1 = h1
  h2 = h2
  None = None
  Listings = {l1}
  Photos = {p1}
  PhotoLimit = 1
  MaxChanges = 1
  Handlers = {h1, h2}
SPECIFICATION Spec
SYMMETRY Interchangeable
CHECK_DEADLOCK FALSE
INVARIANTS
  
  PlatformStockFits
