\* One request at a time, which may die; three photos and room for two of them.
CONSTANTS
  l1 = l1
  p1 = p1
  p2 = p2
  p3 = p3
  h1 = h1
  None = None
  Listings = {l1}
  Photos = {p1, p2, p3}
  PhotoLimit = 2
  MaxChanges = 2
  Handlers = {h1}
SPECIFICATION FairSpec
CHECK_DEADLOCK FALSE
INVARIANTS
  TypeOK
  PhotosAreSound
PROPERTIES
  StockGetsPriced
