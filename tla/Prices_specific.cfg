CONSTANTS
  l1 = l1
  r1 = r1
  r2 = r2
  c1 = c1
  h1 = h1
  None = None
  Listings = {l1}
  Rules = {r1, r2}
  Terms <- MCTerms
  Inputs = {4}
  Discounts = {1}
  Rates = {2, 4}
  Places = {"RW"}
  Origins = {None, "RW"}
  Columns = {"type", "terms"}
  Channels = {"UZA_CHINA_SOURCING", "LOCAL_SELLER"}
  MaxRequests = 2
  Handlers = {h1}
SPECIFICATION Spec
CHECK_DEADLOCK FALSE
PROPERTY SpecificRuleWins
