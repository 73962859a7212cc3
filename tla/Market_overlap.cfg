CONSTANTS
  u1 = u1
  l1 = l1
  l2 = l2
  r1 = r1
  r2 = r2
  c1 = c1
  s1 = s1
  x1 = x1
  k1 = k1
  h1 = h1
  h2 = h2
  None = None
  Users = {u1}
  Links = {r1, r2}
  MaxSecond = 1
  Listings = {l1}
  Vehicles = {l1, l2}
  Inquiries = {r1, r2}
  MaxInvoices = 2
  Rules = {r1, r2}
  Terms <- MCTerms
  Inputs = {4}
  Amounts = {1}
  Rates = {2, 4}
  Places = {"RW"}
  Origins = {None}
  Columns = {"type", "terms"}
  Channels = {"UZA_CHINA_SOURCING", "LOCAL_SELLER"}
  Campaigns = {r1, r2}
  Discounts <- MCDiscounts
  Fine = 2
  Francs = {14008}
  Quotes = {1398, 1400}
  MaxDay = 2
  Held = {"BUYER", "FINANCE_ADMIN", "SUPER_ADMIN"}
  Asked <- MCAsked
  Codes = {x1}
  Sockets = {k1}
  Notes = {r1, r2}
  Categories = {r1, r2}
  Subcategories = {s1}
  Traits = {c1}
  Figures = {1}
  MaxCalls = 4
  MaxVisits = 3
  MaxSignIns = 3
  MaxPricings = 3
  MaxCampaigns = 4
  Handlers = {h1, h2}
SPECIFICATION Spec
SYMMETRY Sym
CHECK_DEADLOCK FALSE
INVARIANTS
  TypeOK
  SessionsEnd
  LinksWorkOnce
  BuyersAreInvoiced
  PricesFollowTheirRule
  DisplayFollowsRate
  EndedIsInactive
  BestIsShown
  RightsAreCurrent
  InboxIsComplete
  TreeIsKept
  VisitsAndTogglesCount
