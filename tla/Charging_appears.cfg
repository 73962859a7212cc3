CONSTANTS
  o1 = o1
  s1 = s1
  p1 = p1
  h1 = h1
  None = None
  Operators = {o1}
  Stations = {s1}
  Ports = {p1}
  Tariffs = {}
  MaxPhotos = 1
  MaxRequests = 2
  Handlers = {h1}
SPECIFICATION ApprovingSpec
CHECK_DEADLOCK FALSE
PROPERTY ApprovedAppears
