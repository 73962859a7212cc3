CONSTANTS
  o1 = o1
  s1 = s1
  p1 = p1
  p2 = p2
  t1 = t1
  t2 = t2
  v1 = v1
  q1 = q1
  b1 = b1
  h1 = h1
  h2 = h2
  None = None
  Operators = {o1}
  Stations = {s1}
  Ports = {p1, p2}
  Tariffs = {t1, t2}
  MaxPhotos = 2
  Sellers = {v1}
  PartRows = {q1}
  Banks = {b1}
  MaxRows = 1
  MaxTables = 1
  MaxRequests = 3
  Handlers = {h1, h2}
SPECIFICATION Spec
SYMMETRY Sym
CHECK_DEADLOCK FALSE
INVARIANTS
  TypeOK
  CountsAgree
  OneOfEach
  PublicPartIsAsApproved
  RequestsAreSound
PROPERTY WorkflowsHold
