SPECIFICATION MCSpec
CONSTANTS
  NodeIDs = {n1}
  TokenIDs = {t1}
  ProxyIDs = {p1}
  Names = {x}
  ProxyNames = {p, q, s}
  Listeners <- MCListeners
  Requests = {r1, r2}
  MaxRequests = 5
  None = None
  n1 = n1  t1 = t1  p1 = p1  x = x  p = p  r1 = r1  r2 = r2
SYMMETRY MCSymmetry
PROPERTIES ReferencesAlwaysSurvive
CHECK_DEADLOCK FALSE
