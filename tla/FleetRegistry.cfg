SPECIFICATION MCSpec
CONSTANTS
  NodeIDs = {n1, n2}
  TokenIDs = {t1, t2, t3, t4}
  ProxyIDs = {p1, p2}
  Names = {x, y}
  ProxyNames = {p, q, s}
  Listeners <- MCListener
  Requests = {r1, r2}
  MaxRequests = 4
  None = None
  n1 = n1  t1 = t1  p1 = p1  x = x  p = p  r1 = r1  r2 = r2
SYMMETRY MCSymmetry
PROPERTIES DeletionCutsOff ReferencesSurvive
CHECK_DEADLOCK FALSE
