SPECIFICATION MCSpec
CONSTANTS
  Nodes = {n1, n2}
  Proxies = {p1, p2}
  Hosts = {h1, h2, h3}
  Users = {u1}
  Groups = {g1}
  HomeNode <- MCHomeNode
  HostOrder <- MCHostOrder
  DirectPath <- MCDirectPath
  DirectLabel <- MCDirectLabel
  PathForms <- MCPathForms
  CustomPaths = {c1, c2}
  None = None
  MaxDialerPathDepth = 3
  MaxPathGroupMembers = 2
  MaxInFlight = 1
  MaxChanges = 3
  n1 = n1  n2 = n2  p1 = p1  p2 = p2  h1 = h1  h2 = h2  h3 = h3
  u1 = u1  g1 = g1  d1 = d1  d2 = d2  d3 = d3  c1 = c1  c2 = c2
INVARIANT SubscriptionRenders
CHECK_DEADLOCK FALSE
