CONSTANTS
  c1 = c1
  c2 = c2
  c3 = c3
  r1 = r1
  r2 = r2
  p1 = p1
  p2 = p2
  p3 = p3
  srv = srv
  None = None
  Before <- NewOrCopied
  Session = {c1, r1, r2}
  Pid = {p1, srv}
  PidOf <- CommandAndRequests
  Server = {srv}
  MaxTickets = 3
  MaxCrashes = 1
SPECIFICATION Spec
CHECK_DEADLOCK FALSE
SYMMETRY Symmetry
INVARIANTS
  TypeOK
  Exclusive
  CreateOrderAlone
