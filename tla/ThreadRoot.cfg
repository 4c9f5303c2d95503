SPECIFICATION Spec
CONSTANTS
  h1 = h1
  h2 = h2
  w1 = w1
  w2 = w2
  p1 = p1
  p2 = p2
  p3 = p3
  a1 = a1
  a2 = a2
  Nobody = Nobody
  Hosts = {h1}
  Workers = {w1, w2}
  Programs = {p1}
  Engine <- MCEngine
  Callbacks <- MCCallbacks
  MaxCallbacks = 2
  Rooms = {0, 4}
  Args = {a1}
  MaxDepth = 2
  Disciplined = FALSE
CHECK_DEADLOCK FALSE
INVARIANT
  EntryAssertHolds
