SPECIFICATION MCSpec
CONSTANTS
  Requests = {r1}
  Interfaces = {w1}
  Parts = {"scan"}
  a1 = a1
  a2 = a2
  g1 = g1
  g2 = g2
  d4 = d4
  d6 = d6
  w4 = w4
  Values = {a1, a2, g1, g2, d4, d6, w4}
  None = None
  Adapters <- MCAdapters
  Wanted <- MCWanted
  Servers6 = {d6}
  Lease <- MCLease
CHECK_DEADLOCK FALSE
INVARIANTS
  ContextOutlivesCallback
